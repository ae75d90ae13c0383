--------------------------- MODULE Accounts_proofs ---------------------------
(***************************************************************************)
(* Proofs about Accounts, for every set of accounts, numbers and requests, *)
(* and for every life of the cache's entries.                              *)
(***************************************************************************)
EXTENDS Accounts, FiniteSetTheorems, TLAPS

(***************************************************************************)
(* The inductive invariant.                                                *)
(***************************************************************************)

\* A request holds what its next step needs.
Args(q) ==
  q # NoCall =>
    /\ q.pc \in {"load", "fill"} => q.kind # "login"
    /\ q.pc \in {"fill", "login", "purge", "deleteRow", "cleanup"} => q.copy \in Row
    /\ q.pc = "check" => q.kind \in {"update", "reset", "delete"}
    /\ q.pc = "write" => q.kind \in {"update", "reset", "password"}
    /\ q.pc \in {"purge", "deleteRow", "cleanup"} => q.kind = "delete"
    /\ q.pc = "invalidate" => q.kind \in {"update", "reset", "password", "delete"}
    /\ q.pc = "insert" => q.kind = "create"
    /\ q.pc \in {"makeDir", "setDir", "undoRow", "undoBoth", "undoDir"} =>
         q.kind = "create" /\ q.target \in Account
    /\ q.kind \in {"update", "reset", "delete"} => q.target \in Account
    /\ q.kind = "create" => q.no \in No /\ q.patch.role \in {"admin", "user"}

\* The row that a request is deleting is the one it read, or is gone.
RowIsRead(c) ==
  call[c].pc \in {"purge", "deleteRow"} =>
    /\ users[call[c].target] # Unused
    /\ Lives(call[c].target) => users[call[c].target].no = call[c].copy.no

\* A directory is cleaned up after its account.
CleansAlone(c) == \A no \in No : Cleans(c, no) /\ Taken(no) => reused

\* The requests that may take an administrator away with their next statements.
Threatens(c) ==
  \/ call[c].pc \in {"makeDir", "setDir", "undoRow", "undoBoth", "purge", "deleteRow"}
  \/ /\ call[c].pc = "write" /\ call[c].kind = "update"
     /\ call[c].patch.role = "user" \/ call[c].patch.enabled = "off"

\* Unless the administrators have changed since it counted them, it takes not the last.
LeavesOne(c) == Threatens(c) /\ c \notin stale => unseen \/ Admins # {call[c].target}

CallInv(c) == Args(call[c]) /\ RowIsRead(c) /\ CleansAlone(c) /\ LeavesOne(c)

Distinct == \A i, j \in Account : i # j /\ Lives(i) /\ Lives(j) => users[i].no # users[j].no

AInv ==
  /\ ATypeOK /\ Distinct /\ AdminRemains /\ StaleEntryIsRaced /\ FilesOutliveOthers
  /\ \A c \in Call : CallInv(c)

LEMMA RowType ==
  ASSUME ATypeOK, NEW i \in Account
  PROVE  Lives(i) <=> users[i] \in Row
  BY AccountsAssumption DEF ATypeOK, Lives, Absent

LEMMA EmptyType == Empty \in Entry /\ Empty.row = NoRow
  BY AccountsAssumption DEF Empty, Entry

LEMMA NoCallType == NoCall \in CallRecord \cup {NoCall} /\ NoCall.pc = "idle" /\ Args(NoCall)
  BY DEF NoCall, Args

LEMMA NoCallInv ==
  ASSUME NEW c \in Call, call'[c] = NoCall
  PROVE  CallInv(c)'
  BY NoCallType DEF CallInv, RowIsRead, CleansAlone, Cleans, CallAt, LeavesOne, Threatens

\* One administrator is the last one.
LEMMA LastOne == \A i : Admins = {i} => LastAdmin
  BY FS_Singleton DEF LastAdmin

LEMMA AInvInit == AInit => AInv
<1> SUFFICES ASSUME AInit PROVE AInv
  OBVIOUS
<1>1. users \in [Account -> Row \cup Absent] /\ calls \in 0 .. MaxCalls
  BY AccountsAssumption DEF AInit, Absent
<1>2. tokens \subseteq Account \X (1 .. MaxHash)
  BY AccountsAssumption DEF AInit
<1>3. home \in [No -> (SUBSET Account) \cup {{"none"}}]
  BY DEF AInit, NoDir
<1>4. ATypeOK
  BY <1>1, <1>2, <1>3, EmptyType, NoCallType DEF AInit, ATypeOK
<1>5. StaleEntryIsRaced
  BY EmptyType DEF AInit, StaleEntryIsRaced, Contradicted, Lookup
<1>6. \A c \in Call : CallInv(c)
  BY NoCallType DEF AInit, CallInv, RowIsRead, CleansAlone, Cleans, CallAt, LeavesOne, Threatens
<1>7. Distinct /\ AdminRemains /\ FilesOutliveOthers
  BY DEF AInit, Distinct, AdminRemains, FilesOutliveOthers
<1>8. QED
  BY <1>4, <1>5, <1>6, <1>7 DEF AInv

(***************************************************************************)
(* What a step leaves to show, by the state it changes.                    *)
(***************************************************************************)

\* Ids are not reused, and a row keeps its number.
RowsStay ==
  \A i \in Account : users[i] # Unused =>
    /\ users'[i] # Unused
    /\ Lives(i)' => Lives(i) /\ users'[i].no = users[i].no

LEMMA RowsStayUnchanged == users' = users => RowsStay
  BY DEF RowsStay, Lives

\* The requests that wait while another one writes.
LEMMA WaitingCall ==
  ASSUME AInv, Remember, RowsStay, NEW d \in Call, call'[d] = call[d],
         \A no \in No : Taken(no)' /\ Cleans(d, no) => Taken(no) \/ reused'
  PROVE  CallInv(d)'
<1>1. CallInv(d) /\ call[d] \in CallRecord \cup {NoCall}
  BY DEF AInv, ATypeOK
<1>2. Args(call[d])'
  BY <1>1 DEF CallInv
<1>3. RowIsRead(d)'
  <2>1. call[d].pc \in {"purge", "deleteRow"} => call[d].target \in Account
    BY <1>1, NoCallType DEF CallInv, Args
  <2>2. QED
    BY <1>1, <2>1 DEF CallInv, RowIsRead, RowsStay
<1>4. CleansAlone(d)'
  BY <1>1 DEF CallInv, CleansAlone, Cleans, CallAt, Remember
<1>5. LeavesOne(d)'
  <2> SUFFICES ASSUME Threatens(d)', d \notin stale' PROVE unseen' \/ Admins' # {call[d].target}
    BY DEF LeavesOne
  <2>1. ~Idle(d)' /\ ~Acting(d) /\ Threatens(d)
    BY DEF Threatens, Idle, Acting
  <2>2. d \notin stale /\ Admins' = Admins
    BY <2>1 DEF Remember
  <2>3. unseen => unseen'
    BY DEF Remember
  <2>4. QED
    BY <1>1, <2>1, <2>2, <2>3 DEF CallInv, LeavesOne
<1>6. QED
  BY <1>2, <1>3, <1>4, <1>5 DEF CallInv

\* A step of one request that does not write the table users.
LEMMA QuietCall ==
  ASSUME AInv, Remember, ATypeOK', users' = users, NEW c \in Call, CallInv(c)',
         \A d \in Call \ {c} : call'[d] = call[d],
         StaleEntryIsRaced', FilesOutliveOthers'
  PROVE  AInv'
<1>1. Distinct' /\ AdminRemains'
  BY DEF AInv, Distinct, AdminRemains, Lives, Admins, Remember
<1>2. \A d \in Call \ {c} : CallInv(d)'
  BY RowsStayUnchanged, WaitingCall DEF Taken, Lives
<1>3. QED
  BY <1>1, <1>2 DEF AInv

\* The entries of the cache stay, and who settles them does.
LEMMA EntriesStay ==
  ASSUME AInv, Remember, users' = users, cache' = cache,
         \A c \in Call, i \in Account : Settles(c, i) => Settles(c, i)'
  PROVE  StaleEntryIsRaced'
<1> SUFFICES ASSUME NEW i \in Account, Contradicted(i)'
             PROVE  i \in lateFill' \cup undone' \cup unanswered' \/ \E c \in Call : Settles(c, i)'
  BY DEF StaleEntryIsRaced
<1>1. Contradicted(i) /\ Lookup(i)' /\ Differs(i, cache'[i].row)
  BY DEF Contradicted, Lookup, Differs, Lives
<1>2. i \in lateFill \cup undone \cup unanswered \/ \E c \in Call : Settles(c, i)
  BY <1>1 DEF AInv, StaleEntryIsRaced
<1>3. i \in lateFill \cup unanswered => i \in lateFill' \cup unanswered'
  BY <1>1 DEF Remember
<1>4. i \in undone => i \in undone'
  BY DEF Remember
<1>5. QED
  BY <1>2, <1>3, <1>4

\* Nothing of the files moves.
LEMMA FilesStay ==
  ASSUME AInv, Remember, holds' = holds, home' = home,
         \A i \in holds : users'[i].no = users[i].no
  PROVE  FilesOutliveOthers'
  BY DEF AInv, FilesOutliveOthers, Remember

\* A request starts or goes on, and touches nothing else.
LEMMA CallOnly ==
  ASSUME AInv, Remember, NEW c \in Call, NEW q \in CallRecord \cup {NoCall},
         call' = [call EXCEPT ![c] = q], CallInv(c)',
         UNCHANGED <<users, cache, home, holds>>,
         tokens' = tokens, calls' \in 0 .. MaxCalls,
         call[c].pc \notin {"cleanup", "invalidate"}
  PROVE  AInv'
<1>1. call' \in [Call -> CallRecord \cup {NoCall}] /\ \A d \in Call \ {c} : call'[d] = call[d]
  BY DEF AInv, ATypeOK
<1>2. /\ lateFill' \subseteq Account /\ undone' \subseteq Account /\ unanswered' \subseteq Account
      /\ stale' \subseteq Call
  BY DEF AInv, ATypeOK, Remember
<1>3. unseen' \in BOOLEAN /\ reused' \in BOOLEAN
  BY DEF Remember
<1>4. ATypeOK'
  BY <1>1, <1>2, <1>3 DEF AInv, ATypeOK, Lives
<1>5. StaleEntryIsRaced'
  BY <1>1, EntriesStay DEF Settles, Subject
<1>6. FilesOutliveOthers'
  BY FilesStay
<1>7. QED
  BY <1>1, <1>4, <1>5, <1>6, QuietCall

(***************************************************************************)
(* Authentication.                                                         *)
(***************************************************************************)

\* A call that threatens no administrator and cleans nothing.
LEMMA HarmlessCall ==
  ASSUME NEW c \in Call, Args(call[c])',
         call'[c].pc \in {"idle", "load", "fill", "login", "check", "insert", "invalidate", "failed"}
           \/ (call'[c].pc = "write" /\ call'[c].kind # "update")
  PROVE  CallInv(c)'
  BY DEF CallInv, RowIsRead, CleansAlone, Cleans, CallAt, LeavesOne, Threatens

LEMMA EnterType ==
  ASSUME NEW row, NEW hash, NEW kind \in Kinds \ {"login"}
  PROVE  /\ Enter(row, hash, kind) \in {"idle", "check", "insert", "write"}
         /\ Enter(row, hash, kind) = "check" => kind \in {"update", "reset", "delete"}
         /\ Enter(row, hash, kind) = "insert" => kind = "create"
         /\ Enter(row, hash, kind) = "write" => kind = "password"
  BY DEF Enter, FirstStep, Kinds

LEMMA ArriveStep ==
  ASSUME AInv, Remember, NEW c \in Call, NEW i, NEW hash, NEW kind \in Kinds \ {"login"},
         NEW target \in Account \cup {NoAccount}, NEW patch \in Patch, NEW no \in No \cup {"none"},
         kind # "use" => calls < MaxCalls,
         kind \in {"update", "reset", "delete"} => target \in Account,
         kind = "create" => no \in No /\ patch.role \in {"admin", "user"},
         Arrive(c, i, hash, kind, target, patch, no)
  PROVE  AInv'
<1> DEFINE record == [pc |-> "load", kind |-> kind, actor |-> i, hash |-> hash, target |-> target,
                      patch |-> patch, no |-> no, copy |-> NoRow]
           step == IF Lookup(i) THEN Enter(cache[i].row, hash, kind) ELSE "load"
           q == IF step = "idle" THEN NoCall ELSE [record EXCEPT !.pc = step]
<1>1. i \in Account /\ hash \in 1 .. MaxHash
  BY DEF Arrive, AInv, ATypeOK
<1>2. /\ step \in {"idle", "load", "check", "insert", "write"}
      /\ step = "check" => kind \in {"update", "reset", "delete"}
      /\ step = "insert" => kind = "create"
      /\ step = "write" => kind = "password"
  BY EnterType
<1>3. call' = [call EXCEPT ![c] = q] /\ Idle(c)
  BY DEF Arrive
<1> HIDE DEF step
<1>4. q \in CallRecord \cup {NoCall}
  BY <1>1, <1>2 DEF CallRecord, CallSteps
<1>5. Args(q) /\ (q.pc \in {"idle", "load", "check", "insert"} \/ (q.pc = "write" /\ q.kind # "update"))
  BY <1>2, NoCallType DEF Args
<1>6. call'[c] = q
  BY <1>3 DEF AInv, ATypeOK
<1> HIDE DEF q
<1>7. CallInv(c)'
  BY <1>5, <1>6, HarmlessCall
<1>8. calls' \in 0 .. MaxCalls
  BY AccountsAssumption DEF Arrive, AInv, ATypeOK
<1>9. UNCHANGED <<users, cache, tokens, home, holds>>
  BY DEF Arrive, Hit
<1>10. QED
  BY <1>3, <1>4, <1>7, <1>8, <1>9, CallOnly DEF Idle

LEMMA LoadStep ==
  ASSUME AInv, Remember, NEW c \in Call, Load(c)
  PROVE  AInv'
<1> DEFINE i == call[c].actor
           q == IF Lives(i) THEN [call[c] EXCEPT !.pc = "fill", !.copy = users[i]] ELSE NoCall
<1>1. call[c] \in CallRecord /\ call[c].pc = "load" /\ Args(call[c])
  BY NoCallType DEF AInv, ATypeOK, Load, CallAt, CallInv
<1>2. call' = [call EXCEPT ![c] = q]
  BY DEF Load
<1>3. q \in CallRecord \cup {NoCall} /\ Args(q) /\ q.pc \in {"idle", "fill"}
  <2>1. CASE Lives(i)
    <3>1. users[i] \in Row
      BY <1>1, <2>1, RowType DEF CallRecord, AInv
    <3>2. QED
      BY <1>1, <2>1, <3>1, NoCallType DEF CallRecord, CallSteps, Args
  <2>2. CASE ~Lives(i)
    BY <2>2, NoCallType
  <2>3. QED
    BY <2>1, <2>2
<1>4. call'[c] = q
  BY <1>2 DEF AInv, ATypeOK
<1> HIDE DEF q
<1>5. CallInv(c)'
  BY <1>3, <1>4, HarmlessCall
<1>6. UNCHANGED <<users, cache, tokens, home, holds>> /\ calls' \in 0 .. MaxCalls
  BY DEF Load, AInv, ATypeOK
<1>7. QED
  BY <1>1, <1>2, <1>3, <1>5, <1>6, CallOnly

LEMMA LoginReadStep ==
  ASSUME AInv, Remember, NEW c \in Call, NEW i \in Account, LoginRead(c, i)
  PROVE  AInv'
<1> DEFINE q == [pc |-> "login", kind |-> "login", actor |-> i, hash |-> users[i].hash,
                 target |-> NoAccount, patch |-> NoPatch, no |-> "none", copy |-> users[i]]
<1>1. users[i] \in Row
  BY RowType DEF LoginRead, AInv
<1>2. q \in CallRecord /\ Args(q) /\ q.pc = "login"
  BY <1>1 DEF CallRecord, CallSteps, Kinds, NoPatch, Patch, Args, Row
<1>3. call' = [call EXCEPT ![c] = q] /\ Idle(c)
  BY DEF LoginRead
<1>4. call'[c] = q
  BY <1>3 DEF AInv, ATypeOK
<1> HIDE DEF q
<1>5. CallInv(c)'
  BY <1>2, <1>4, HarmlessCall
<1>6. UNCHANGED <<users, cache, tokens, home, holds>> /\ calls' \in 0 .. MaxCalls
  BY DEF LoginRead, AInv, ATypeOK
<1>7. QED
  BY <1>2, <1>3, <1>5, <1>6, CallOnly DEF Idle

\* An entry is stored: from now on it is what was read, late or not.
LEMMA StoredEntry ==
  ASSUME AInv, Remember, NEW c \in Call, NEW q \in CallRecord \cup {NoCall},
         call' = [call EXCEPT ![c] = q], call[c].pc \in {"fill", "login"},
         q.pc \in {"idle", "check", "insert"} \/ (q.pc = "write" /\ q.kind # "update"), Args(q),
         Put(call[c].actor, call[c].copy),
         UNCHANGED <<users, home, holds, calls>>,
         tokens' \subseteq Account \X (1 .. MaxHash)
  PROVE  AInv'
<1> DEFINE a == call[c].actor
<1>1. call[c] \in CallRecord /\ call[c].copy \in Row /\ a \in Account
  BY NoCallType DEF AInv, ATypeOK, CallInv, Args, CallRecord
<1>2. call' \in [Call -> CallRecord \cup {NoCall}] /\ call'[c] = q
      /\ \A d \in Call \ {c} : call'[d] = call[d]
  BY DEF AInv, ATypeOK
<1>3. cache' \in [Account -> Entry] /\ \A i \in Account \ {a} : cache'[i] = cache[i]
  BY <1>1, AccountsAssumption DEF Put, Entry, AInv, ATypeOK
<1>4. /\ lateFill' \subseteq Account /\ undone' \subseteq Account /\ unanswered' \subseteq Account
      /\ stale' \subseteq Call
  BY DEF AInv, ATypeOK, Remember
<1>5. unseen' \in BOOLEAN /\ reused' \in BOOLEAN
  BY DEF Remember
<1>6. ATypeOK'
  BY <1>2, <1>3, <1>4, <1>5 DEF AInv, ATypeOK, Lives
<1>7. CallInv(c)'
  BY <1>2, HarmlessCall
<1>8. FilesOutliveOthers'
  BY FilesStay
<1>9. StaleEntryIsRaced'
  <2> SUFFICES ASSUME NEW i \in Account, Contradicted(i)'
               PROVE  i \in lateFill' \cup undone' \cup unanswered' \/ \E d \in Call : Settles(d, i)'
    BY DEF StaleEntryIsRaced
  <2>1. Lookup(i)' /\ Differs(i, cache'[i].row)
    BY DEF Contradicted, Differs, Lives
  <2>2. CASE i = a
    <3>1. Filling(i)
      BY <1>2, <2>2 DEF Filling, Acting
    <3>2. QED
      BY <2>1, <3>1 DEF Remember
  <2>3. CASE i # a
    <3>1. Contradicted(i)
      BY <1>3, <2>1, <2>3 DEF Contradicted, Lookup
    <3>2. i \in lateFill \cup undone \cup unanswered \/ \E d \in Call : Settles(d, i)
      BY <3>1 DEF AInv, StaleEntryIsRaced
    <3>3. i \in lateFill \cup unanswered => i \in lateFill' \cup unanswered'
      BY <2>1 DEF Remember
    <3>4. i \in undone => i \in undone'
      BY DEF Remember
    <3>5. \A d \in Call : Settles(d, i) => Settles(d, i)'
      BY <1>2 DEF Settles, Subject
    <3>6. QED
      BY <3>2, <3>3, <3>4, <3>5
  <2>4. QED
    BY <2>2, <2>3
<1>10. QED
  BY <1>2, <1>6, <1>7, <1>8, <1>9, QuietCall

LEMMA ProceedValue ==
  ASSUME ATypeOK, NEW c \in Call, NEW step \in CallSteps, Proceed(c, step), call[c] \in CallRecord
  PROVE  \E q \in CallRecord \cup {NoCall} :
           /\ call' = [call EXCEPT ![c] = q]
           /\ q.pc = step
           /\ step = "idle" => q = NoCall
           /\ step # "idle" => q = [call[c] EXCEPT !.pc = step]
<1> DEFINE q == IF step = "idle" THEN NoCall ELSE [call[c] EXCEPT !.pc = step]
<1>1. call' = [call EXCEPT ![c] = q]
  BY DEF Proceed
<1>2. q \in CallRecord \cup {NoCall} /\ q.pc = step
  BY NoCallType DEF CallRecord
<1>3. QED
  BY <1>1, <1>2

LEMMA FillStep ==
  ASSUME AInv, Remember, NEW c \in Call, Fill(c)
  PROVE  AInv'
<1> DEFINE step == Enter(call[c].copy, call[c].hash, call[c].kind)
<1>1. call[c] \in CallRecord /\ call[c].pc = "fill" /\ Args(call[c])
  BY NoCallType DEF AInv, ATypeOK, Fill, CallAt, CallInv
<1>2. call[c].kind \in Kinds \ {"login"} /\ call[c] # NoCall
  BY <1>1, NoCallType DEF Args, CallRecord
<1>3. /\ step \in {"idle", "check", "insert", "write"}
      /\ step = "check" => call[c].kind \in {"update", "reset", "delete"}
      /\ step = "insert" => call[c].kind = "create"
      /\ step = "write" => call[c].kind = "password"
  BY <1>2, EnterType
<1> HIDE DEF step
<1>4. Proceed(c, step) /\ step \in CallSteps
  BY <1>3 DEF Fill, step, CallSteps
<1>5. PICK q \in CallRecord \cup {NoCall} :
        /\ call' = [call EXCEPT ![c] = q]
        /\ q.pc = step
        /\ step = "idle" => q = NoCall
        /\ step # "idle" => q = [call[c] EXCEPT !.pc = step]
  BY <1>1, <1>4, ProceedValue DEF AInv
<1>6. step # "idle" => /\ q.kind = call[c].kind /\ q.target = call[c].target
                       /\ q.no = call[c].no /\ q.patch = call[c].patch
  BY <1>1, <1>5 DEF CallRecord
<1>7. Args(q) /\ (q.pc \in {"idle", "check", "insert"} \/ (q.pc = "write" /\ q.kind # "update"))
  BY <1>1, <1>2, <1>3, <1>5, <1>6, NoCallType DEF Args
<1>8. QED
  BY <1>1, <1>5, <1>7, StoredEntry DEF Fill, AInv, ATypeOK

LEMMA LoginIssueStep ==
  ASSUME AInv, Remember, NEW c \in Call, LoginIssue(c)
  PROVE  AInv'
<1>1. call[c] \in CallRecord /\ call[c].pc = "login"
  BY NoCallType DEF AInv, ATypeOK, LoginIssue, CallAt
<1>2. call' = [call EXCEPT ![c] = NoCall]
  BY DEF LoginIssue, Proceed
<1>3. tokens' \subseteq Account \X (1 .. MaxHash)
  BY <1>1 DEF LoginIssue, AInv, ATypeOK, CallRecord
<1>4. QED
  BY <1>1, <1>2, <1>3, NoCallType, StoredEntry DEF LoginIssue

(***************************************************************************)
(* Administrators' requests.                                               *)
(***************************************************************************)
LEMMA CheckStep ==
  ASSUME AInv, Remember, NEW c \in Call, Check(c)
  PROVE  AInv'
<1> DEFINE i == call[c].target
           refused == \/ ~Lives(i)
                      \/ Self(c) /\ (call[c].kind = "delete" \/ call[c].patch.role = "user"
                                       \/ call[c].patch.enabled = "off")
                      \/ Removes(c, users[i]) /\ LastAdmin
           step == IF call[c].kind = "delete" THEN "purge" ELSE "write"
           next == [call[c] EXCEPT !.pc = step, !.copy = users[i]]
           q == IF refused THEN NoCall ELSE next
<1>1. call[c] \in CallRecord /\ call[c].pc = "check" /\ Args(call[c])
  BY NoCallType DEF AInv, ATypeOK, Check, CallAt, CallInv
<1>2. call[c].kind \in {"update", "reset", "delete"} /\ i \in Account
  BY <1>1, NoCallType DEF Args
<1>3. call' = [call EXCEPT ![c] = q]
  BY DEF Check
<1>4. UNCHANGED <<users, cache, tokens, home, holds>> /\ calls' \in 0 .. MaxCalls
  BY DEF Check, AInv, ATypeOK
<1>5. call'[c] = q
  BY <1>3 DEF AInv, ATypeOK
<1>6. CASE refused
  <2>1. CallInv(c)'
    BY <1>5, <1>6, NoCallInv
  <2>2. q \in CallRecord \cup {NoCall}
    BY <1>6
  <2> HIDE DEF q
  <2>3. QED
    BY <1>1, <1>3, <1>4, <2>1, <2>2, CallOnly
<1>7. CASE ~refused
  <2>1. users[i] \in Row
    BY <1>2, <1>7, RowType DEF AInv
  <2>2. /\ next \in CallRecord /\ next.pc = step /\ next.copy = users[i]
        /\ next.kind = call[c].kind /\ next.target = i /\ next.patch = call[c].patch
        /\ next.no = call[c].no
    BY <1>1, <2>1 DEF CallRecord, CallSteps
  <2>3. Args(next)
    BY <1>1, <1>2, <2>1, <2>2, NoCallType DEF Args
  <2>4. call'[c] = next /\ call' = [call EXCEPT ![c] = next]
    BY <1>3, <1>5, <1>7
  <2>5. RowIsRead(c)'
    BY <1>2, <1>4, <1>7, <2>1, <2>2, <2>4, AccountsAssumption DEF RowIsRead, Lives, Absent
  <2>6. CleansAlone(c)'
    BY <2>2, <2>4 DEF CleansAlone, Cleans, CallAt
  <2>7. ASSUME Threatens(c)', Admins = {i} PROVE FALSE
    <3>1. \/ call[c].kind = "delete"
          \/ call[c].kind = "update" /\ (call[c].patch.role = "user" \/ call[c].patch.enabled = "off")
      BY <1>2, <2>2, <2>4, <2>7 DEF Threatens
    <3>2. users[i].role = "admin"
      BY <2>7 DEF Admins
    <3>3. QED
      BY <1>7, <2>7, <3>1, <3>2, LastOne DEF Removes
  <2>8. LeavesOne(c)'
    BY <1>4, <2>2, <2>4, <2>7 DEF LeavesOne, Admins, Lives
  <2>9. CallInv(c)'
    BY <2>3, <2>4, <2>5, <2>6, <2>8 DEF CallInv
  <2> HIDE DEF next
  <2>10. QED
    BY <1>1, <1>4, <2>2, <2>4, <2>9, CallOnly
<1>8. QED
  BY <1>6, <1>7

\* Who keeps an administrator: the one a request takes away was not the last.
LEMMA AdminsLeft ==
  ASSUME AInv, Remember, NEW c \in Call, Acting(c), NEW t,
         Admins \ {t} \subseteq Admins',
         t \in Admins /\ t \notin Admins' => Threatens(c) /\ call[c].target = t
  PROVE  AdminRemains'
<1> SUFFICES ASSUME ~unseen', Admins' = {} PROVE FALSE
  BY DEF AdminRemains
<1>1. ~unseen /\ Admins # {}
  BY DEF Remember, AInv, AdminRemains
<1>2. Admins = {t}
  BY <1>1
<1>3. c \in stale
  BY <1>1, <1>2 DEF AInv, CallInv, LeavesOne
<1>4. QED
  BY <1>2, <1>3 DEF Remember

\* A request writes the table users, and the entries are stale only where it will
\* settle them, has taken a row back or goes back with an error.
LEMMA TableStep ==
  ASSUME AInv, Remember, NEW c \in Call, NEW q \in CallRecord \cup {NoCall},
         call' = [call EXCEPT ![c] = q], CallInv(c)',
         UNCHANGED <<cache, tokens, home, holds, calls>>,
         users' \in [Account -> Row \cup Absent], RowsStay, Distinct', AdminRemains',
         \A i \in holds : Lives(i)',
         \A d \in Call, no \in No : Taken(no)' /\ Cleans(d, no) => Taken(no) \/ reused',
         call[c].pc \notin {"cleanup", "invalidate", "fill", "login"},
         \A i \in Account : Differs(i, cache[i].row)' =>
           Differs(i, cache[i].row) \/ i \in undone' \/ Unanswered(i) \/ Settles(c, i)'
  PROVE  AInv'
<1>1. call' \in [Call -> CallRecord \cup {NoCall}] /\ \A d \in Call \ {c} : call'[d] = call[d]
  BY DEF AInv, ATypeOK
<1>2. lateFill' \cup undone' \cup unanswered' \subseteq Account /\ stale' \subseteq Call
  BY DEF AInv, ATypeOK, Remember
<1>3. unseen' \in BOOLEAN /\ reused' \in BOOLEAN
  BY DEF Remember
<1>4. ATypeOK'
  BY <1>1, <1>2, <1>3 DEF AInv, ATypeOK
<1>5. FilesOutliveOthers'
  <2>1. \A i \in holds : users'[i].no = users[i].no
    BY AccountsAssumption DEF AInv, ATypeOK, RowsStay, Lives, Absent
  <2>2. QED
    BY <2>1, FilesStay
<1>6. StaleEntryIsRaced'
  <2>0. \A i \in Account : ~Filling(i)
    BY <1>1 DEF Filling, Acting
  <2> SUFFICES ASSUME NEW i \in Account, Contradicted(i)', i \notin undone' \cup unanswered',
                      ~Settles(c, i)'
               PROVE  i \in lateFill' \/ \E d \in Call : Settles(d, i)'
    BY DEF StaleEntryIsRaced
  <2>a. i \notin unanswered /\ ~Unanswered(i)
    BY <2>0 DEF Remember, Contradicted
  <2>1. Contradicted(i)
    BY <2>a DEF Contradicted, Lookup
  <2>2. i \in lateFill \cup undone \cup unanswered \/ \E d \in Call : Settles(d, i)
    BY <2>1 DEF AInv, StaleEntryIsRaced
  <2>4. i \in lateFill => i \in lateFill'
    BY <2>0 DEF Remember, Contradicted
  <2>5. i \notin undone
    BY DEF Remember
  <2>6. \A d \in Call : Settles(d, i) => Settles(d, i)'
    BY <1>1 DEF Settles, Subject
  <2>7. QED
    BY <2>2, <2>a, <2>4, <2>5, <2>6
<1>7. \A d \in Call \ {c} : CallInv(d)'
  BY <1>1, WaitingCall
<1>8. QED
  BY <1>4, <1>5, <1>6, <1>7 DEF AInv

LEMMA PatchedType ==
  ASSUME NEW row \in Row, NEW patch \in Patch
  PROVE  /\ Patched(row, patch) \in Row /\ Patched(row, patch).no = row.no
         /\ row.role = "admin" /\ row.enabled /\ patch.role # "user" /\ patch.enabled # "off" =>
              Patched(row, patch).role = "admin" /\ Patched(row, patch).enabled
<1> DEFINE role == IF patch.role = "keep" THEN row.role ELSE patch.role
           enabled == IF patch.enabled = "keep" THEN row.enabled ELSE patch.enabled = "on"
<1>1. Patched(row, patch) = [row EXCEPT !.role = role, !.enabled = enabled]
  BY DEF Patched
<1>2. role \in {"admin", "user"}
  BY DEF Row, Patch
<1>3. enabled \in BOOLEAN
  BY DEF Row, Patch
<1>4. row.role = "admin" /\ patch.role # "user" => role = "admin"
  BY DEF Patch
<1>5. row.enabled /\ patch.enabled # "off" => enabled
  BY DEF Patch
<1> HIDE DEF role, enabled
<1>6. Patched(row, patch) \in Row /\ Patched(row, patch).no = row.no
  BY <1>1, <1>2, <1>3 DEF Row
<1>7. Patched(row, patch).role = role /\ Patched(row, patch).enabled = enabled
  BY <1>1 DEF Row
<1>8. QED
  BY <1>4, <1>5, <1>6, <1>7

\* One row is written, and keeps its number.
LEMMA RowWritten ==
  ASSUME AInv, NEW i \in Account, Lives(i), NEW row \in Row, row.no = users[i].no,
         users' = [users EXCEPT ![i] = row]
  PROVE  /\ users' \in [Account -> Row \cup Absent] /\ RowsStay /\ Distinct'
         /\ \A j \in Account : Lives(j)' <=> Lives(j)
         /\ \A j \in Account \ {i} : users'[j] = users[j]
         /\ users'[i] = row
         /\ \A no : Taken(no)' <=> Taken(no)
         /\ \A h \in holds : Lives(h)'
<1>1. users' \in [Account -> Row \cup Absent] /\ users'[i] = row
      /\ \A j \in Account \ {i} : users'[j] = users[j]
  BY DEF AInv, ATypeOK
<1>2. row \notin Absent
  BY AccountsAssumption
<1>3. \A j \in Account : Lives(j)' <=> Lives(j)
  BY <1>1, <1>2 DEF Lives
<1>4. \A j \in Account : users'[j].no = users[j].no
  BY <1>1
<1>5. RowsStay
  BY <1>1, <1>2, <1>3, <1>4 DEF RowsStay, Absent
<1>6. Distinct'
  BY <1>3, <1>4 DEF AInv, Distinct
<1>7. \A no : Taken(no)' <=> Taken(no)
  BY <1>3, <1>4 DEF Taken
<1>8. \A h \in holds : Lives(h)'
  BY <1>3 DEF AInv, ATypeOK
<1>9. QED
  BY <1>1, <1>3, <1>5, <1>6, <1>7, <1>8

\* The row of a request that is given no other step than to go on.
LEMMA NextValue ==
  ASSUME ATypeOK, NEW c \in Call, NEW step \in CallSteps \ {"idle"}, call[c] \in CallRecord,
         Proceed(c, step)
  PROVE  \E q \in CallRecord :
           /\ call' = [call EXCEPT ![c] = q] /\ call'[c] = q /\ q.pc = step
           /\ q.kind = call[c].kind /\ q.target = call[c].target /\ q.actor = call[c].actor
           /\ q.no = call[c].no /\ q.patch = call[c].patch /\ q.copy = call[c].copy
<1> DEFINE q == [call[c] EXCEPT !.pc = step]
<1>1. q \in CallRecord /\ call' = [call EXCEPT ![c] = q] /\ call'[c] = q
  BY DEF Proceed, CallRecord, ATypeOK
<1>2. /\ q.pc = step /\ q.kind = call[c].kind /\ q.target = call[c].target
      /\ q.actor = call[c].actor
      /\ q.no = call[c].no /\ q.patch = call[c].patch /\ q.copy = call[c].copy
  BY DEF CallRecord
<1> HIDE DEF q
<1>3. QED
  BY <1>1, <1>2

LEMMA WriteStep ==
  ASSUME AInv, Remember, NEW c \in Call, NEW answered \in BOOLEAN, Write(c, answered)
  PROVE  AInv'
<1>1. call[c] \in CallRecord /\ call[c].pc = "write" /\ Args(call[c])
  BY NoCallType DEF AInv, ATypeOK, Write, CallAt, CallInv
<1>2. call[c].kind \in {"update", "reset", "password"}
  BY <1>1, NoCallType DEF Args
<1>i. PICK i \in Account : i = Subject(call[c])
  BY <1>1, <1>2, NoCallType DEF Args, CallRecord, Subject
<1>3. UNCHANGED <<cache, tokens, home, holds, calls>>
  BY DEF Write
<1>p. Proceed(c, "invalidate") \/ Proceed(c, "failed")
  BY DEF Write, AfterWrite
<1>s. PICK step \in {"invalidate", "failed"} : Proceed(c, step)
  BY <1>p
<1>q. PICK q \in CallRecord :
        /\ call' = [call EXCEPT ![c] = q] /\ call'[c] = q /\ q.pc = step
        /\ q.kind = call[c].kind /\ q.target = call[c].target /\ q.actor = call[c].actor
        /\ q.no = call[c].no /\ q.patch = call[c].patch /\ q.copy = call[c].copy
  BY <1>1, <1>s, NextValue DEF AInv, CallSteps
<1>c. CallInv(c)'
  <2>1. Args(q)
    BY <1>1, <1>2, <1>q, NoCallType DEF Args
  <2>2. QED
    BY <1>q, <2>1, HarmlessCall
<1>4. CASE users' = users
  <2>1. calls' \in 0 .. MaxCalls
    BY <1>3 DEF AInv, ATypeOK
  <2>2. QED
    BY <1>1, <1>3, <1>4, <1>q, <1>c, <2>1, CallOnly
<1>5. ASSUME NEW row \in Row, Lives(i), row.no = users[i].no, users' = [users EXCEPT ![i] = row],
             i \in Admins /\ ~(row.role = "admin" /\ row.enabled) =>
               Threatens(c) /\ call[c].target = i
      PROVE  AInv'
  <2>4. /\ users' \in [Account -> Row \cup Absent] /\ RowsStay /\ Distinct'
        /\ \A j \in Account : Lives(j)' <=> Lives(j)
        /\ \A j \in Account \ {i} : users'[j] = users[j]
        /\ users'[i] = row
        /\ \A no : Taken(no)' <=> Taken(no)
        /\ \A h \in holds : Lives(h)'
    BY <1>2, <1>5, RowWritten
  <2>5. AdminRemains'
    <3>1. Acting(c)
      BY <1>1, <1>q DEF Acting
    <3>2. Admins \ {i} \subseteq Admins'
      BY <2>4 DEF Admins
    <3>3. i \in Admins /\ i \notin Admins' => Threatens(c) /\ call[c].target = i
      BY <1>2, <1>5, <2>4 DEF Admins
    <3>4. QED
      BY <3>1, <3>2, <3>3, AdminsLeft
  <2>6. Settles(c, i)' \/ Unanswered(i)
    <3>1. Subject(q) = Subject(call[c])
      BY <1>q DEF Subject
    <3>2. QED
      BY <1>1, <1>i, <1>q, <3>1 DEF Settles, Unanswered, Acting
  <2>7. \A j \in Account : Differs(j, cache[j].row)' =>
          Differs(j, cache[j].row) \/ Unanswered(j) \/ Settles(c, j)'
    BY <1>3, <2>4, <2>6 DEF Differs
  <2>8. \A j \in Account : Differs(j, cache[j].row)' =>
          Differs(j, cache[j].row) \/ j \in undone' \/ Unanswered(j) \/ Settles(c, j)'
    BY <2>7
  <2>9. \A d \in Call, no \in No : Taken(no)' /\ Cleans(d, no) => Taken(no) \/ reused'
    BY <2>4
  <2>10. call[c].pc \notin {"cleanup", "invalidate", "fill", "login"} /\ q \in CallRecord \cup {NoCall}
    BY <1>1
  <2>11. QED
    BY <1>3, <1>q, <1>c, <2>4, <2>5, <2>8, <2>9, <2>10, TableStep
<1>6. CASE Lives(i) /\ call[c].kind = "update"
           /\ users' = [users EXCEPT ![i] = Patched(@, call[c].patch)]
  <2> DEFINE row == Patched(users[i], call[c].patch)
  <2>1. users[i] \in Row /\ call[c].patch \in Patch
    BY <1>1, <1>2, <1>6, RowType DEF AInv, CallRecord
  <2>2. /\ row \in Row /\ row.no = users[i].no
        /\ users[i].role = "admin" /\ users[i].enabled
             /\ call[c].patch.role # "user" /\ call[c].patch.enabled # "off" =>
             row.role = "admin" /\ row.enabled
    BY <2>1, PatchedType
  <2>3. users' = [users EXCEPT ![i] = row]
    BY <1>6
  <2> HIDE DEF row
  <2>4. i \in Admins /\ ~(row.role = "admin" /\ row.enabled) => Threatens(c) /\ call[c].target = i
    BY <1>1, <1>i, <1>6, <2>2 DEF Admins, Threatens, Subject
  <2>5. QED
    BY <1>5, <1>6, <2>2, <2>3, <2>4
<1>7. CASE Lives(i) /\ users[i].hash < MaxHash
           /\ users' = [users EXCEPT ![i].hash = @ + 1]
  <2> DEFINE row == [users[i] EXCEPT !.hash = @ + 1]
  <2>1. users[i] \in Row
    BY <1>2, <1>7, RowType DEF AInv
  <2>2. users[i].hash + 1 \in 1 .. MaxHash
    BY <1>7, <2>1, AccountsAssumption DEF Row
  <2>3. row \in Row /\ row.no = users[i].no /\ row.role = users[i].role
    BY <2>1, <2>2 DEF Row
  <2>4. row.enabled = users[i].enabled
    BY <2>1 DEF Row
  <2>5. users' = [users EXCEPT ![i] = row]
    BY <1>7
  <2> HIDE DEF row
  <2>6. i \in Admins => row.role = "admin" /\ row.enabled
    BY <2>3, <2>4 DEF Admins
  <2>7. QED
    BY <1>5, <1>7, <2>3, <2>5, <2>6
<1>8. QED
  BY <1>i, <1>4, <1>6, <1>7 DEF Write

LEMMA InvalidateAfterStep ==
  ASSUME AInv, Remember, NEW c \in Call, InvalidateAfter(c)
  PROVE  AInv'
<1>a. PICK a : a = Subject(call[c])
  OBVIOUS
<1>1. /\ UNCHANGED <<users, tokens, home, holds, calls>> /\ cache' = [cache EXCEPT ![a] = Empty]
      /\ call' = [call EXCEPT ![c] = NoCall]
  BY <1>a DEF InvalidateAfter, Invalidate, Proceed
<1>2. call' \in [Call -> CallRecord \cup {NoCall}] /\ call'[c] = NoCall
      /\ \A d \in Call \ {c} : call'[d] = call[d]
  BY <1>1, NoCallType DEF AInv, ATypeOK
<1>3. /\ cache' \in [Account -> Entry]
      /\ \A i \in Account : cache'[i] = IF i = a THEN Empty ELSE cache[i]
  BY <1>1, EmptyType DEF AInv, ATypeOK
<1>4. lateFill' \cup undone' \cup unanswered' \subseteq Account /\ stale' \subseteq Call
  BY DEF AInv, ATypeOK, Remember
<1>5. unseen' \in BOOLEAN /\ reused' \in BOOLEAN
  BY DEF Remember
<1>6. ATypeOK'
  BY <1>1, <1>2, <1>3, <1>4, <1>5 DEF AInv, ATypeOK, Lives
<1>7. FilesOutliveOthers'
  BY <1>1, FilesStay
<1>8. StaleEntryIsRaced'
  <2> SUFFICES ASSUME NEW i \in Account, Contradicted(i)'
               PROVE  i \in lateFill' \cup undone' \cup unanswered' \/ \E d \in Call : Settles(d, i)'
    BY DEF StaleEntryIsRaced
  <2>1. Lookup(i)' /\ Differs(i, cache'[i].row) /\ i # a /\ cache'[i] = cache[i]
    BY <1>1, <1>3, EmptyType DEF Contradicted, Differs, Lives, Lookup
  <2>2. i \in lateFill \cup undone \cup unanswered \/ \E d \in Call : Settles(d, i)
    BY <2>1 DEF AInv, StaleEntryIsRaced, Contradicted, Lookup
  <2>3. i \in lateFill \cup undone \cup unanswered => i \in lateFill' \cup undone' \cup unanswered'
    BY <2>1 DEF Remember
  <2>4. \A d \in Call : Settles(d, i) => Settles(d, i)'
    BY <1>a, <1>2, <2>1 DEF Settles, Subject
  <2>5. QED
    BY <2>2, <2>3, <2>4
<1>9. CallInv(c)' /\ users' = users
  BY <1>1, <1>2, NoCallInv
<1>10. QED
  BY <1>2, <1>6, <1>7, <1>8, <1>9, QuietCall

LEMMA FailedStep ==
  ASSUME AInv, Remember, NEW c \in Call, Failed(c)
  PROVE  AInv'
<1>1. /\ UNCHANGED <<users, cache, tokens, home, holds>> /\ calls' \in 0 .. MaxCalls
      /\ call[c].pc = "failed"
  BY DEF Failed, CallAt, AInv, ATypeOK
<1>2. call' = [call EXCEPT ![c] = NoCall] /\ call'[c] = NoCall
  BY DEF Failed, Proceed, AInv, ATypeOK
<1>3. QED
  BY <1>1, <1>2, NoCallInv, NoCallType, CallOnly

\* A request that goes on without a write still has the administrators it counted.
LEMMA ThreatStays ==
  ASSUME AInv, Remember, NEW c \in Call, users' = users, Threatens(c),
         call'[c].target = call[c].target, call'[c].pc # "idle"
  PROVE  LeavesOne(c)'
<1> SUFFICES ASSUME c \notin stale' PROVE unseen' \/ Admins' # {call[c].target}
  BY DEF LeavesOne
<1>1. c \notin stale
  BY DEF Remember, Idle
<1>2. unseen \/ Admins # {call[c].target}
  BY <1>1 DEF AInv, CallInv, LeavesOne
<1>3. Admins' = Admins
  BY DEF Admins, Lives
<1>4. QED
  BY <1>2, <1>3 DEF Remember

LEMMA InsertStep ==
  ASSUME AInv, Remember, NEW c \in Call, NEW i \in Account, Insert(c, i)
  PROVE  AInv'
<1>1. call[c] \in CallRecord /\ call[c].pc = "insert" /\ Args(call[c])
  BY NoCallType DEF AInv, ATypeOK, Insert, CallAt, CallInv
<1>2. call[c].kind = "create" /\ call[c].no \in No /\ call[c].patch.role \in {"admin", "user"}
  BY <1>1, NoCallType DEF Args
<1>3. UNCHANGED <<cache, tokens, home, holds, calls>> /\ users[i] = Unused /\ ~Lives(i)
  BY DEF Insert, Lives, Absent
<1>4. CASE UNCHANGED users /\ Proceed(c, "idle")
  <2>1. call' = [call EXCEPT ![c] = NoCall] /\ call'[c] = NoCall
    BY <1>4 DEF Proceed, AInv, ATypeOK
  <2>2. calls' \in 0 .. MaxCalls
    BY <1>3 DEF AInv, ATypeOK
  <2>3. QED
    BY <1>1, <1>3, <1>4, <2>1, <2>2, NoCallInv, NoCallType, CallOnly
<1>5. CASE ~Taken(call[c].no)
  <2> DEFINE row == [no |-> call[c].no, role |-> call[c].patch.role,
                     enabled |-> TRUE, hash |-> 1, dir |-> FALSE]
             q == [call[c] EXCEPT !.pc = "makeDir", !.target = i]
  <2>1. users' = [users EXCEPT ![i] = row] /\ call' = [call EXCEPT ![c] = q]
    BY <1>5 DEF Insert
  <2>a. 1 \in 1 .. MaxHash
    BY AccountsAssumption
  <2>b. row \in Row /\ row.no = call[c].no
    BY <1>2, <2>a DEF Row
  <2>2. row \in Row /\ row.no = call[c].no /\ row \notin Absent
    BY <2>b, AccountsAssumption
  <2>3. /\ q \in CallRecord /\ q.pc = "makeDir" /\ q.target = i /\ q.kind = "create"
        /\ q.no = call[c].no /\ q.patch = call[c].patch
    BY <1>1, <1>2 DEF CallRecord, CallSteps
  <2> HIDE DEF row, q
  <2>4. call'[c] = q /\ Acting(c) /\ ~Idle(c)'
    BY <1>1, <2>1, <2>3 DEF AInv, ATypeOK, Acting, Idle
  <2>5. /\ users' \in [Account -> Row \cup Absent] /\ users'[i] = row
        /\ \A j \in Account \ {i} : users'[j] = users[j]
    BY <2>1, <2>2 DEF AInv, ATypeOK
  <2>6. Lives(i)' /\ \A j \in Account \ {i} : Lives(j)' <=> Lives(j)
    BY <2>2, <2>5 DEF Lives
  <2>7. RowsStay
    BY <1>3, <2>5, <2>6 DEF RowsStay
  <2>8. Distinct'
    <3> SUFFICES ASSUME NEW j \in Account, NEW k \in Account, j # k, Lives(j)', Lives(k)',
                        users'[j].no = users'[k].no
                 PROVE  FALSE
      BY DEF Distinct
    <3>1. CASE j # i /\ k # i
      BY <3>1, <2>5, <2>6 DEF AInv, Distinct
    <3>2. CASE j = i \/ k = i
      BY <3>2, <1>5, <2>2, <2>5, <2>6 DEF Taken
    <3>3. QED
      BY <3>1, <3>2
  <2>9. Admins \subseteq Admins' /\ i \notin Admins
    BY <1>3, <2>5, <2>6 DEF Admins
  <2>10. AdminRemains'
    BY <2>4, <2>9, AdminsLeft
  <2>11. \A h \in holds : Lives(h)'
    BY <1>3, <2>6 DEF AInv, ATypeOK
  <2>12. ASSUME NEW d \in Call, NEW no \in No, Taken(no)', Cleans(d, no)
         PROVE  Taken(no) \/ reused'
    <3>1. CASE no = call[c].no
      BY <1>1, <2>4, <2>12, <3>1 DEF Remember, CallAt
    <3>2. CASE no # call[c].no
      BY <2>2, <2>5, <2>6, <2>12, <3>2 DEF Taken
    <3>3. QED
      BY <3>1, <3>2
  <2>13. ASSUME NEW j \in Account, Differs(j, cache[j].row)'
         PROVE  Differs(j, cache[j].row)
    BY <1>3, <2>5, <2>6, <2>13 DEF Differs
  <2>14. CallInv(c)'
    <3>1. Args(q)
      BY <1>2, <2>3 DEF Args
    <3>2. RowIsRead(c)' /\ CleansAlone(c)'
      BY <2>3, <2>4 DEF RowIsRead, CleansAlone, Cleans, CallAt
    <3>3. unseen' \/ Admins' # {i}
      BY <2>9 DEF AInv, AdminRemains, Remember
    <3>4. QED
      BY <2>3, <2>4, <3>1, <3>2, <3>3 DEF CallInv, LeavesOne
  <2>15. q \in CallRecord \cup {NoCall} /\ call[c].pc \notin {"cleanup", "invalidate", "fill", "login"}
    BY <1>1, <2>3
  <2>16. \A d \in Call, no \in No : Taken(no)' /\ Cleans(d, no) => Taken(no) \/ reused'
    BY <2>12
  <2>17. \A j \in Account : Differs(j, cache[j].row)' =>
           Differs(j, cache[j].row) \/ j \in undone' \/ Unanswered(j) \/ Settles(c, j)'
    BY <2>13
  <2>18. QED
    BY <1>3, <2>1, <2>5, <2>7, <2>8, <2>10, <2>11, <2>14, <2>15, <2>16, <2>17, TableStep
<1>6. QED
  BY <1>4, <1>5 DEF Insert

\* What a step of a request leaves well-typed of what is remembered.
LEMMA RememberType ==
  ASSUME ATypeOK, Remember
  PROVE  /\ lateFill' \subseteq Account /\ undone' \subseteq Account /\ unanswered' \subseteq Account
         /\ stale' \subseteq Call /\ unseen' \in BOOLEAN /\ reused' \in BOOLEAN
<1>1. lateFill' \cup undone' \cup unanswered' \subseteq Account /\ stale' \subseteq Call
  BY DEF ATypeOK, Remember
<1>2. unseen' \in BOOLEAN /\ reused' \in BOOLEAN
  BY DEF Remember
<1>3. QED
  BY <1>1, <1>2

LEMMA MakeDirStep ==
  ASSUME AInv, Remember, NEW c \in Call, NEW works \in BOOLEAN, MakeDir(c, works)
  PROVE  AInv'
<1>1. call[c] \in CallRecord /\ call[c].pc = "makeDir" /\ Args(call[c])
  BY NoCallType DEF AInv, ATypeOK, MakeDir, CallAt, CallInv
<1>2. call[c].kind = "create" /\ call[c].no \in No /\ call[c].target \in Account
      /\ call[c].patch.role \in {"admin", "user"}
  BY <1>1, NoCallType DEF Args
<1>3. PICK no \in No : no = call[c].no
  BY <1>2
<1>4. UNCHANGED <<users, cache, tokens, holds, calls>>
  BY DEF MakeDir
<1>5. PICK step \in {"setDir", "undoRow"} : Proceed(c, step)
  BY DEF MakeDir, Proceed
<1>6. PICK q \in CallRecord :
        /\ call' = [call EXCEPT ![c] = q] /\ call'[c] = q /\ q.pc = step
        /\ q.kind = call[c].kind /\ q.target = call[c].target /\ q.actor = call[c].actor
        /\ q.no = call[c].no /\ q.patch = call[c].patch /\ q.copy = call[c].copy
  BY <1>1, <1>5, NextValue DEF AInv, CallSteps
<1>7. call' \in [Call -> CallRecord \cup {NoCall}] /\ \A d \in Call \ {c} : call'[d] = call[d]
  BY <1>6 DEF AInv, ATypeOK
<1>8. home' \in [No -> (SUBSET Account) \cup {{"none"}}]
  BY <1>3 DEF MakeDir, AInv, ATypeOK
<1>9. ATypeOK'
  BY <1>4, <1>7, <1>8, RememberType DEF AInv, ATypeOK, Lives
<1>10. CallInv(c)'
  <2>1. Args(q)
    BY <1>1, <1>2, <1>6 DEF Args
  <2>2. RowIsRead(c)' /\ CleansAlone(c)'
    BY <1>6 DEF RowIsRead, CleansAlone, Cleans, CallAt
  <2>3. LeavesOne(c)'
    BY <1>1, <1>4, <1>6, ThreatStays DEF Threatens
  <2>4. QED
    BY <1>6, <2>1, <2>2, <2>3 DEF CallInv
<1>11. StaleEntryIsRaced'
  <2>1. \A d \in Call, i \in Account : Settles(d, i) => Settles(d, i)'
    BY <1>1, <1>7 DEF Settles, Subject
  <2>2. QED
    BY <1>4, <2>1, EntriesStay
<1>12. FilesOutliveOthers'
  <2> SUFFICES ASSUME NEW h \in holds, ~reused' PROVE h \in home'[users[h].no]
    BY <1>4 DEF FilesOutliveOthers
  <2>1. h \in home[users[h].no] /\ h \in Account /\ h # "none"
    BY AccountsAssumption DEF AInv, FilesOutliveOthers, Remember, ATypeOK
  <2>2. home[no] = NoDir => users[h].no # no
    BY <2>1 DEF NoDir
  <2>3. QED
    BY <1>3, <2>1, <2>2 DEF MakeDir, AInv, ATypeOK
<1>13. QED
  BY <1>4, <1>7, <1>9, <1>10, <1>11, <1>12, QuietCall

LEMMA SetDirStep ==
  ASSUME AInv, Remember, NEW c \in Call, NEW works \in BOOLEAN, SetDir(c, works)
  PROVE  AInv'
<1>1. call[c] \in CallRecord /\ call[c].pc = "setDir" /\ Args(call[c])
  BY NoCallType DEF AInv, ATypeOK, SetDir, CallAt, CallInv
<1>2. call[c].kind = "create" /\ call[c].no \in No /\ call[c].target \in Account
      /\ call[c].patch.role \in {"admin", "user"}
  BY <1>1, NoCallType DEF Args
<1>3. PICK i \in Account : i = call[c].target
  BY <1>2
<1>4. UNCHANGED <<cache, tokens, home, holds, calls>> /\ calls' \in 0 .. MaxCalls
  BY DEF SetDir, AInv, ATypeOK
<1>5. CASE works /\ Lives(i)
  <2> DEFINE row == [users[i] EXCEPT !.dir = TRUE]
  <2>1. users[i] \in Row
    BY <1>5, RowType DEF AInv
  <2>2. row \in Row /\ row.no = users[i].no /\ Sight(row) = Sight(users[i])
    BY <2>1 DEF Row, Sight
  <2>3. row.role = users[i].role /\ row.enabled = users[i].enabled
    BY <2>1 DEF Row
  <2>4. users' = [users EXCEPT ![i] = row]
    BY <1>3, <1>5 DEF SetDir
  <2> HIDE DEF row
  <2>5. call' = [call EXCEPT ![c] = NoCall] /\ call'[c] = NoCall
    BY <1>5 DEF SetDir, Proceed, AInv, ATypeOK
  <2>6. CallInv(c)' /\ NoCall \in CallRecord \cup {NoCall}
    BY <2>5, NoCallInv
  <2>7. /\ users' \in [Account -> Row \cup Absent] /\ RowsStay /\ Distinct'
        /\ \A j \in Account : Lives(j)' <=> Lives(j)
        /\ \A j \in Account \ {i} : users'[j] = users[j]
        /\ users'[i] = row
        /\ \A no : Taken(no)' <=> Taken(no)
        /\ \A h \in holds : Lives(h)'
    BY <1>5, <2>2, <2>4, RowWritten
  <2>8. AdminRemains'
    <3>1. Admins' = Admins
      BY <2>3, <2>7 DEF Admins
    <3>2. QED
      BY <3>1 DEF AInv, AdminRemains, Remember
  <2>9. \A j \in Account : Differs(j, cache[j].row)' =>
           Differs(j, cache[j].row) \/ j \in undone' \/ Unanswered(j) \/ Settles(c, j)'
    BY <1>4, <2>2, <2>7 DEF Differs
  <2>10. \A d \in Call, no \in No : Taken(no)' /\ Cleans(d, no) => Taken(no) \/ reused'
    BY <2>7
  <2>11. call[c].pc \notin {"cleanup", "invalidate", "fill", "login"}
    BY <1>1
  <2>12. QED
    BY <1>4, <2>5, <2>6, <2>7, <2>8, <2>9, <2>10, <2>11, TableStep
<1>6. CASE ~(works /\ Lives(i)) /\ works
  <2>1. call' = [call EXCEPT ![c] = NoCall] /\ call'[c] = NoCall /\ users' = users
    BY <1>3, <1>6 DEF SetDir, Proceed, AInv, ATypeOK
  <2>2. QED
    BY <1>1, <1>4, <2>1, NoCallInv, NoCallType, CallOnly
<1>7. CASE ~works
  <2>1. Proceed(c, "undoBoth") /\ users' = users
    BY <1>7 DEF SetDir
  <2>2. PICK q \in CallRecord :
        /\ call' = [call EXCEPT ![c] = q] /\ call'[c] = q /\ q.pc = "undoBoth"
        /\ q.kind = call[c].kind /\ q.target = call[c].target /\ q.actor = call[c].actor
        /\ q.no = call[c].no /\ q.patch = call[c].patch /\ q.copy = call[c].copy
    BY <1>1, <2>1, NextValue DEF AInv, CallSteps
  <2>3. Args(q)
    BY <1>1, <1>2, <2>2 DEF Args
  <2>4. RowIsRead(c)' /\ CleansAlone(c)'
    BY <2>2 DEF RowIsRead, CleansAlone, Cleans, CallAt
  <2>5. LeavesOne(c)'
    BY <1>1, <2>1, <2>2, ThreatStays DEF Threatens
  <2>6. CallInv(c)'
    BY <2>2, <2>3, <2>4, <2>5 DEF CallInv
  <2>7. QED
    BY <1>1, <1>4, <2>1, <2>2, <2>6, CallOnly
<1>8. QED
  BY <1>5, <1>6, <1>7

LEMMA UndoRowStep ==
  ASSUME AInv, Remember, NEW c \in Call, NEW works \in BOOLEAN, UndoRow(c, works)
  PROVE  AInv'
<1>1. call[c] \in CallRecord /\ call[c].pc \in {"undoRow", "undoBoth"} /\ Args(call[c])
  BY NoCallType DEF AInv, ATypeOK, UndoRow, CallInv
<1>2. call[c].kind = "create" /\ call[c].no \in No /\ call[c].target \in Account
      /\ call[c].patch.role \in {"admin", "user"}
  BY <1>1, NoCallType DEF Args
<1>3. PICK i \in Account : i = call[c].target
  BY <1>2
<1>4. UNCHANGED <<cache, tokens, home, holds, calls>> /\ calls' \in 0 .. MaxCalls
  BY DEF UndoRow, AInv, ATypeOK
<1>5. PICK q \in CallRecord \cup {NoCall} :
        /\ call' = [call EXCEPT ![c] = q] /\ call'[c] = q
        /\ call[c].pc = "undoRow" => q = NoCall
        /\ call[c].pc = "undoBoth" =>
             /\ q.pc = "undoDir" /\ q.kind = call[c].kind /\ q.target = call[c].target
             /\ q.no = call[c].no /\ q.patch = call[c].patch
  <2>1. CASE call[c].pc = "undoRow"
    BY <2>1, NoCallType DEF UndoRow, Proceed, CallAt, AInv, ATypeOK
  <2>2. CASE call[c].pc = "undoBoth"
    <3>1. Proceed(c, "undoDir")
      BY <2>2 DEF UndoRow, CallAt
    <3>2. QED
      BY <1>1, <2>2, <3>1, NextValue DEF AInv, CallSteps
  <2>3. QED
    BY <1>1, <2>1, <2>2
<1>6. Acting(c)
  BY <1>1, <1>5, NoCallType DEF Acting
<1>7. CallInv(c)'
  <2>1. CASE call[c].pc = "undoRow"
    BY <1>5, <2>1, NoCallInv
  <2>2. CASE call[c].pc = "undoBoth"
    <3>1. Args(q)
      BY <1>2, <1>5, <2>2 DEF Args
    <3>2. RowIsRead(c)' /\ LeavesOne(c)'
      BY <1>5, <2>2 DEF RowIsRead, LeavesOne, Threatens
    <3>3. Cleans(c, call[c].no)' => (Taken(call[c].no)' => reused')
      BY <1>5, <1>6, <2>2 DEF Remember, CallAt, Idle
    <3>4. ASSUME NEW no \in No, Cleans(c, no)', Taken(no)' PROVE reused'
      BY <1>5, <1>6, <2>2, <3>4 DEF Remember, CallAt, Idle, Cleans
    <3>5. CleansAlone(c)'
      BY <3>4 DEF CleansAlone
    <3>6. QED
      BY <1>5, <3>1, <3>2, <3>5 DEF CallInv
  <2>3. QED
    BY <1>1, <2>1, <2>2
<1>8. CASE ~works \/ i \in holds
  BY <1>1, <1>3, <1>4, <1>5, <1>7, <1>8, CallOnly DEF UndoRow
<1>9. CASE works /\ i \notin holds
  <2>1. /\ users' \in [Account -> Row \cup Absent] /\ users'[i] = Gone
        /\ \A j \in Account \ {i} : users'[j] = users[j]
    BY <1>3, <1>9 DEF UndoRow, AInv, ATypeOK, Absent
  <2>2. ~Lives(i)' /\ \A j \in Account \ {i} : Lives(j)' <=> Lives(j)
    BY <2>1 DEF Lives, Absent
  <2>3. RowsStay
    BY <2>1, <2>2, AccountsAssumption DEF RowsStay
  <2>4. Distinct'
    BY <2>1, <2>2 DEF AInv, Distinct
  <2>5. AdminRemains'
    <3>1. Admins \ {i} \subseteq Admins'
      BY <2>1, <2>2 DEF Admins
    <3>2. Threatens(c)
      BY <1>1 DEF Threatens
    <3>3. QED
      BY <1>3, <1>6, <3>1, <3>2, AdminsLeft
  <2>6. \A h \in holds : Lives(h)'
    BY <1>9, <2>2 DEF AInv, ATypeOK
  <2>7. \A d \in Call, no \in No : Taken(no)' /\ Cleans(d, no) => Taken(no) \/ reused'
    BY <2>1, <2>2 DEF Taken
  <2>8. i \in undone'
    BY <1>1, <1>3, <1>6, <2>2 DEF Remember
  <2>9. \A j \in Account : Differs(j, cache[j].row)' =>
           Differs(j, cache[j].row) \/ j \in undone' \/ Unanswered(j) \/ Settles(c, j)'
    BY <1>4, <2>1, <2>2, <2>8 DEF Differs
  <2>10. call[c].pc \notin {"cleanup", "invalidate", "fill", "login"}
    BY <1>1
  <2>11. QED
    BY <1>4, <1>5, <1>7, <2>1, <2>3, <2>4, <2>5, <2>6, <2>7, <2>9, <2>10, TableStep
<1>10. QED
  BY <1>8, <1>9

LEMMA PurgeOwnerStep ==
  ASSUME AInv, Remember, NEW c \in Call, PurgeOwner(c)
  PROVE  AInv'
<1>1. call[c] \in CallRecord /\ call[c].pc = "purge" /\ Args(call[c])
  BY NoCallType DEF AInv, ATypeOK, PurgeOwner, CallAt, CallInv
<1>2. call[c].kind = "delete" /\ call[c].target \in Account /\ call[c].copy \in Row
  BY <1>1, NoCallType DEF Args
<1>3. PICK i \in Account : i = call[c].target
  BY <1>2
<1>4. UNCHANGED <<users, cache, tokens, calls>>
  BY DEF PurgeOwner
<1>5. Proceed(c, "deleteRow")
  BY DEF PurgeOwner
<1>6. PICK q \in CallRecord :
        /\ call' = [call EXCEPT ![c] = q] /\ call'[c] = q /\ q.pc = "deleteRow"
        /\ q.kind = call[c].kind /\ q.target = call[c].target /\ q.actor = call[c].actor
        /\ q.no = call[c].no /\ q.patch = call[c].patch /\ q.copy = call[c].copy
  BY <1>1, <1>5, NextValue DEF AInv, CallSteps
<1>7. call' \in [Call -> CallRecord \cup {NoCall}] /\ \A d \in Call \ {c} : call'[d] = call[d]
  BY <1>6 DEF AInv, ATypeOK
<1>8. /\ holds' = holds \ {i}
      /\ home' = [no \in No |-> IF home[no] = NoDir THEN NoDir ELSE home[no] \ {i}]
  BY <1>3 DEF PurgeOwner
<1>9. home' \in [No -> (SUBSET Account) \cup {{"none"}}]
  <2>1. \A no \in No : home[no] \in (SUBSET Account) \cup {{"none"}}
    BY DEF AInv, ATypeOK
  <2>2. \A no \in No : (IF home[no] = NoDir THEN NoDir ELSE home[no] \ {i})
                         \in (SUBSET Account) \cup {{"none"}}
    BY <2>1 DEF NoDir
  <2>3. QED
    BY <1>8, <2>2
<1>10. ATypeOK'
  BY <1>4, <1>7, <1>8, <1>9, RememberType DEF AInv, ATypeOK, Lives
<1>11. CallInv(c)'
  <2>1. Args(q)
    BY <1>2, <1>6 DEF Args
  <2>2. RowIsRead(c)'
    BY <1>1, <1>4, <1>6 DEF AInv, CallInv, RowIsRead, Lives
  <2>3. CleansAlone(c)'
    BY <1>6 DEF CleansAlone, Cleans, CallAt
  <2>4. LeavesOne(c)'
    BY <1>1, <1>4, <1>6, ThreatStays DEF Threatens
  <2>5. QED
    BY <1>6, <2>1, <2>2, <2>3, <2>4 DEF CallInv
<1>12. StaleEntryIsRaced'
  <2>1. \A d \in Call, j \in Account : Settles(d, j) => Settles(d, j)'
    BY <1>1, <1>7 DEF Settles, Subject
  <2>2. QED
    BY <1>4, <2>1, EntriesStay
<1>13. FilesOutliveOthers'
  <2> SUFFICES ASSUME NEW h \in holds, h # i, ~reused' PROVE h \in home'[users[h].no]
    BY <1>4, <1>8 DEF FilesOutliveOthers
  <2>1. h \in home[users[h].no] /\ h \in Account /\ Lives(h)
    BY DEF AInv, FilesOutliveOthers, Remember, ATypeOK
  <2>2. users[h].no \in No
    BY <2>1, RowType DEF AInv, Row
  <2>3. home[users[h].no] # NoDir
    BY <2>1, AccountsAssumption DEF NoDir
  <2>4. QED
    BY <1>8, <2>1, <2>2, <2>3
<1>14. QED
  BY <1>4, <1>7, <1>10, <1>11, <1>12, <1>13, QuietCall

LEMMA DeleteRowStep ==
  ASSUME AInv, Remember, NEW c \in Call, NEW answered \in BOOLEAN, DeleteRow(c, answered)
  PROVE  AInv'
<1>1. call[c] \in CallRecord /\ call[c].pc = "deleteRow" /\ Args(call[c])
  BY NoCallType DEF AInv, ATypeOK, DeleteRow, CallAt, CallInv
<1>2. call[c].kind = "delete" /\ call[c].target \in Account /\ call[c].copy \in Row
  BY <1>1, NoCallType DEF Args
<1>3. PICK i \in Account : i = call[c].target
  BY <1>2
<1>4. UNCHANGED <<cache, tokens, home, holds, calls>> /\ calls' \in 0 .. MaxCalls
  BY DEF DeleteRow, AInv, ATypeOK
<1>5. CASE users' = users /\ Proceed(c, "idle")
  <2>1. call' = [call EXCEPT ![c] = NoCall] /\ call'[c] = NoCall /\ users' = users
    BY <1>5 DEF Proceed, AInv, ATypeOK
  <2>2. QED
    BY <1>1, <1>4, <2>1, NoCallInv, NoCallType, CallOnly
<1>6. ASSUME Lives(i), i \notin holds, users' = [users EXCEPT ![i] = Gone],
             NEW step \in {"cleanup", "failed"}, Proceed(c, step)
      PROVE  AInv'
  <2>1. step \in CallSteps \ {"idle"}
    BY DEF CallSteps
  <2>2. PICK q \in CallRecord :
        /\ call' = [call EXCEPT ![c] = q] /\ call'[c] = q /\ q.pc = step
        /\ q.kind = call[c].kind /\ q.target = call[c].target /\ q.actor = call[c].actor
        /\ q.no = call[c].no /\ q.patch = call[c].patch /\ q.copy = call[c].copy
    BY <1>1, <1>6, <2>1, NextValue DEF AInv
  <2>3. /\ users' \in [Account -> Row \cup Absent] /\ users'[i] = Gone
        /\ \A j \in Account \ {i} : users'[j] = users[j]
    BY <1>6 DEF AInv, ATypeOK, Absent
  <2>4. ~Lives(i)' /\ \A j \in Account \ {i} : Lives(j)' <=> Lives(j)
    BY <2>3 DEF Lives, Absent
  <2>5. RowsStay
    BY <2>3, <2>4, AccountsAssumption DEF RowsStay
  <2>6. Distinct'
    BY <2>3, <2>4 DEF AInv, Distinct
  <2>7. AdminRemains'
    <3>1. Admins \ {i} \subseteq Admins'
      BY <2>3, <2>4 DEF Admins
    <3>2. Threatens(c)
      BY <1>1 DEF Threatens
    <3>3. Acting(c)
      BY <1>1, <2>2 DEF Acting
    <3>4. QED
      BY <1>3, <3>1, <3>2, <3>3, AdminsLeft
  <2>8. \A h \in holds : Lives(h)'
    BY <1>6, <2>4 DEF AInv, ATypeOK
  <2>9. \A d \in Call, no \in No : Taken(no)' /\ Cleans(d, no) => Taken(no) \/ reused'
    BY <2>3, <2>4 DEF Taken
  <2>10. Settles(c, i)' \/ Unanswered(i)
    BY <1>1, <1>2, <1>3, <2>2 DEF Settles, Unanswered, Acting, Subject
  <2>11. \A j \in Account : Differs(j, cache[j].row)' =>
           Differs(j, cache[j].row) \/ j \in undone' \/ Unanswered(j) \/ Settles(c, j)'
    BY <1>4, <2>3, <2>4, <2>10 DEF Differs
  <2>12. CallInv(c)'
    <3>1. Args(q)
      BY <1>2, <2>2 DEF Args
    <3>2. RowIsRead(c)' /\ LeavesOne(c)'
      BY <2>2 DEF RowIsRead, LeavesOne, Threatens
    <3>3. users[i].no = call[c].copy.no
      BY <1>1, <1>3, <1>6 DEF AInv, CallInv, RowIsRead
    <3>4. \A no : no = call[c].copy.no => ~Taken(no)'
      BY <1>6, <2>3, <2>4, <3>3 DEF Taken, AInv, Distinct
    <3>5. CleansAlone(c)'
      <4> SUFFICES ASSUME NEW no \in No, Cleans(c, no)', Taken(no)' PROVE FALSE
        BY DEF CleansAlone
      <4>1. no = call[c].copy.no
        BY <1>6, <2>2 DEF Cleans, CallAt
      <4>2. QED
        BY <3>4, <4>1
    <3>6. QED
      BY <2>2, <3>1, <3>2, <3>5 DEF CallInv
  <2>13. call[c].pc \notin {"cleanup", "invalidate", "fill", "login"}
    BY <1>1
  <2>14. QED
    BY <1>4, <2>2, <2>3, <2>5, <2>6, <2>7, <2>8, <2>9, <2>11, <2>12, <2>13, TableStep
<1>7. QED
  BY <1>3, <1>5, <1>6 DEF DeleteRow, AfterDelete

LEMMA CleanupStep ==
  ASSUME AInv, Remember, NEW c \in Call, CleanupUserDir(c)
  PROVE  AInv'
<1>1. call[c] \in CallRecord /\ call[c].pc \in {"cleanup", "undoDir"} /\ Args(call[c])
  BY NoCallType DEF AInv, ATypeOK, CleanupUserDir, CallInv
<1>2. /\ call[c].pc = "cleanup" => call[c].kind = "delete" /\ call[c].target \in Account
                                   /\ call[c].copy \in Row
      /\ call[c].pc = "undoDir" => call[c].kind = "create" /\ call[c].no \in No
  BY <1>1, NoCallType DEF Args
<1>3. PICK no \in No : no = IF call[c].pc = "undoDir" THEN call[c].no ELSE call[c].copy.no
  BY <1>1, <1>2 DEF Row
<1>4. UNCHANGED <<users, cache, tokens, holds, calls>>
  BY DEF CleanupUserDir
<1>5. home' = home \/ home' = [home EXCEPT ![no] = NoDir]
  BY <1>3 DEF CleanupUserDir
<1>6. PICK q \in CallRecord \cup {NoCall} :
        /\ call' = [call EXCEPT ![c] = q] /\ call'[c] = q
        /\ call[c].pc = "undoDir" => q = NoCall
        /\ call[c].pc = "cleanup" =>
             q.pc = "invalidate" /\ q.kind = call[c].kind /\ q.target = call[c].target
  <2>1. CASE call[c].pc = "undoDir"
    BY <2>1, NoCallType DEF CleanupUserDir, Proceed, AInv, ATypeOK
  <2>2. CASE call[c].pc = "cleanup"
    <3>1. Proceed(c, "invalidate")
      BY <2>2 DEF CleanupUserDir
    <3>2. QED
      BY <1>1, <2>2, <3>1, NextValue DEF AInv, CallSteps
  <2>3. QED
    BY <1>1, <2>1, <2>2
<1>7. call' \in [Call -> CallRecord \cup {NoCall}] /\ \A d \in Call \ {c} : call'[d] = call[d]
  BY <1>6 DEF AInv, ATypeOK
<1>8. home' \in [No -> (SUBSET Account) \cup {{"none"}}]
  BY <1>5 DEF AInv, ATypeOK, NoDir
<1>9. ATypeOK'
  BY <1>4, <1>7, <1>8, RememberType DEF AInv, ATypeOK, Lives
<1>10. CallInv(c)'
  <2>1. CASE call[c].pc = "undoDir"
    BY <1>6, <2>1, NoCallInv
  <2>2. CASE call[c].pc = "cleanup"
    <3>1. Args(q) /\ q.pc = "invalidate"
      BY <1>2, <1>6, <2>2 DEF Args
    <3>2. QED
      BY <1>6, <3>1, HarmlessCall
  <2>3. QED
    BY <1>1, <2>1, <2>2
<1>11. StaleEntryIsRaced'
  <2>1. \A d \in Call, j \in Account : Settles(d, j) => Settles(d, j)'
    BY <1>1, <1>2, <1>6, <1>7 DEF Settles, Subject
  <2>2. QED
    BY <1>4, <2>1, EntriesStay
<1>12. FilesOutliveOthers'
  <2> SUFFICES ASSUME NEW h \in holds, ~reused' PROVE h \in home'[users[h].no]
    BY <1>4 DEF FilesOutliveOthers
  <2>1. ~reused /\ h \in home[users[h].no] /\ h \in Account /\ Lives(h)
    BY DEF AInv, FilesOutliveOthers, Remember, ATypeOK
  <2>2. Cleans(c, no)
    BY <1>1, <1>3 DEF Cleans, CallAt
  <2>3. users[h].no # no
    BY <2>1, <2>2 DEF AInv, CallInv, CleansAlone, Taken
  <2>4. users[h].no \in No
    BY <2>1, RowType DEF AInv, Row
  <2>5. QED
    BY <1>5, <2>1, <2>3, <2>4 DEF AInv, ATypeOK
<1>13. QED
  BY <1>4, <1>7, <1>9, <1>10, <1>11, <1>12, QuietCall

(***************************************************************************)
(* Around the requests.                                                    *)
(***************************************************************************)

\* No request moves, and no row.
LEMMA CallsWait ==
  ASSUME AInv, Remember, ATypeOK', users' = users, call' = call,
         StaleEntryIsRaced', FilesOutliveOthers'
  PROVE  AInv'
<1>1. Distinct' /\ AdminRemains'
  BY DEF AInv, Distinct, AdminRemains, Lives, Admins, Remember
<1>2. \A d \in Call : CallInv(d)'
  BY RowsStayUnchanged, WaitingCall DEF Taken, Lives
<1>3. QED
  BY <1>1, <1>2 DEF AInv

LEMMA StoreFileStep ==
  ASSUME AInv, Remember, NEW i \in Account, StoreFile(i)
  PROVE  AInv'
<1>1. /\ Lives(i) /\ UNCHANGED <<users, cache, tokens, call, calls>>
      /\ holds' = holds \cup {i}
      /\ home' = [home EXCEPT ![users[i].no] = (@ \ NoDir) \cup {i}]
  BY DEF StoreFile
<1>2. users[i].no \in No
  BY <1>1, RowType DEF AInv, Row
<1>3. PICK no \in No : no = users[i].no
  BY <1>2
<1>4. home[no] \in (SUBSET Account) \cup {{"none"}}
  BY DEF AInv, ATypeOK
<1>5. (home[no] \ NoDir) \cup {i} \in SUBSET Account
  BY <1>4 DEF NoDir
<1>6. /\ home' \in [No -> (SUBSET Account) \cup {{"none"}}]
      /\ home'[no] = (home[no] \ NoDir) \cup {i}
      /\ \A n \in No \ {no} : home'[n] = home[n]
  BY <1>1, <1>3, <1>5 DEF AInv, ATypeOK
<1>7. ATypeOK'
  BY <1>1, <1>6, RememberType DEF AInv, ATypeOK, Lives
<1>8. StaleEntryIsRaced'
  BY <1>1, EntriesStay DEF Settles, Subject
<1>9. FilesOutliveOthers'
  <2> SUFFICES ASSUME NEW h \in holds', ~reused' PROVE h \in home'[users[h].no]
    BY <1>1 DEF FilesOutliveOthers
  <2>1. CASE h = i
    BY <1>3, <1>6, <2>1
  <2>2. CASE h # i
    <3>1. h \in home[users[h].no] /\ h \in Account /\ Lives(h)
      BY <1>1, <2>2 DEF AInv, FilesOutliveOthers, Remember, ATypeOK
    <3>2. users[h].no \in No
      BY <3>1, RowType DEF AInv, Row
    <3>3. h # "none"
      BY <3>1, AccountsAssumption
    <3>4. QED
      BY <1>6, <3>1, <3>2, <3>3 DEF NoDir
  <2>3. QED
    BY <2>1, <2>2
<1>10. QED
  BY <1>1, <1>7, <1>8, <1>9, CallsWait

LEMMA TickStep ==
  ASSUME AInv, Remember, Tick
  PROVE  AInv'
<1>1. UNCHANGED <<users, tokens, home, holds, call, calls>>
  BY DEF Tick
<1>2. \A i \in Account : /\ cache'[i] \in Entry
                         /\ Lookup(i)' => Lookup(i) /\ cache'[i].row = cache[i].row
  <2> SUFFICES ASSUME NEW i \in Account
               PROVE  /\ cache'[i] \in Entry
                      /\ cache'[i].row # NoRow => cache[i].row # NoRow /\ cache'[i].row = cache[i].row
    BY DEF Lookup
  <2>1. cache'[i] = IF Lookup(i) /\ cache[i].age < TTL
                    THEN [cache[i] EXCEPT !.age = @ + 1] ELSE Empty
    BY DEF Tick
  <2>2. cache[i] \in Entry
    BY DEF AInv, ATypeOK
  <2>3. CASE Lookup(i) /\ cache[i].age < TTL
    <3>1. cache[i].age + 1 \in 0 .. TTL
      BY <2>2, <2>3, AccountsAssumption DEF Entry
    <3>2. QED
      BY <2>1, <2>2, <2>3, <3>1 DEF Entry, Lookup
  <2>4. CASE ~(Lookup(i) /\ cache[i].age < TTL)
    BY <2>1, <2>4, EmptyType
  <2>5. QED
    BY <2>3, <2>4
<1>3. cache' \in [Account -> Entry]
  BY <1>2 DEF Tick
<1>4. ATypeOK'
  BY <1>1, <1>3, RememberType DEF AInv, ATypeOK, Lives
<1>5. StaleEntryIsRaced'
  <2> SUFFICES ASSUME NEW i \in Account, Contradicted(i)'
               PROVE  i \in lateFill' \cup undone' \cup unanswered' \/ \E d \in Call : Settles(d, i)'
    BY DEF StaleEntryIsRaced
  <2>1. Lookup(i)' /\ Differs(i, cache'[i].row)
    BY <1>1 DEF Contradicted, Differs, Lives
  <2>2. Contradicted(i)
    BY <1>2, <2>1 DEF Contradicted
  <2>3. i \in lateFill \cup undone \cup unanswered \/ \E d \in Call : Settles(d, i)
    BY <2>2 DEF AInv, StaleEntryIsRaced
  <2>4. ~Filling(i)
    BY <1>1 DEF Filling, Acting
  <2>5. i \in lateFill \cup undone \cup unanswered => i \in lateFill' \cup undone' \cup unanswered'
    BY <2>1, <2>4 DEF Remember
  <2>6. \A d \in Call : Settles(d, i) => Settles(d, i)'
    BY <1>1 DEF Settles, Subject
  <2>7. QED
    BY <2>3, <2>5, <2>6
<1>6. FilesOutliveOthers'
  BY <1>1, FilesStay
<1>7. QED
  BY <1>1, <1>4, <1>5, <1>6, CallsWait

LEMMA CrashStep ==
  ASSUME AInv, Remember, Crash
  PROVE  AInv'
<1>1. UNCHANGED <<users, tokens, home, holds, calls>>
  BY DEF Crash
<1>2. call' \in [Call -> CallRecord \cup {NoCall}] /\ \A c \in Call : call'[c] = NoCall
  BY NoCallType DEF Crash
<1>3. cache' \in [Account -> Entry] /\ \A i \in Account : ~Lookup(i)'
  BY EmptyType DEF Crash, Lookup
<1>4. ATypeOK'
  BY <1>1, <1>2, <1>3, RememberType DEF AInv, ATypeOK, Lives
<1>5. StaleEntryIsRaced'
  BY <1>3 DEF StaleEntryIsRaced, Contradicted
<1>6. FilesOutliveOthers'
  BY <1>1, FilesStay
<1>7. \A c \in Call : CallInv(c)'
  BY <1>2, NoCallInv
<1>8. Distinct' /\ AdminRemains'
  BY <1>1 DEF AInv, Distinct, AdminRemains, Lives, Admins, Remember
<1>9. QED
  BY <1>4, <1>5, <1>6, <1>7, <1>8 DEF AInv

(***************************************************************************)
(* The theorems.                                                           *)
(***************************************************************************)
LEMMA RequestedStep ==
  ASSUME AInv, Remember, NEW c \in Call, Requested(c, Kinds \cup {"store"})
  PROVE  AInv'
<1>1. PICK token \in tokens, kind \in Kinds \cup {"store"} :
        /\ kind # "use" => calls < MaxCalls
        /\ \/ kind \in {"use", "password"}
              /\ Arrive(c, token[1], token[2], kind, NoAccount, NoPatch, "none")
           \/ kind \in {"reset", "delete"} /\ \E t \in Account :
                Arrive(c, token[1], token[2], kind, t, NoPatch, "none")
           \/ kind = "update" /\ \E t \in Account, patch \in Patches :
                Arrive(c, token[1], token[2], kind, t, patch, "none")
           \/ kind = "create" /\ \E no \in No, role \in {"admin", "user"} :
                Arrive(c, token[1], token[2], kind, NoAccount, [NoPatch EXCEPT !.role = role], no)
  BY DEF Requested
<1>2. NoPatch \in Patch /\ \A role \in {"admin", "user"} :
        [NoPatch EXCEPT !.role = role] \in Patch /\ [NoPatch EXCEPT !.role = role].role = role
  BY DEF NoPatch, Patch
<1>3. CASE kind \in {"use", "password"}
           /\ Arrive(c, token[1], token[2], kind, NoAccount, NoPatch, "none")
  <2>1. kind \in Kinds \ {"login"} /\ kind \notin {"update", "reset", "delete", "create"}
    BY <1>3 DEF Kinds
  <2>2. QED
    BY <1>1, <1>2, <1>3, <2>1, ArriveStep
<1>4. CASE kind \in {"reset", "delete"} /\ \E t \in Account :
             Arrive(c, token[1], token[2], kind, t, NoPatch, "none")
  <2>1. kind \in Kinds \ {"login"} /\ kind # "create"
    BY <1>4 DEF Kinds
  <2>2. PICK t \in Account : Arrive(c, token[1], token[2], kind, t, NoPatch, "none")
    BY <1>4
  <2>3. QED
    BY <1>1, <1>2, <2>1, <2>2, ArriveStep
<1>5. CASE kind = "update" /\ \E t \in Account, patch \in Patches :
             Arrive(c, token[1], token[2], kind, t, patch, "none")
  <2>1. kind \in Kinds \ {"login"} /\ kind # "create"
    BY <1>5 DEF Kinds
  <2>2. PICK t \in Account, patch \in Patches :
          Arrive(c, token[1], token[2], kind, t, patch, "none")
    BY <1>5
  <2>3. patch \in Patch
    BY AccountsAssumption
  <2>4. QED
    BY <1>1, <2>1, <2>2, <2>3, ArriveStep
<1>6. CASE kind = "create" /\ \E no \in No, role \in {"admin", "user"} :
             Arrive(c, token[1], token[2], kind, NoAccount, [NoPatch EXCEPT !.role = role], no)
  <2>1. kind \in Kinds \ {"login"} /\ kind \notin {"update", "reset", "delete"} /\ kind # "use"
    BY <1>6 DEF Kinds
  <2>2. PICK no \in No, role \in {"admin", "user"} :
          Arrive(c, token[1], token[2], kind, NoAccount, [NoPatch EXCEPT !.role = role], no)
    BY <1>6
  <2>3. PICK patch \in Patch : patch = [NoPatch EXCEPT !.role = role] /\ patch.role = role
    BY <1>2
  <2>4. Arrive(c, token[1], token[2], kind, NoAccount, patch, no)
    BY <2>2, <2>3
  <2>5. QED
    BY <1>1, <2>1, <2>3, <2>4, ArriveStep
<1>7. QED
  BY <1>1, <1>3, <1>4, <1>5, <1>6

LEMMA AInvStep == AInv /\ [ANext]_avars => AInv'
<1> SUFFICES ASSUME AInv, [ANext]_avars PROVE AInv'
  OBVIOUS
<1>1. CASE ANext
  <2>1. Remember
    BY <1>1 DEF ANext
  <2>2. ASSUME NEW c \in Call, Served(c) PROVE AInv'
    <3>1. CASE \E i \in Account : Insert(c, i)
      BY <2>1, <3>1, InsertStep
    <3>2. CASE \E works \in BOOLEAN : MakeDir(c, works) \/ SetDir(c, works) \/ UndoRow(c, works)
      BY <2>1, <3>2, MakeDirStep, SetDirStep, UndoRowStep
    <3>3. CASE Load(c) \/ Fill(c) \/ LoginIssue(c)
      BY <2>1, <3>3, LoadStep, FillStep, LoginIssueStep
    <3>4. CASE Check(c) \/ Failed(c) \/ InvalidateAfter(c)
      BY <2>1, <3>4, CheckStep, FailedStep, InvalidateAfterStep
    <3>5. CASE \E answered \in BOOLEAN : Write(c, answered) \/ DeleteRow(c, answered)
      BY <2>1, <3>5, WriteStep, DeleteRowStep
    <3>6. CASE PurgeOwner(c) \/ CleanupUserDir(c)
      BY <2>1, <3>6, PurgeOwnerStep, CleanupStep
    <3>7. QED
      BY <2>2, <3>1, <3>2, <3>3, <3>4, <3>5, <3>6 DEF Served
  <2>3. CASE Tick
    BY <2>1, <2>3, TickStep
  <2>4. CASE AStep(Kinds \cup {"store"})
    BY <2>1, <2>2, <2>4, RequestedStep, LoginReadStep, StoreFileStep, CrashStep DEF AStep
  <2>5. QED
    BY <1>1, <2>3, <2>4 DEF ANext
<1>2. CASE UNCHANGED avars
  <2>1. ATypeOK' /\ Distinct' /\ AdminRemains' /\ FilesOutliveOthers'
    BY <1>2 DEF avars, AInv, ATypeOK, Distinct, AdminRemains, FilesOutliveOthers, Lives, Admins
  <2>2. StaleEntryIsRaced'
    BY <1>2 DEF avars, AInv, StaleEntryIsRaced, Contradicted, Differs, Lives, Lookup, Settles, Subject
  <2>3. \A c \in Call : CallInv(c)'
    BY <1>2 DEF avars, AInv, CallInv, RowIsRead, CleansAlone, Cleans, CallAt, Taken, Lives,
                LeavesOne, Threatens, Admins
  <2>4. QED
    BY <2>1, <2>2, <2>3 DEF AInv
<1>3. QED
  BY <1>1, <1>2

LEMMA AInvHolds == ASpec => []AInv
  BY AInvInit, AInvStep, PTL DEF ASpec

\* The type invariant of accounts, cache, directories and requests (handler/auth.go).
THEOREM AccountsTypeCorrect == ASpec => []ATypeOK
  BY AInvHolds, PTL DEF AInv

\* The last enabled administrator is only lost to a request since whose start another
\* one has changed the administrators (ensureNotLastAdmin).
THEOREM LastAdminStays == ASpec => []AdminRemains
  BY AInvHolds, PTL DEF AInv

\* A cached row that the table contradicts is about to be invalidated, was stored
\* late, was written by a statement reported as failed, or is of an account taken
\* back (auth.Cache, Invalidate).
THEOREM StaleEntryRaced == ASpec => []StaleEntryIsRaced
  BY AInvHolds, PTL DEF AInv

\* Deleting accounts loses no other account's bytes, unless a number was used again
\* before its directory was cleaned up (DeleteUser, CleanupUserDir).
THEOREM FilesOutlive == ASpec => []FilesOutliveOthers
  BY AInvHolds, PTL DEF AInv
=============================================================================
