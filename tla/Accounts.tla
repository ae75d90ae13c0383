------------------------------ MODULE Accounts -------------------------------
(***************************************************************************)
(* Accounts: handler/auth.go over the table users, the cache of users in   *)
(* front of it (auth/auth.go) and the directories of the accounts.         *)
(*                                                                         *)
(* An access token names an account and the fingerprint of its password.   *)
(* Every request is checked against the cached row; a miss reads the row   *)
(* and then stores what it read.  The statements, cache operations and     *)
(* directory operations of a handler are steps of their own; the reads and *)
(* checks that come first are one step together.                           *)
(***************************************************************************)
EXTENDS Naturals, FiniteSets

CONSTANTS
  Account,    \* ids of the table users (auto-increment, never reused)
  No,         \* employee numbers: the names of the directories
  Call,       \* the requests served at a time
  Patches,    \* what UpdateUser is asked to change
  TTL,        \* ticks a cached row is good for
  MaxHash,    \* bound: passwords an account has had
  MaxCalls,   \* bound: administrators' requests of a behaviour
  NoAccount,
  Unused, Gone, NoRow   \* an id before and after its row; no row at all

Patch == [role : {"keep", "admin", "user"}, enabled : {"keep", "on", "off"}]

Row == [no : No, role : {"admin", "user"}, enabled : BOOLEAN, hash : 1 .. MaxHash, dir : BOOLEAN]
Absent == {Unused, Gone}

ASSUME AccountsAssumption ==
  /\ TTL \in Nat /\ MaxHash \in Nat \ {0} /\ MaxCalls \in Nat
  /\ IsFiniteSet(Account) /\ {NoAccount, "none"} \cap Account = {} /\ "none" \notin No
  /\ Unused # Gone /\ (Absent \cup {NoRow}) \cap Row = {}
  /\ Patches \subseteq Patch

VARIABLES
  users,    \* the table users
  cache,    \* the cached rows and their age
  tokens,   \* the tokens issued: account and password
  home,     \* the accounts whose bytes lie in users/<no>; "none" without directory
  holds,    \* the accounts with rows in the table files
  call,     \* the requests
  calls,    \* administrators' requests so far
  lateFill, \* entries stored after the row they were read from had changed
  undone,   \* accounts whose creation was taken back
  unanswered, \* entries whose row was written by a statement reported as failed
  stale,    \* requests since whose start another has changed the administrators
  unseen,   \* such a request has removed an administrator
  reused    \* the clean-up of a directory whose number has an account again

avars == <<users, cache, tokens, home, holds, call, calls, lateFill, undone, unanswered, stale, unseen, reused>>

Lives(i) == users[i] \notin Absent

Entry == [row : Row \cup {NoRow}, age : 0 .. TTL]
Empty == [row |-> NoRow, age |-> 0]

Kinds == {"use", "login", "password", "update", "reset", "create", "delete"}
CallSteps == {"idle", "load", "fill", "login", "check", "write", "invalidate", "insert",
              "makeDir", "setDir", "undoRow", "undoBoth", "undoDir", "purge", "deleteRow", "cleanup", "failed"}
CallRecord == [pc : CallSteps, kind : Kinds, actor : Account, hash : 1 .. MaxHash,
               target : Account \cup {NoAccount}, patch : Patch, no : No \cup {"none"},
               copy : Row \cup {NoRow}]
NoCall == [pc |-> "idle"]
NoPatch == [role |-> "keep", enabled |-> "keep"]
Idle(c) == call[c].pc = "idle"

ATypeOK ==
  /\ users \in [Account -> Row \cup Absent]
  /\ cache \in [Account -> Entry]
  /\ tokens \subseteq Account \X (1 .. MaxHash)
  /\ home \in [No -> (SUBSET Account) \cup {{"none"}}]
  /\ holds \subseteq {i \in Account : Lives(i)}
  /\ call \in [Call -> CallRecord \cup {NoCall}]
  /\ calls \in 0 .. MaxCalls
  /\ lateFill \subseteq Account /\ undone \subseteq Account /\ unanswered \subseteq Account
  /\ stale \subseteq Call /\ unseen \in BOOLEAN /\ reused \in BOOLEAN

NoDir == {"none"}

(***************************************************************************)
(* Statements of store/users.go and operations of the cache.               *)
(***************************************************************************)
Admins == {i \in Account : Lives(i) /\ users[i].role = "admin" /\ users[i].enabled}

Lookup(i) == cache[i].row # NoRow

Put(i, row) == cache' = [cache EXCEPT ![i] = [row |-> row, age |-> 0]]
Invalidate(i) == cache' = [cache EXCEPT ![i] = Empty]

\* VerifyPwdVer, and the check of enabled before it.
Admits(row, hash) == row.enabled /\ row.hash = hash

Patched(row, patch) ==
  [row EXCEPT !.role = IF patch.role = "keep" THEN @ ELSE patch.role,
              !.enabled = IF patch.enabled = "keep" THEN @ ELSE patch.enabled = "on"]

(***************************************************************************)
(* Steps of a request.                                                     *)
(***************************************************************************)
CallAt(c, step) == call[c].pc = step
Proceed(c, step) == call' = [call EXCEPT ![c] = IF step = "idle" THEN NoCall ELSE [@ EXCEPT !.pc = step]]

FirstStep(kind) ==
  CASE kind = "use" -> "idle" [] kind \in {"update", "reset", "delete"} -> "check"
    [] kind = "create" -> "insert" [] kind = "password" -> "write"

\* What authentication decides: the row lets the token in, and an administrator's
\* request needs the role.
Enter(row, hash, kind) ==
  IF Admits(row, hash) /\ (kind \in {"use", "password"} \/ row.role = "admin")
  THEN FirstStep(kind) ELSE "idle"

\* Mutant: a hit makes the entry young again.
Hit_Renews(i) == cache' = [cache EXCEPT ![i].age = 0]

\* Get does not touch the entry.
Hit(i) == cache' = cache

\* requireAuth and loadUser: a token comes with a request.
Arrive(c, i, hash, kind, target, patch, no) ==
  LET record == [pc |-> "load", kind |-> kind, actor |-> i, hash |-> hash, target |-> target,
                 patch |-> patch, no |-> no, copy |-> NoRow]
      step == IF Lookup(i) THEN Enter(cache[i].row, hash, kind) ELSE "load"
  IN /\ Idle(c) /\ <<i, hash>> \in tokens
     /\ calls' = IF kind = "use" THEN calls ELSE calls + 1
     /\ call' = [call EXCEPT ![c] = IF step = "idle" THEN NoCall ELSE [record EXCEPT !.pc = step]]
     /\ IF Lookup(i) THEN Hit(i) ELSE UNCHANGED cache
     /\ UNCHANGED <<users, tokens, home, holds>>

\* GetUserByID
Load(c) ==
  /\ CallAt(c, "load")
  /\ LET i == call[c].actor
     IN call' = [call EXCEPT ![c] = IF Lives(i) THEN [@ EXCEPT !.pc = "fill", !.copy = users[i]]
                                                ELSE NoCall]
  /\ UNCHANGED <<users, cache, tokens, home, holds, calls>>

Fill(c) ==
  /\ CallAt(c, "fill")
  /\ Put(call[c].actor, call[c].copy)
  /\ Proceed(c, Enter(call[c].copy, call[c].hash, call[c].kind))
  /\ UNCHANGED <<users, tokens, home, holds, calls>>

\* Login: the password and the switch are checked on the row that was read ...
LoginRead(c, i) ==
  /\ Idle(c) /\ Lives(i) /\ users[i].enabled
  /\ call' = [call EXCEPT ![c] =
       [pc |-> "login", kind |-> "login", actor |-> i, hash |-> users[i].hash, target |-> NoAccount,
        patch |-> NoPatch, no |-> "none", copy |-> users[i]]]
  /\ UNCHANGED <<users, cache, tokens, home, holds, calls>>

\* ... which is then cached, and signed into a token.
LoginIssue(c) ==
  /\ CallAt(c, "login")
  /\ Put(call[c].actor, call[c].copy)
  /\ tokens' = tokens \cup {<<call[c].actor, call[c].hash>>}
  /\ Proceed(c, "idle")
  /\ UNCHANGED <<users, home, holds, calls>>

\* ensureNotLastAdmin
LastAdmin == Cardinality(Admins) <= 1

\* Mutant: only a change of the role is asked about.
Removes_RoleOnly(c, row) ==
  row.role = "admin" /\ (call[c].kind = "delete" \/ call[c].patch.role = "user")

\* The request takes an administrator away, as the row stands.
Removes(c, row) ==
  /\ row.role = "admin"
  /\ \/ call[c].kind = "delete"
     \/ call[c].kind = "update" /\ (call[c].patch.role = "user" \/ call[c].patch.enabled = "off")

Self(c) == call[c].actor = call[c].target

\* What UpdateUser, ResetPassword and DeleteUser read and refuse before they write.
Check(c) ==
  LET q == call[c]
      refused == \/ ~Lives(q.target)
                 \/ Self(c) /\ (q.kind = "delete" \/ q.patch.role = "user" \/ q.patch.enabled = "off")
                 \/ Removes(c, users[q.target]) /\ LastAdmin
  IN /\ CallAt(c, "check")
     /\ call' = [call EXCEPT ![c] =
          IF refused THEN NoCall
          ELSE [q EXCEPT !.pc = IF q.kind = "delete" THEN "purge" ELSE "write",
                         !.copy = users[q.target]]]
     /\ UNCHANGED <<users, cache, tokens, home, holds, calls>>

\* Mutant: after a new password the entry is left to its age.
AfterWrite_Keeps(kind) == IF kind = "update" THEN "invalidate" ELSE "idle"

AfterWrite(kind) == "invalidate"

\* The account a request writes to.
Subject(q) == IF q.kind = "password" THEN q.actor ELSE q.target

\* UpdateUser of the store; a new password has a new fingerprint.  The statement
\* fails, or finds no row, or takes effect; its answer may then be lost, which the
\* handler cannot tell from a failure.
Write(c, answered) ==
  LET q == call[c]
      i == Subject(q)
  IN /\ CallAt(c, "write")
     /\ \/ /\ Lives(i)
           /\ \/ /\ q.kind = "update"
                 /\ users' = [users EXCEPT ![i] = Patched(@, q.patch)]
              \/ /\ q.kind # "update" /\ users[i].hash < MaxHash
                 /\ users' = [users EXCEPT ![i].hash = @ + 1]
           /\ Proceed(c, IF answered THEN AfterWrite(q.kind) ELSE "failed")
        \/ ~answered /\ Proceed(c, "failed") /\ UNCHANGED users
     /\ UNCHANGED <<cache, tokens, home, holds, calls>>

\* The request goes back with the error: nothing is invalidated or cleaned up.
Failed(c) ==
  /\ CallAt(c, "failed")
  /\ Proceed(c, "idle")
  /\ UNCHANGED <<users, cache, tokens, home, holds, calls>>

InvalidateAfter(c) ==
  /\ CallAt(c, "invalidate")
  /\ Invalidate(Subject(call[c]))
  /\ Proceed(c, "idle")
  /\ UNCHANGED <<users, tokens, home, holds, calls>>

(***************************************************************************)
(* CreateUser: the row, the directory, and the directory's name in the row.*)
(***************************************************************************)
Taken(no) == \E i \in Account : Lives(i) /\ users[i].no = no

Insert(c, i) ==
  /\ CallAt(c, "insert") /\ users[i] = Unused
  /\ IF Taken(call[c].no)
     THEN UNCHANGED users /\ Proceed(c, "idle")
     ELSE /\ users' = [users EXCEPT ![i] = [no |-> call[c].no, role |-> call[c].patch.role,
                                            enabled |-> TRUE, hash |-> 1, dir |-> FALSE]]
          /\ call' = [call EXCEPT ![c].pc = "makeDir", ![c].target = i]
  /\ UNCHANGED <<cache, tokens, home, holds, calls>>

MakeDir(c, works) ==
  LET no == call[c].no
  IN /\ CallAt(c, "makeDir")
     /\ home' = IF works /\ home[no] = NoDir THEN [home EXCEPT ![no] = {}] ELSE home
     /\ call' = [call EXCEPT ![c].pc = IF works THEN "setDir" ELSE "undoRow"]
     /\ UNCHANGED <<users, cache, tokens, holds, calls>>

SetDir(c, works) ==
  LET i == call[c].target
  IN /\ CallAt(c, "setDir")
     /\ users' = IF works /\ Lives(i) THEN [users EXCEPT ![i].dir = TRUE] ELSE users
     /\ Proceed(c, IF works THEN "idle" ELSE "undoBoth")
     /\ UNCHANGED <<cache, tokens, home, holds, calls>>

\* The row is taken back, if the statement works and the foreign keys let it go (its
\* error is ignored); if the directory was made, it is cleaned up next.
UndoRow(c, works) ==
  LET i == call[c].target
  IN /\ call[c].pc \in {"undoRow", "undoBoth"}
     /\ users' = IF ~works \/ i \in holds THEN users ELSE [users EXCEPT ![i] = Gone]
     /\ Proceed(c, IF CallAt(c, "undoBoth") THEN "undoDir" ELSE "idle")
     /\ UNCHANGED <<cache, tokens, home, holds, calls>>

(***************************************************************************)
(* DeleteUser: the files (see Files), the row, the directory, the cache.   *)
(***************************************************************************)
PurgeOwner(c) ==
  LET q == call[c]
  IN /\ CallAt(c, "purge")
     /\ holds' = holds \ {q.target}
     /\ home' = [no \in No |-> IF home[no] = NoDir THEN NoDir ELSE home[no] \ {q.target}]
     /\ Proceed(c, "deleteRow")
     /\ UNCHANGED <<users, cache, tokens, calls>>

\* Mutant: the directory is cleaned up whether or not the row could be deleted.
AfterDelete_Anyway(deleted) == "cleanup"

AfterDelete(deleted) == IF deleted THEN "cleanup" ELSE "idle"

\* DELETE FROM users: the foreign key keeps an account that has files again.  Here
\* too the answer of a statement that took effect may be lost.
DeleteRow(c, answered) ==
  LET i == call[c].target
      deleted == Lives(i) /\ i \notin holds
  IN /\ CallAt(c, "deleteRow")
     /\ \/ /\ deleted /\ users' = [users EXCEPT ![i] = Gone]
           /\ Proceed(c, IF answered THEN AfterDelete(TRUE) ELSE "failed")
        \/ /\ ~(deleted /\ answered) /\ UNCHANGED users
           /\ Proceed(c, AfterDelete(FALSE))
     /\ UNCHANGED <<cache, tokens, home, holds, calls>>

\* CleanupUserDir, by the name the row had when the request looked at it.
CleanupUserDir(c) ==
  LET q == call[c]
      named == q.pc = "undoDir" \/ q.copy.dir
      no == IF q.pc = "undoDir" THEN q.no ELSE q.copy.no
  IN /\ q.pc \in {"cleanup", "undoDir"}
     /\ home' = IF named THEN [home EXCEPT ![no] = NoDir] ELSE home
     /\ Proceed(c, IF q.pc = "cleanup" THEN "invalidate" ELSE "idle")
     /\ UNCHANGED <<users, cache, tokens, holds, calls>>

(***************************************************************************)
(* Around the requests.                                                    *)
(***************************************************************************)

\* An upload of an account completes (see Upload).
StoreFile(i) ==
  /\ Lives(i) /\ i \notin holds
  /\ holds' = holds \cup {i}
  /\ home' = [home EXCEPT ![users[i].no] = (@ \ NoDir) \cup {i}]
  /\ UNCHANGED <<users, cache, tokens, call, calls>>

\* Time passes; an entry that Get finds too old is as good as none.
Tick ==
  /\ \E i \in Account : Lookup(i)
  /\ cache' = [i \in Account |-> IF Lookup(i) /\ cache[i].age < TTL
                                 THEN [cache[i] EXCEPT !.age = @ + 1] ELSE Empty]
  /\ UNCHANGED <<users, tokens, home, holds, call, calls>>

\* The process dies: the requests and the cache are gone.
Crash ==
  /\ call' = [c \in Call |-> NoCall]
  /\ cache' = [i \in Account |-> Empty]
  /\ UNCHANGED <<users, tokens, home, holds, calls>>

(***************************************************************************)
(* Specification.                                                          *)
(***************************************************************************)
Requested(c, kinds) ==
  \E token \in tokens, kind \in kinds :
    /\ kind # "use" => calls < MaxCalls
    /\ \/ kind \in {"use", "password"}
          /\ Arrive(c, token[1], token[2], kind, NoAccount, NoPatch, "none")
       \/ kind \in {"reset", "delete"} /\ \E t \in Account :
            Arrive(c, token[1], token[2], kind, t, NoPatch, "none")
       \/ kind = "update" /\ \E t \in Account, patch \in Patches :
            Arrive(c, token[1], token[2], kind, t, patch, "none")
       \/ kind = "create" /\ \E no \in No, role \in {"admin", "user"} :
            Arrive(c, token[1], token[2], kind, NoAccount, [NoPatch EXCEPT !.role = role], no)

Served(c) ==
  \/ Load(c) \/ Fill(c) \/ LoginIssue(c) \/ Check(c) \/ Failed(c) \/ InvalidateAfter(c)
  \/ \E i \in Account : Insert(c, i)
  \/ \E works \in BOOLEAN : \/ Write(c, works) \/ DeleteRow(c, works)
                            \/ MakeDir(c, works) \/ SetDir(c, works) \/ UndoRow(c, works)
  \/ PurgeOwner(c) \/ CleanupUserDir(c)

AStep(kinds) ==
  \/ \E c \in Call : \/ Requested(c, kinds) \/ Served(c)
                     \/ "login" \in kinds /\ \E i \in Account : LoginRead(c, i)
  \/ "store" \in kinds /\ \E i \in Account : StoreFile(i)
  \/ Crash

\* What the properties remember of the steps.
Acting(c) == call'[c] # call[c]
Filling(i) == \E c \in Call : Acting(c) /\ call[c].pc \in {"fill", "login"} /\ call[c].actor = i
\* The statement that wrote to the account is reported as failed.
Unanswered(i) == \E c \in Call : /\ Acting(c) /\ call[c].pc \in {"write", "deleteRow"}
                                /\ call'[c].pc = "failed" /\ Subject(call[c]) = i
Sight(row) == <<row.role, row.enabled, row.hash>>
Differs(i, row) == Lives(i) => Sight(row) # Sight(users[i])
Cleans(c, no) == \/ CallAt(c, "cleanup") /\ call[c].copy.no = no
                 \/ CallAt(c, "undoDir") /\ call[c].no = no

Remember ==
  /\ lateFill' = {i \in Account : Lookup(i)' /\ IF Filling(i) THEN Differs(i, cache'[i].row)
                                                              ELSE i \in lateFill}
  /\ undone' = undone \cup {i \in Account : \E c \in Call :
                   call[c].pc \in {"undoRow", "undoBoth"} /\ Acting(c)
                   /\ call[c].target = i /\ ~Lives(i)'}
  /\ unanswered' = {i \in Account : Lookup(i)' /\ ~Filling(i) /\ (i \in unanswered \/ Unanswered(i))}
  /\ stale' = {c \in Call : ~Idle(c)' /\ (c \in stale \/ (Admins' # Admins /\ ~Acting(c)))}
  /\ unseen' = (unseen \/ (Admins \ Admins' # {} /\ \E c \in stale : Acting(c)))
  /\ reused' = (reused \/ \E c \in Call : /\ Acting(c) /\ ~Idle(c)'
                /\ \/ CallAt(c, "insert") /\ \E d \in Call : Cleans(d, call[c].no)
                   \/ CallAt(c, "undoBoth") /\ Taken(call[c].no)')

AInit ==
  /\ users \in [Account -> Row \cup {Unused}]
  /\ \A i, j \in Account : i # j /\ Lives(i) /\ Lives(j) => users[i].no # users[j].no
  /\ \A i \in Account : Lives(i) => users[i].hash = 1 /\ users[i].dir
  /\ Admins # {}
  /\ cache = [i \in Account |-> Empty]
  /\ tokens = {<<i, 1>> : i \in {j \in Account : Lives(j)}}
  /\ home = [no \in No |-> IF Taken(no) THEN {} ELSE NoDir]
  /\ holds = {}
  /\ call = [c \in Call |-> NoCall] /\ calls = 0
  /\ lateFill = {} /\ undone = {} /\ unanswered = {} /\ stale = {} /\ unseen = FALSE /\ reused = FALSE

ANext == (AStep(Kinds \cup {"store"}) \/ Tick) /\ Remember

\* Only the clock is relied upon.
ASpec == AInit /\ [][ANext]_avars /\ WF_avars(Tick /\ Remember)

(***************************************************************************)
(* Properties.                                                             *)
(***************************************************************************)

\* There is always an enabled administrator, unless one was removed by a request
\* that another change of the administrators had overtaken since it started:
\* creating, changing, deleting and taking back accounts in any order
\* (handler/auth.go:461; docs/design.md:508).
AdminRemains == unseen \/ Admins # {}

Contradicted(i) == Lookup(i) /\ Differs(i, cache[i].row)
Settles(c, i) == call[c].pc \in {"cleanup", "invalidate"} /\ i = Subject(call[c])

\* What the cache says of an account differs from its row only while the request
\* that changed the row has not yet invalidated the entry, or when the entry was
\* stored after the row it was read from had changed, or since a statement on the
\* row took effect and was reported as failed, so that its request went back before
\* it invalidates, or for an account whose creation was taken back
\* (auth/auth.go:197, handler/auth.go:123, 295, 332, 396 and 299, 337, 405).
StaleEntryIsRaced ==
  \A i \in Account : Contradicted(i) =>
    i \in lateFill \cup undone \cup unanswered \/ \E c \in Call : Settles(c, i)

\* Even then the entry ends: a disabled, deleted or reset account does not stay
\* usable, however many requests come in with its token (auth/auth.go:197, 218).
RevocationTakesHold == \A i \in Account : Contradicted(i) ~> ~Contradicted(i)

\* The bytes of an account's files lie in its directory, whoever creates or deletes
\* accounts with the same number meanwhile, unless the number was in use again
\* before the directory of its predecessor was cleaned up (handler/auth.go:399).
FilesOutliveOthers == \A i \in holds : ~reused => i \in home[users[i].no]
=============================================================================
