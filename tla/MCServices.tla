----------------------------- MODULE MCServices ------------------------------
(* Instances of the components beside the upload service, for TLC.  They do   *)
(* not interact, so a behaviour moves one of them, its scene:                 *)
(* "access":   two accounts; the cache, logins, new passwords, the switch.    *)
(* "admins":   two administrators change and delete one another and others.   *)
(* "homes":    accounts are created and deleted, and their files stored.      *)
(* "settings", "limiter", "chunk": the module of that name.                   *)
(* "task":    one task of the browser uploads both chunks of a file.          *)
(* "tasks":   two tasks resume an upload of which the second chunk is missing.*)
EXTENDS Accounts, Settings, LoginLimiter, UploadClient, ChunkFile

CONSTANTS a1, a2, t1, s1

VARIABLE scene
mcvars == <<avars, setvars, lvars, uvars, cvars, scene>>

Scenes == {"access", "admins", "homes", "settings", "limiter", "task", "tasks", "chunk"}

MCPatches == {[role |-> "user", enabled |-> "keep"], [role |-> "keep", enabled |-> "off"],
              [role |-> "admin", enabled |-> "on"]}

StartRow(no, role) == [no |-> no, role |-> role, enabled |-> TRUE, hash |-> 1, dir |-> TRUE]
StartUsers == [i \in Account |-> CASE i = a1 -> StartRow("1", "admin")
                                   [] i = a2 -> StartRow("2", IF scene = "admins" THEN "admin" ELSE "user")
                                   [] OTHER -> Unused]

AccountsStart ==
  /\ users = StartUsers
  /\ cache = [i \in Account |-> IF scene \in {"admins", "homes"} /\ Lives(i)
                                THEN [row |-> users[i], age |-> 0] ELSE Empty]
  /\ tokens = {<<a1, 1>>, <<a2, 1>>}
  /\ home = [no \in No |-> IF Taken(no) THEN {} ELSE NoDir]
  /\ holds = {} /\ call = [c \in Call |-> NoCall] /\ calls = 0
  /\ lateFill = {} /\ undone = {} /\ unanswered = {} /\ stale = {} /\ unseen = FALSE /\ reused = FALSE

SettingsStart ==
  /\ table \in IF scene = "settings" THEN [Key -> Stored] ELSE {Defaults}
  /\ values = FromMap(table)
  /\ save = [s \in Saver |-> NoSave] /\ saves = 0
  /\ crossed = {} /\ overtaken = {} /\ drift = FALSE

ClientStart ==
  /\ server = [s \in Sess |-> CASE scene # "tasks" -> "unused" [] s = s1 -> "uploading"
                                 [] OTHER -> "gone"]
  /\ got = [s \in Sess |-> IF scene = "tasks" /\ s = s1 THEN {0} ELSE {}]
  /\ record = IF scene = "tasks" THEN s1 ELSE NoSess
  /\ Fresh

MCInit == /\ scene \in Scenes
          /\ AccountsStart /\ SettingsStart /\ LInit /\ ClientStart /\ CInit

AccountsOnly == UNCHANGED <<setvars, lvars, uvars, cvars, scene>>
ClientOnly == UNCHANGED <<avars, setvars, lvars, cvars, scene>>

Time == scene \in {"access", "admins", "homes"} /\ Tick /\ Remember /\ AccountsOnly
TaskMoves(t) == scene \in {"task", "tasks"} /\ Moves(t) /\ ClientOnly

Asked == CASE scene = "access" -> {"use", "login", "reset", "password"}
           [] scene = "admins" -> {"update", "delete"}
           [] scene = "homes" -> {"create", "delete", "store"}
           [] OTHER -> {}

MCNext ==
  \/ Asked # {} /\ AStep(Asked) /\ Remember /\ AccountsOnly
  \/ Time
  \/ scene = "settings" /\ SetNext /\ UNCHANGED <<avars, lvars, uvars, cvars, scene>>
  \/ scene = "limiter" /\ LNext /\ UNCHANGED <<avars, setvars, uvars, cvars, scene>>
  \/ scene \in {"task", "tasks"} /\ UStep(IF scene = "task" THEN {t1} ELSE Task) /\ ClientOnly
  \/ scene = "chunk" /\ CNext /\ UNCHANGED <<avars, setvars, lvars, uvars, scene>>

MCSpec == /\ MCInit /\ [][MCNext]_mcvars
          /\ WF_mcvars(Time)
          /\ \A t \in Task : WF_mcvars(TaskMoves(t))
=============================================================================
