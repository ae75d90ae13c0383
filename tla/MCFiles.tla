------------------------------- MODULE MCFiles -------------------------------
(* Instances of Files for TLC: three scenes, chosen in the initial state.     *)
(* "pair":  one file, two requests, one of which purges or restores; the      *)
(*          folder moves; the tasks run.                                      *)
(* "tasks": two files, the tasks, a request on all files or a restore, faults.*)
(* "quota": two files, two requests that change expiry dates or trash.        *)
EXTENDS Files

CONSTANTS f1, f2, r1

MCNested == {f1}
MCSize == [f \in File |-> 1]

VARIABLE scene
mcvars == <<vars, scene>>

InScene ==
  CASE scene = "pair" ->
         /\ ~Exists(f2) /\ faults = 0
         /\ \A r \in Request :
              req[r].pc \in {"idle", "restore", "remove", "delete"}
                             \cup IF r = r1 THEN {"rename", "trash"} ELSE {}
    [] scene = "tasks" -> place = "here" /\ \A r \in Request :
         req[r].pc \in IF r = r1 THEN {"idle", "restore", "trashUnder", "trashTree",
                                       "softDeleteAll", "listOwned", "remove", "delete"}
                                 ELSE {"idle"}
    [] scene = "quota" -> /\ job = NoJob /\ faults = 0 /\ dirAt = "here"
                          /\ \A f \in File : Exists(f) => "due" \notin {row[f].expires, row[f].purge}
                          /\ \A r \in Request : req[r].pc \in
                               {"idle", "restore", "trash", "stats", "fits", "expiry"}

MCInit == /\ FInit /\ scene \in {"pair", "tasks", "quota"} /\ InScene
          /\ \A f \in File : Exists(f) => row[f].name = "n1"
          /\ Exists(f1) /\ (scene # "pair" => Exists(f2))

MCNext == FNext /\ UNCHANGED scene /\ InScene'

MCSpec == MCInit /\ [][MCNext]_mcvars /\ FFairness
=============================================================================
