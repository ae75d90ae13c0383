------------------------------ MODULE MCShares -------------------------------
(* Instances of Shares, and of Folders within it, for TLC.  The account has   *)
(* the folders a and b to start with.  Three scenes:                          *)
(* "folders": a file lies in a; MaxOps requests on folders race.              *)
(* "upload":  two requests on folders race with each other and an upload.     *)
(* "shares":  a file lies in a; one request on folders is left, while the     *)
(*            file and the folder are shared and visited.                     *)
EXTENDS Shares, TLC

CONSTANTS d1, d2

VARIABLE scene
mcvars == <<svars, scene>>

NameOf(d) == IF d = d1 THEN "a" ELSE "b"
AtRoot == {d1, d2}
DirOf(n) == <<Live(n)>>

MCInit ==
  /\ scene \in {"folders", "upload", "shares"}
  /\ fstat = [d \in Folder |-> IF d \in AtRoot THEN "active" ELSE "unused"]
  /\ parent = [d \in Folder |-> NoFolder]
  /\ fname = [d \in Folder |-> IF d \in AtRoot THEN NameOf(d) ELSE "none"]
  /\ path = [d \in Folder |-> IF d \in AtRoot THEN DirOf(NameOf(d)) ELSE <<>>]
  /\ dirs = {<<>>, DirOf("a"), DirOf("b")}
  /\ up = [x \in File |-> IF scene = "upload" THEN "none" ELSE "done"]
  /\ file = [x \in File |->
       IF scene # "upload"
       THEN [dir |-> DirOf("a"), rel |-> DirOf("a"), folder |-> d1, status |-> "active",
             disk |-> DirOf("a")]
       ELSE NoFileYet]
  /\ req = [r \in Request |-> NoReq]
  /\ ops = (CASE scene = "folders" -> 0
              [] scene = "upload" -> MaxOps - 2
              [] scene = "shares" -> MaxOps - 1)
  /\ raced = {} /\ spoiled = FALSE
  /\ link = [s \in Share |-> NoLink]
  /\ visit = [v \in Visitor |-> NoVisit]
  /\ usable = {} /\ live = {}

Symmetry == Permutations(Request)

MCNext ==
  \/ scene # "shares" /\ DNext /\ UNCHANGED <<link, visit, usable, live, scene>>
  \/ scene = "shares" /\ SNext /\ UNCHANGED scene

MCSpec == MCInit /\ [][MCNext]_mcvars
=============================================================================
