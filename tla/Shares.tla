------------------------------- MODULE Shares --------------------------------
(***************************************************************************)
(* Share links: shares/shares.go and the handlers of handler/shares.go,    *)
(* over the folders and files of Folders.                                  *)
(*                                                                         *)
(* A visitor needs no account, only the token.  Looking at a link resolves *)
(* it once; downloading resolves it in the handler, a second time in the   *)
(* service, and then reads the target again.  Each of these statements is  *)
(* one step; owners, administrators and the daily task move in between.    *)
(***************************************************************************)
EXTENDS Folders

CONSTANTS
  Share,      \* links: each has a token and an id of its own
  Visitor,    \* visits served at a time
  MaxViews,   \* bound: visits of a link that are counted
  NoShare

ASSUME SharesAssumption == MaxViews \in Nat /\ NoShare \notin Share

VARIABLES
  link,     \* the table shares; "asked": its target is checked, the row is not there
  visit,    \* the visits
  usable,   \* visits that saw, at one moment, a link with its row and its target there
  live      \* visits that saw, at one moment, such a link before it expired

svars == <<vars, link, visit, usable, live>>

Target == File \cup Folder
LinkRecord == [state : {"none", "asked", "valid", "expired", "old", "gone"},
               target : Target \cup {NoShare}, forever : BOOLEAN, views : 0 .. MaxViews]
NoLink == [state |-> "none", target |-> NoShare, forever |-> FALSE, views |-> 0]

VisitRecord == [pc : {"idle", "token", "target", "count", "fetch", "list", "send"},
                share : Share \cup {NoShare}, kind : {"look", "download"},
                round : {1, 2}, dir : Seq(Segment), files : SUBSET File]
NoVisit == [pc |-> "idle", share |-> NoShare, kind |-> "look", round |-> 1,
            dir |-> <<>>, files |-> {}]

STypeOK ==
  /\ DTypeOK
  /\ link \in [Share -> LinkRecord]
  /\ visit \in [Visitor -> VisitRecord]
  /\ usable \subseteq Visitor /\ live \subseteq Visitor

SInit ==
  /\ DInit
  /\ link = [s \in Share |-> NoLink]
  /\ visit = [v \in Visitor |-> NoVisit]
  /\ usable = {} /\ live = {}

InTable(s) == link[s].state \in {"valid", "expired", "old"}
TargetActive(t) == IF t \in File THEN file[t].status = "active" ELSE fstat[t] = "active"
TargetOf(v) == link[visit[v].share].target

(***************************************************************************)
(* Owners and administrators.                                              *)
(***************************************************************************)
Linking(s, record) ==
  /\ link' = [link EXCEPT ![s] = record]
  /\ UNCHANGED <<vars, visit>>

\* Create has found the target: a file must be active, a folder need not be.
AskShare(s, t) ==
  /\ link[s].state = "none"
  /\ IF t \in File THEN file[t].status = "active" ELSE Used(t)
  /\ \E forever \in BOOLEAN :
       Linking(s, [NoLink EXCEPT !.state = "asked", !.target = t, !.forever = forever])

\* CreateShare: the foreign key turns a file away that has been purged.
CreateShare(s) ==
  /\ link[s].state = "asked"
  /\ LET t == link[s].target
     IN Linking(s, [link[s] EXCEPT
                      !.state = IF t \in File /\ ~HasRow(t) THEN "gone" ELSE "valid"])

Revoke(s) ==
  /\ InTable(s)
  /\ Linking(s, [link[s] EXCEPT !.state = "gone"])

\* SoftDelete, Restore and Purge of a file (see Files).  Purging takes the links on
\* the file with its row.
Trash(x) ==
  /\ up[x] = "done" /\ file[x].status = "active"
  /\ file' = [file EXCEPT ![x].status = "trashed"]
  /\ UNCHANGED <<tree, dirs, up, req, ops, link, visit>>
  /\ Racing(FALSE)

Restore(x) ==
  /\ up[x] = "done" /\ file[x].status = "trashed"
  /\ file' = [file EXCEPT ![x].status = "active"]
  /\ UNCHANGED <<tree, dirs, up, req, ops, link, visit>>
  /\ Racing(FALSE)

Purge(x) ==
  /\ up[x] = "done" /\ HasRow(x)
  /\ file' = [file EXCEPT ![x].status = "gone",
                          ![x].disk = IF @ = file[x].rel THEN Lost ELSE @]
  /\ link' = [s \in Share |-> IF InTable(s) /\ link[s].target = x
                              THEN [link[s] EXCEPT !.state = "gone"] ELSE link[s]]
  /\ UNCHANGED <<tree, dirs, up, req, ops, visit>>
  /\ Racing(FALSE)

\* expires_at passes, and then the thirty days of grace.
Lapse(s) ==
  \/ link[s].state = "valid" /\ ~link[s].forever /\ Linking(s, [link[s] EXCEPT !.state = "expired"])
  \/ link[s].state = "expired" /\ Linking(s, [link[s] EXCEPT !.state = "old"])

\* PurgeExpiredShares of the daily task.
PurgeExpired ==
  /\ \E s \in Share : link[s].state = "old"
  /\ link' = [s \in Share |-> IF link[s].state = "old"
                              THEN [link[s] EXCEPT !.state = "gone"] ELSE link[s]]
  /\ UNCHANGED <<vars, visit>>

(***************************************************************************)
(* Visits.                                                                 *)
(***************************************************************************)
Visiting(v, record) ==
  /\ visit' = [visit EXCEPT ![v] = record]
  /\ UNCHANGED vars

VisitAt(v, step) == visit[v].pc = step

\* ResolveShare, or ShareDownload and SharePreview.
Open(v, s, kind) ==
  /\ visit[v] = NoVisit /\ link[s].state # "none" /\ link[s].views < MaxViews
  /\ Visiting(v, [NoVisit EXCEPT !.pc = "token", !.share = s, !.kind = kind])
  /\ UNCHANGED link

\* Resolve: the row of the token, and its expiry ...
ResolveToken(v) ==
  /\ VisitAt(v, "token")
  /\ Visiting(v, IF link[visit[v].share].state = "valid"
                 THEN [visit[v] EXCEPT !.pc = "target"] ELSE NoVisit)
  /\ UNCHANGED link

\* Mutant: the target has to be there, in whatever state.
ResolveTarget_AnyStatus(v) ==
  LET t == TargetOf(v)
      found == IF t \in File THEN HasRow(t) ELSE FolderDirRel(path[t])
  IN /\ VisitAt(v, "target")
     /\ Visiting(v, IF found THEN [visit[v] EXCEPT !.pc = "count"] ELSE NoVisit)
     /\ UNCHANGED link

\* ... then the target ...
ResolveTarget(v) ==
  LET t == TargetOf(v)
      found == TargetActive(t) /\ (t \in Folder => FolderDirRel(path[t]))
  IN /\ VisitAt(v, "target")
     /\ Visiting(v, IF found THEN [visit[v] EXCEPT !.pc = "count"] ELSE NoVisit)
     /\ UNCHANGED link

\* Mutant: the handler's answer is not resolved again.
AfterCount_Once(v) ==
  IF visit[v].kind = "look" THEN NoVisit ELSE [visit[v] EXCEPT !.pc = "fetch", !.round = 2]

\* FileForDownload and FolderFilesForDownload resolve the token themselves.
AfterCount(v) ==
  CASE visit[v].kind = "look" -> NoVisit
    [] visit[v].kind = "download" /\ visit[v].round = 1 -> [visit[v] EXCEPT !.pc = "token", !.round = 2]
    [] visit[v].kind = "download" /\ visit[v].round = 2 -> [visit[v] EXCEPT !.pc = "fetch"]

\* ... and IncrementShareView, whatever became of the row.
Count(v) ==
  LET s == visit[v].share
  IN /\ VisitAt(v, "count")
     /\ link' = IF InTable(s) /\ link[s].views < MaxViews
                THEN [link EXCEPT ![s].views = @ + 1] ELSE link
     /\ Visiting(v, AfterCount(v))

\* The target once more, in whatever state it is.
Fetch(v) ==
  LET t == TargetOf(v)
  IN /\ VisitAt(v, "fetch")
     /\ Visiting(v,
          IF t \in File
          THEN IF HasRow(t) THEN [visit[v] EXCEPT !.pc = "send", !.dir = file[t].rel, !.files = {t}]
               ELSE NoVisit
          ELSE IF FolderDirRel(path[t]) THEN [visit[v] EXCEPT !.pc = "list", !.dir = path[t]]
               ELSE NoVisit)
     /\ UNCHANGED link

\* ListFilesInFolder
ListFilesInFolder(v) ==
  /\ VisitAt(v, "list")
  /\ Visiting(v, [visit[v] EXCEPT !.pc = "send",
                    !.files = {x \in File : file[x].status = "active"
                                            /\ IsPrefix(visit[v].dir, file[x].rel)}])
  /\ UNCHANGED link

\* The response: a file that cannot be opened is left out.
Send(v) ==
  /\ VisitAt(v, "send")
  /\ Visiting(v, NoVisit)
  /\ UNCHANGED link

(***************************************************************************)
(* Specification.                                                          *)
(***************************************************************************)
Own ==
  \/ \E s \in Share : CreateShare(s) \/ Revoke(s) \/ Lapse(s) \/ \E t \in Target : AskShare(s, t)
  \/ \E x \in File : Trash(x) \/ Restore(x) \/ Purge(x)
  \/ PurgeExpired

Serve(v) ==
  \/ \E s \in Share, kind \in {"look", "download"} : Open(v, s, kind)
  \/ ResolveToken(v) \/ ResolveTarget(v) \/ Count(v) \/ Fetch(v)
  \/ ListFilesInFolder(v) \/ Send(v)

Seen(v) == InTable(visit[v].share) /\ TargetActive(TargetOf(v))

Seeing ==
  LET inside == {v \in Visitor : visit'[v] # NoVisit}
  IN /\ usable' = {v \in inside : v \in usable \/ Seen(v)'}
     /\ live' = {v \in inside : v \in live \/ (Seen(v) /\ link[visit[v].share].state = "valid")'}

SNext ==
  /\ \/ DNext /\ UNCHANGED <<link, visit>>
     \/ Own
     \/ \E v \in Visitor : Serve(v)
  /\ Seeing

SSpec == SInit /\ [][SNext]_svars

(***************************************************************************)
(* Properties.                                                             *)
(***************************************************************************)

\* What a visitor is sent was shared: at one moment of the visit the link was there
\* and unexpired and its target was active.  A file that is trashed, whose link is
\* then revoked, is not sent although it is restored later, although no statement
\* looks at link and target together (shares.go:330, 351).
ServedWasLive == \A v \in Visitor : VisitAt(v, "send") => v \in live

\* Only a visit that was possible is counted: the link's row and its target were
\* there at one moment (shares.go:315).
CountedWasUsable ==
  [][\A s \in Share : link'[s].views > link[s].views =>
       \E v \in usable : VisitAt(v, "count") /\ visit[v].share = s]_svars
=============================================================================
