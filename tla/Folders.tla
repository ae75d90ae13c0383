------------------------------- MODULE Folders -------------------------------
(***************************************************************************)
(* The folders of an account: folders/folders.go over the tables folders   *)
(* and files and over the directories of the disk, with the uploads whose  *)
(* session keeps the directory it was opened for.                          *)
(*                                                                         *)
(* A path is a sequence of segments.  Deleting a folder keeps its row and  *)
(* marks the last segment of its path with ":<id>"; no name contains ":",  *)
(* and a path with such a segment is refused as a directory.  Every        *)
(* statement, transaction and directory operation of a handler is one      *)
(* step; its reads and checks, which come first, are one step together.    *)
(***************************************************************************)
EXTENDS Naturals, FiniteSets, SequencesExt

CONSTANTS
  Folder,     \* ids of the table folders
  Name,       \* names of folders
  File,       \* files that are uploaded into folders
  Request,    \* the requests on folders served at a time
  MaxDepth,   \* maxDepth
  MaxFolders, \* maxFoldersPerUser
  MaxOps,     \* bound: requests on folders of a behaviour
  NoFolder    \* no parent: the root of the account; no mark: a live segment

ASSUME FoldersAssumption ==
  /\ MaxDepth \in Nat /\ MaxFolders \in Nat /\ MaxOps \in Nat
  /\ NoFolder \notin Folder
  /\ Request \cap File = {}    \* raced holds both

VARIABLES
  fstat,    \* folders.status; "unused" before the row
  parent,   \* folders.parent_id
  fname,    \* folders.name
  path,     \* folders.path
  dirs,     \* the directories on disk
  up,       \* the upload of a file: how far it is
  file,     \* its session (dir), its row (rel, folder, status) and its bytes (disk)
  req,      \* the requests
  ops,      \* requests so far
  raced,    \* requests and uploads the tables changed under, or that started
            \* while another request was halfway
  spoiled   \* a raced request has written, or one has failed halfway

tree == <<fstat, parent, fname, path>>
vars == <<fstat, parent, fname, path, dirs, up, file, req, ops, raced, spoiled>>

Segment == [name : Name, mark : Folder \cup {NoFolder}]
Live(n) == [name |-> n, mark |-> NoFolder]
Dir(names) == [i \in DOMAIN names |-> Live(names[i])]

Parents == Folder \cup {NoFolder}
PathOf(p) == IF p = NoFolder THEN <<>> ELSE path[p]
Used(d) == fstat[d] # "unused"

\* FolderDirRel, with the check of SafeRel that matters here.
FolderDirRel(p) == \A i \in DOMAIN p : p[i].mark = NoFolder

\* p LIKE 'q/%', and the new prefix in its place.
Under(p, q) == IsStrictPrefix(q, p)
Rebase(p, old, new) == new \o SubSeq(p, Len(old) + 1, Len(p))
Moved(p, old, new) == IF p = old \/ Under(p, old) THEN Rebase(p, old, new) ELSE p

Steps == {"idle", "insert", "makeDir", "renameRows", "renameFiles", "renameDir",
          "trashFiles", "trashTree"}

NoReq == [pc |-> "idle", id |-> NoFolder, parent |-> NoFolder, name |-> "none",
          old |-> <<>>, new |-> <<>>]

ReqRecord == [pc : Steps, id : Parents, parent : Parents, name : Name \cup {"none"},
              old : Seq(Segment), new : Seq(Segment)]

Lost == <<>>    \* bytes that are in no directory of the account's folders

FileRecord == [dir : Seq(Segment), rel : Seq(Segment), folder : Parents,
               status : {"none", "active", "trashed", "gone"}, disk : Seq(Segment)]
NoFileYet == [dir |-> <<>>, rel |-> <<>>, folder |-> NoFolder, status |-> "none",
              disk |-> Lost]

HasRow(x) == file[x].status \in {"active", "trashed"}
Uploading(x) == up[x] \in {"open", "row", "merged"}

DTypeOK ==
  /\ fstat \in [Folder -> {"unused", "active", "deleted"}]
  /\ parent \in [Folder -> Parents]
  /\ fname \in [Folder -> Name \cup {"none"}]
  /\ path \in [Folder -> Seq(Segment)]
  /\ dirs \subseteq Seq(Segment) /\ \A p \in dirs : FolderDirRel(p)
  /\ up \in [File -> {"none", "open", "row", "merged", "done"}]
  /\ file \in [File -> FileRecord]
  /\ req \in [Request -> ReqRecord]
  /\ ops \in 0 .. MaxOps
  /\ raced \subseteq Request \cup File
  /\ spoiled \in BOOLEAN

DInit ==
  /\ fstat = [d \in Folder |-> "unused"]
  /\ parent = [d \in Folder |-> NoFolder]
  /\ fname = [d \in Folder |-> "none"]
  /\ path = [d \in Folder |-> <<>>]
  /\ dirs = {<<>>}
  /\ up = [x \in File |-> "none"]
  /\ file = [x \in File |-> NoFileYet]
  /\ req = [r \in Request |-> NoReq]
  /\ ops = 0 /\ raced = {} /\ spoiled = FALSE

(***************************************************************************)
(* Statements of store/folders.go and operations of storage.go.            *)
(***************************************************************************)
FolderNameExists(p, n, except) ==
  \E d \in Folder \ {except} : fstat[d] = "active" /\ parent[d] = p /\ fname[d] = n

CountFoldersByOwner == Cardinality({d \in Folder : Used(d)})

\* The unique key (owner_id, path).
KeyHolds(paths) ==
  \A d, e \in Folder : d # e /\ Used(d) /\ Used(e) => paths[d] # paths[e]

RenamedPaths(d, new) ==
  [e \in Folder |-> IF e = d THEN new
                    ELSE IF Under(path[e], path[d]) THEN Rebase(path[e], path[d], new)
                    ELSE path[e]]

\* The row itself, then the rows below the path it had.
RenameFolderPathWithParent(d, p, n, new) ==
  /\ path' = RenamedPaths(d, new)
  /\ fname' = [fname EXCEPT ![d] = n]
  /\ parent' = [parent EXCEPT ![d] = p]
  /\ UNCHANGED fstat

MoveFilesPathPrefix(old, new) ==
  file' = [x \in File |-> IF HasRow(x) THEN [file[x] EXCEPT !.rel = Moved(@, old, new)]
                                      ELSE file[x]]

\* Mutant: only the folder itself is matched, not what lies below it.
SoftDeleteFilesUnderPath_Direct(p) ==
  file' = [x \in File |-> IF file[x].status = "active" /\ file[x].rel = p
                          THEN [file[x] EXCEPT !.status = "trashed"] ELSE file[x]]

\* rel_path LIKE '<dir>/%': the files of the folder and of those below it.
SoftDeleteFilesUnderPath(p) ==
  file' = [x \in File |-> IF file[x].status = "active" /\ IsPrefix(p, file[x].rel)
                          THEN [file[x] EXCEPT !.status = "trashed"] ELSE file[x]]

InTree(p) == {d \in Folder : fstat[d] = "active" /\ IsPrefix(p, path[d])}

\* Mutant: the path of a deleted folder is not marked.
SoftDeleteFolderTree_Unmarked(p) ==
  /\ fstat' = [d \in Folder |-> IF d \in InTree(p) THEN "deleted" ELSE fstat[d]]
  /\ UNCHANGED <<path, parent, fname>>

SoftDeleteFolderTree(p) ==
  /\ fstat' = [d \in Folder |-> IF d \in InTree(p) THEN "deleted" ELSE fstat[d]]
  /\ path' = [d \in Folder |-> IF d \in InTree(p) THEN [path[d] EXCEPT ![Len(path[d])].mark = d]
                                                 ELSE path[d]]
  /\ UNCHANGED <<parent, fname>>

\* os.MkdirAll
EnsureDir(p) == dirs' = dirs \cup Prefixes(p)

Carry(old, new) == [x \in File |-> [file[x] EXCEPT !.disk = IF @ = Lost THEN Lost ELSE Moved(@, old, new)]]

\* Mutant: a directory that is in the way is replaced.
RenameDir_Replaces(old, new) ==
  /\ dirs' = {Moved(p, old, new) : p \in dirs} \cup Prefixes(new)
  /\ file' = [x \in File |-> [file[x] EXCEPT
       !.disk = IF @ = Lost \/ IsPrefix(new, @) THEN Lost ELSE Moved(@, old, new)]]

\* A missing source is made as the target; an existing target is an error, and so
\* is a target below the source, once its parents have been made.  Rename has
\* refused old = new.
RenameDir(old, new) ==
  \/ old \notin dirs /\ EnsureDir(new) /\ UNCHANGED file
  \/ old \in dirs /\ new \in dirs /\ UNCHANGED <<dirs, file>>
  \/ /\ old \in dirs /\ new \notin dirs /\ Under(new, old)
     /\ EnsureDir(Front(new)) /\ UNCHANGED file
  \/ /\ old \in dirs /\ new \notin dirs /\ ~Under(new, old)
     /\ dirs' = {Moved(p, old, new) : p \in dirs} \cup Prefixes(new)
     /\ file' = Carry(old, new)

(***************************************************************************)
(* Requests.  A refused request is one that is not made.                   *)
(***************************************************************************)
Ask(r, record) ==
  /\ req[r] = NoReq /\ ops < MaxOps
  /\ ops' = ops + 1
  /\ req' = [req EXCEPT ![r] = record]
  /\ UNCHANGED <<tree, dirs, up, file>>

Goto(r, step) ==
  /\ req' = [req EXCEPT ![r] = IF step = "idle" THEN NoReq ELSE [@ EXCEPT !.pc = step]]
  /\ UNCHANGED <<up, ops>>

At(r, step) == req[r].pc = step

\* Create: nothing asks whether the parent is still active.
Create(r, p, n) ==
  LET new == Append(PathOf(p), Live(n))
  IN /\ p # NoFolder => Used(p)
     /\ Len(new) <= MaxDepth
     /\ ~FolderNameExists(p, n, NoFolder)
     /\ CountFoldersByOwner < MaxFolders
     /\ Ask(r, [NoReq EXCEPT !.pc = "insert", !.parent = p, !.name = n, !.new = new])

CreateInsert(r, d) ==
  LET q == req[r]
      free == \A e \in Folder : Used(e) => path[e] # q.new
  IN /\ At(r, "insert") /\ fstat[d] = "unused"
     /\ IF free
        THEN /\ fstat' = [fstat EXCEPT ![d] = "active"]
             /\ parent' = [parent EXCEPT ![d] = q.parent]
             /\ fname' = [fname EXCEPT ![d] = q.name]
             /\ path' = [path EXCEPT ![d] = q.new]
             /\ Goto(r, "makeDir")
        ELSE UNCHANGED tree /\ Goto(r, "idle")
     /\ UNCHANGED <<dirs, file>>

\* Mutant: SafeRel does not look for the mark.
CreateDir_Unchecked(r) ==
  /\ At(r, "makeDir")
  /\ EnsureDir(req[r].new)
  /\ UNCHANGED <<tree, file>>
  /\ Goto(r, "idle")

\* The row is taken back when the directory is refused, under a deleted parent, or
\* cannot be made.
CreateDir(r) ==
  /\ At(r, "makeDir")
  /\ \/ FolderDirRel(req[r].new) /\ EnsureDir(req[r].new) /\ UNCHANGED tree
     \/ SoftDeleteFolderTree(req[r].new) /\ UNCHANGED dirs
  /\ UNCHANGED file
  /\ Goto(r, "idle")

\* Mutant: the new parent is not compared with the folder's descendants.
Rename_NoCycleCheck(r, d, p, n) ==
  LET new == Append(PathOf(p), Live(n))
  IN /\ Used(d) /\ (p # NoFolder => Used(p) /\ p # d)
     /\ new # path[d]
     /\ ~FolderNameExists(p, n, d)
     /\ FolderDirRel(path[d]) /\ FolderDirRel(new)
     /\ Ask(r, [NoReq EXCEPT !.pc = "renameRows", !.id = d, !.parent = p, !.name = n,
                             !.old = path[d], !.new = new])

\* Rename: a new name, a new parent, or both.
Rename(r, d, p, n) ==
  LET new == Append(PathOf(p), Live(n))
  IN /\ Used(d) /\ (p # NoFolder => Used(p) /\ p # d /\ ~IsPrefix(path[d], path[p]))
     /\ new # path[d]
     /\ ~FolderNameExists(p, n, d)
     /\ FolderDirRel(path[d]) /\ FolderDirRel(new)
     /\ Ask(r, [NoReq EXCEPT !.pc = "renameRows", !.id = d, !.parent = p, !.name = n,
                             !.old = path[d], !.new = new])

RenameRows(r) ==
  LET q == req[r]
  IN /\ At(r, "renameRows")
     /\ IF KeyHolds(RenamedPaths(q.id, q.new))
        THEN /\ RenameFolderPathWithParent(q.id, q.parent, q.name, q.new)
             /\ Goto(r, "renameFiles")
        ELSE UNCHANGED tree /\ Goto(r, "idle")
     /\ UNCHANGED <<dirs, file>>

RenameFiles(r) ==
  /\ At(r, "renameFiles")
  /\ MoveFilesPathPrefix(req[r].old, req[r].new)
  /\ UNCHANGED <<tree, dirs>>
  /\ Goto(r, "renameDir")

\* The tables have moved; what RenameDir answers changes nothing in them.
RenameOnDisk(r) ==
  /\ At(r, "renameDir")
  /\ RenameDir(req[r].old, req[r].new)
  /\ UNCHANGED tree
  /\ Goto(r, "idle")

Delete(r, d) ==
  /\ Used(d) /\ FolderDirRel(path[d])
  /\ Ask(r, [NoReq EXCEPT !.pc = "trashFiles", !.id = d, !.old = path[d]])

DeleteFiles(r) ==
  /\ At(r, "trashFiles")
  /\ SoftDeleteFilesUnderPath(req[r].old)
  /\ UNCHANGED <<tree, dirs>>
  /\ Goto(r, "trashTree")

\* The directory stays: the bytes in it can still be restored.
DeleteTree(r) ==
  /\ At(r, "trashTree")
  /\ SoftDeleteFolderTree(req[r].old)
  /\ UNCHANGED <<dirs, file>>
  /\ Goto(r, "idle")

\* A statement or a directory operation fails, or the process dies; when a directory
\* cannot be made, so does the statement that takes the row back (see CreateDir).
Fails(r) ==
  /\ req[r] # NoReq
  /\ UNCHANGED <<tree, dirs, file>>
  /\ Goto(r, "idle")

(***************************************************************************)
(* Uploads: Init fixes the directory, Complete makes the row, merges and   *)
(* names the file (the rest of an upload is in Upload).                    *)
(***************************************************************************)
Upload(x, from, to, record) ==
  /\ up[x] = from
  /\ up' = [up EXCEPT ![x] = to]
  /\ file' = [file EXCEPT ![x] = record]
  /\ UNCHANGED <<tree, req, ops>>

OpenUpload(x, d) ==
  /\ Used(d) /\ FolderDirRel(path[d])
  /\ EnsureDir(path[d])
  /\ Upload(x, "none", "open", [NoFileYet EXCEPT !.dir = path[d], !.folder = d])

CreateFile(x) ==
  /\ Upload(x, "open", "row", [file[x] EXCEPT !.status = "active", !.rel = file[x].dir])
  /\ UNCHANGED dirs

MergeTo(x) ==
  /\ EnsureDir(file[x].dir)
  /\ Upload(x, "row", "merged", [file[x] EXCEPT !.disk = file[x].dir])

\* FinishFile writes the path of the session's directory over what is there.
FinishFile(x) ==
  /\ Upload(x, "merged", "done", [file[x] EXCEPT !.rel = file[x].dir])
  /\ UNCHANGED dirs

(***************************************************************************)
(* Specification.                                                          *)
(***************************************************************************)
Requests ==
  \E r \in Request :
     \/ \E p \in Parents, n \in Name : Create(r, p, n) \/ \E d \in Folder : Rename(r, d, p, n)
     \/ \E d \in Folder : CreateInsert(r, d) \/ Delete(r, d)
     \/ CreateDir(r) \/ RenameRows(r) \/ RenameFiles(r) \/ RenameOnDisk(r)
     \/ DeleteFiles(r) \/ DeleteTree(r)

Uploads ==
  \E x \in File : \/ \E d \in Folder : OpenUpload(x, d)
                  \/ CreateFile(x) \/ MergeTo(x) \/ FinishFile(x)

DStep == Requests \/ Uploads

\* What decides the outcome of a request: the folders, and where files are said to be.
Tables == <<tree, [x \in File |-> <<file[x].rel, file[x].status>>]>>

\* Nothing is left behind by a request that fails at its first statement.
Halfway(r) == req[r].pc \notin {"idle", "insert", "renameRows", "trashFiles"}

Racing(failing) ==
  LET changed == Tables' # Tables
      acting == {r \in Request : req'[r] # req[r]} \cup {x \in File : up'[x] # up[x]}
      busy == {r \in Request : req'[r] # NoReq} \cup {x \in File : Uploading(x)'}
      starting == {r \in Request : req[r] = NoReq} \cup {x \in File : up[x] = "none"}
      split == \E r \in Request : Halfway(r)
  IN /\ raced' = {a \in busy : \/ a \in raced
                               \/ changed /\ a \notin acting
                               \/ split /\ a \in acting \cap starting}
     /\ spoiled' = (spoiled \/ failing \/ acting \cap raced # {})

DNext ==
  \/ DStep /\ Racing(FALSE)
  \/ \E r \in Request : Fails(r) /\ Racing(Halfway(r))

DSpec == DInit /\ [][DNext]_vars

(***************************************************************************)
(* Properties.                                                             *)
(***************************************************************************)
Quiet == /\ \A r \in Request : req[r] = NoReq
         /\ \A x \in File : up[x] \notin {"row", "merged"}

\* As long as no request has written over a change it did not see, and none has
\* stopped halfway, the folders form a tree: an active folder lies in an active
\* folder or the root, its path is its parent's with its name, so that no folder
\* is below itself, and a file's rel_path names its folder, whatever sequence of
\* creations, moves, deletions and uploads went before (folders.go:152-374).
SoundTree ==
  ~spoiled /\ Quiet =>
    /\ \A d \in Folder : fstat[d] = "active" =>
         /\ parent[d] # NoFolder => fstat[parent[d]] = "active"
         /\ path[d] = Append(PathOf(parent[d]), Live(fname[d]))
    /\ \A x \in File : HasRow(x) /\ fstat[file[x].folder] = "active"
                         => file[x].rel = path[file[x].folder]

\* A request that nothing raced is never turned away by the unique key on paths:
\* the mark of a deleted folder frees its name (store/folders.go:286).
KeyIsFree ==
  \A r \in Request : r \notin raced /\ ~spoiled =>
    /\ At(r, "insert") => \A d \in Folder : Used(d) => path[d] # req[r].new
    /\ At(r, "renameRows") => KeyHolds(RenamedPaths(req[r].id, req[r].new))

\* Moving and deleting folders never loses the bytes of a file: they lie in a
\* directory that exists, whoever moved it meanwhile (storage.go:359).
BytesAreKept ==
  \A x \in File : up[x] \in {"merged", "done"} /\ HasRow(x) => file[x].disk \in dirs \ {Lost}

\* The creation of a folder is taken back.
TakesBack == \E r \in Request : At(r, "makeDir") /\ req'[r] # req[r]

\* A deletion that nothing raced leaves no active file in the folders it deletes
\* (folders.go:362).
DeletionTakesFiles ==
  [][\A d \in Folder, x \in File :
       /\ fstat[d] = "active" /\ fstat'[d] = "deleted" /\ file[x].folder = d
       /\ file[x].status = "active" /\ ~spoiled /\ ~TakesBack
       => \E r \in raced \cap Request : At(r, "trashTree")]_vars

(***************************************************************************)
(* What storage.go says and RenameDir does not secure.                     *)
(***************************************************************************)

\* storage.go:357: when the path in the database changes the disk must follow, or
\* a file is recorded in one place and lies in another.
RelPathNamesBytes ==
  ~spoiled /\ Quiet =>
    \A x \in File : up[x] = "done" /\ HasRow(x) => file[x].disk = file[x].rel
=============================================================================
