---------------------------- MODULE Files_proofs ----------------------------
(***************************************************************************)
(* Proofs about Files, for every set of files, sizes, names and requests,  *)
(* and for every quota.                                                    *)
(***************************************************************************)
EXTENDS Files, FunctionTheorems, FiniteSetTheorems, TLAPS

(***************************************************************************)
(* The sum of the sizes.                                                   *)
(***************************************************************************)
LEMMA OctetsFinite ==
  ASSUME NEW files \in SUBSET File
  PROVE  IsFiniteSet(Octets(files)) /\ SizeOfAll(files) \in Nat
<1> DEFINE octets(f) == {f} \X (1 .. Size[f])
           image == [f \in files |-> octets(f)]
           all == {octets(f) : f \in files}
<1>1. ASSUME NEW f \in File PROVE IsFiniteSet(octets(f))
  <2>1. IsFiniteSet({f})
    BY FS_Singleton
  <2>2. IsFiniteSet(1 .. Size[f])
    BY FilesAssumption, FS_Interval
  <2>3. QED
    BY <2>1, <2>2, FS_Product
<1>2. IsFiniteSet(files)
  BY FilesAssumption, FS_Subset
<1>3. image \in Surjection(files, all)
  BY DEF Surjection
<1>4. IsFiniteSet(all)
  <2> HIDE DEF all, image
  <2>1. QED
    BY <1>2, <1>3, FS_Surjection
<1>5. \A T \in all : IsFiniteSet(T)
  BY <1>1
<1>6. IsFiniteSet(UNION all)
  <2> HIDE DEF all
  <2>1. QED
    BY <1>4, <1>5, FS_UNION
<1>7. QED
  BY <1>6, FS_CardinalityType DEF Octets, SizeOfAll

LEMMA SizeMonotone ==
  ASSUME NEW more \in SUBSET File, NEW files \in SUBSET more
  PROVE  SizeOfAll(files) <= SizeOfAll(more)
<1>1. Octets(files) \subseteq Octets(more)
  BY DEF Octets
<1>2. QED
  BY <1>1, OctetsFinite, FS_Subset DEF SizeOfAll

LEMMA SizeOfUnion ==
  ASSUME NEW A \in SUBSET File, NEW B \in SUBSET File
  PROVE  SizeOfAll(A \cup B) <= SizeOfAll(A) + SizeOfAll(B)
<1>1. Octets(A \cup B) = Octets(A) \cup Octets(B)
  BY DEF Octets
<1>2. IsFiniteSet(Octets(A) \cap Octets(B)) /\ Cardinality(Octets(A) \cap Octets(B)) \in Nat
  BY OctetsFinite, FS_Intersection, FS_CardinalityType
<1>3. Cardinality(Octets(A) \cup Octets(B))
        = SizeOfAll(A) + SizeOfAll(B) - Cardinality(Octets(A) \cap Octets(B))
  BY OctetsFinite, FS_Union DEF SizeOfAll
<1>4. SizeOfAll(A) \in Nat /\ SizeOfAll(B) \in Nat
  BY OctetsFinite
<1>5. SizeOfAll(A \cup B) = Cardinality(Octets(A) \cup Octets(B))
  BY <1>1 DEF SizeOfAll
<1>6. QED
  BY <1>2, <1>3, <1>4, <1>5

(***************************************************************************)
(* The inductive invariant.                                                *)
(***************************************************************************)

\* What is being purged has lost its bytes, or they were not where its path said.
CurIsGone ==
  /\ \A r \in Request : /\ req[r].cur # NoTarget => At(r, "delete")
                        /\ \A f \in bytes : req[r].cur.file = f => f \in missed
  /\ \A f \in bytes : job.cur.file = f => f \in missed

\* The files a request would make permanent.
NewlyPermanent(r) ==
  {f \in IF req[r].file = NoFile THEN Under(req[r].at) ELSE {req[r].file} :
     Active(f) /\ row[f].expires # "never"}

\* What a request keeps from its read is what the table says: the restore of a
\* permanent file writes no date; what an expiry adds is counted before it is
\* compared, and has been found to fit before it is written.
ReadIsTrue(r) ==
  /\ At(r, "restore") => (row[req[r].file].expires = "never" => req[r].expires = "never")
  /\ At(r, "stats") => req[r].file = NoFile /\ req[r].expires = "never"
  /\ At(r, "fits") => req[r].expires = "never" /\ req[r].add = SizeOfAll(NewlyPermanent(r))
  /\ At(r, "expiry") /\ req[r].expires = "never" =>
       \/ SizeOfAll(NewlyPermanent(r)) = 0
       \/ PermanentUsage + SizeOfAll(NewlyPermanent(r)) <= Quota

\* ... unless the table changed since.
ReadsAreTrue == \A r \in Request \ raced : ReadIsTrue(r)

\* A request holds what its statement needs.
Given(q) ==
  /\ q.pc \in {"rename", "trash", "restore"} => q.file \in File
  /\ q.pc = "rename" => q.name \in Names
  /\ q.pc \in {"restore", "stats", "fits", "expiry"} => q.expires \in {"never", "later"}

AllGiven == \A r \in Request : Given(req[r])

FInv == FTypeOK /\ CurIsGone /\ MissingIsBeingPurged /\ ReadsAreTrue /\ AllGiven

LEMMA NoTargetType == NoTarget \notin Target /\ \A t \in Target : t.file \in File
  BY FilesAssumption DEF NoTarget, Target

LEMMA NoReqType == NoReq \in ReqRecord /\ NoReq.cur = NoTarget /\ NoReq.pc = "idle"
  BY DEF NoReq, ReqRecord, NoTarget, Steps

LEMMA NoJobType == NoJob \in JobRecord /\ NoJob.cur = NoTarget
  BY DEF NoJob, JobRecord, NoTarget

LEMMA TargetOfType ==
  ASSUME FTypeOK, NEW f \in File
  PROVE  TargetOf(f) \in Target
  BY DEF TargetOf, Target, FTypeOK, Place

LEMMA RowStatus ==
  ASSUME FTypeOK, NEW f \in File
  PROVE  /\ Exists(f) <=> row[f] \in Row
         /\ Active(f) => row[f] \in Row
         /\ Trashed(f) => row[f] \in Row
  BY DEF FTypeOK, Exists, Active, Trashed, Row, NoRow

LEMMA FInvInit == FInit => FInv
<1> SUFFICES ASSUME FInit PROVE FInv
  OBVIOUS
<1>1. row \in [File -> Row \cup {NoRow}]
  BY DEF FInit, Row
<1>2. faults \in 0 .. MaxFaults
  BY FilesAssumption DEF FInit
<1>3. FTypeOK
  BY <1>1, <1>2, NoReqType, NoJobType DEF FInit, FTypeOK, Place
<1>4. CurIsGone
  BY NoReqType, NoJobType, NoTargetType, FilesAssumption DEF FInit, CurIsGone, NoTarget
<1>5. MissingIsBeingPurged
  BY DEF FInit, MissingIsBeingPurged
<1>6. ReadsAreTrue /\ AllGiven
  BY NoReqType DEF FInit, ReadsAreTrue, ReadIsTrue, AllGiven, Given, At
<1>7. QED
  BY <1>3, <1>4, <1>5, <1>6 DEF FInv

(***************************************************************************)
(* What a step leaves to show, by the state it changes.                    *)
(***************************************************************************)

\* The table loses rows but gains none.
NoneInserted == \A f \in File : Exists(f)' => Exists(f)

LEMMA ReadStays ==
  ASSUME FInv, Racing, NEW r \in Request, r \notin raced', req'[r] = req[r]
  PROVE  ReadIsTrue(r)'
<1>1. CASE req[r].pc \notin {"restore", "stats", "fits", "expiry"}
  BY <1>1 DEF ReadIsTrue, At
<1>2. CASE req[r].pc \in {"restore", "stats", "fits", "expiry"}
  <2>1. req[r] # NoReq
    BY <1>2, NoReqType
  <2>2. r \notin raced /\ row' = row /\ place' = place
    BY <1>2, <2>1 DEF Racing
  <2>3. ReadIsTrue(r)
    BY <2>2 DEF FInv, ReadsAreTrue
  <2>4. NewlyPermanent(r)' = NewlyPermanent(r) /\ PermanentUsage' = PermanentUsage
    BY <2>2 DEF NewlyPermanent, Under, Active, PermanentUsage
  <2>5. QED
    BY <2>2, <2>3, <2>4 DEF ReadIsTrue, At
<1>3. QED
  BY <1>1, <1>2

\* A request takes a step that removes no bytes and ends no purge.
LEMMA RequestStep ==
  ASSUME FInv, Racing, NEW r \in Request, NEW next \in ReqRecord, Become(r, next),
         ~At(r, "delete"), next.cur = NoTarget,
         row' \in [File -> Row \cup {NoRow}], NoneInserted,
         bytes' = bytes, missed' = missed, folder' \in {"active", "deleted"},
         Given(next),
         r \notin raced' => ReadIsTrue(r)'
  PROVE  FInv'
<1> USE DEF FInv
<1>1. /\ req'[r] = next /\ \A q \in Request \ {r} : req'[q] = req[q]
      /\ req' \in [Request -> ReqRecord]
      /\ job' = job /\ interrupted' = interrupted /\ place' = place /\ dirAt' = dirAt
      /\ faults' = faults /\ raced' \subseteq Request
  BY DEF Become, FTypeOK, Racing
<1>2. FTypeOK'
  BY <1>1 DEF FTypeOK
<1>3. CurIsGone'
  BY <1>1, NoTargetType, FilesAssumption DEF CurIsGone, At, FTypeOK, NoTarget
<1>4. req[r].cur = NoTarget
  BY DEF CurIsGone
<1>5. MissingIsBeingPurged'
  BY <1>1, <1>4, FilesAssumption DEF MissingIsBeingPurged, NoneInserted, NoTarget
<1>6. ReadsAreTrue'
  BY <1>1, ReadStays DEF ReadsAreTrue
<1>7. AllGiven'
  BY <1>1 DEF AllGiven, Given
<1>8. QED
  BY <1>2, <1>3, <1>5, <1>6, <1>7

\* The requests wait, and no bytes are removed.
LEMMA OtherStep ==
  ASSUME FInv, Racing, req' = req, job' \in JobRecord, job'.cur = job.cur,
         row' \in [File -> Row \cup {NoRow}], NoneInserted,
         bytes' = bytes, missed' = missed, interrupted' = interrupted, folder' = folder,
         place' \in Place, dirAt' \in Place, faults' \in 0 .. MaxFaults
  PROVE  FInv'
<1> USE DEF FInv
<1>1. FTypeOK'
  BY DEF FTypeOK, Racing
<1>2. CurIsGone'
  BY DEF CurIsGone, At
<1>3. MissingIsBeingPurged'
  BY DEF MissingIsBeingPurged, NoneInserted
<1>4. ReadsAreTrue'
  BY ReadStays DEF ReadsAreTrue
<1>5. AllGiven'
  BY DEF AllGiven, Given
<1>6. QED
  BY <1>1, <1>2, <1>3, <1>4, <1>5

(***************************************************************************)
(* The statements.                                                         *)
(***************************************************************************)

\* A table the statements may leave: typed, and without a row that was not there.
Possible(table) ==
  /\ table \in [File -> Row \cup {NoRow}]
  /\ \A f \in File : table[f] # NoRow => Exists(f)

LEMMA StatementsType ==
  ASSUME FTypeOK
  PROVE  /\ \A f \in File, name \in Names : Possible(RenameFile(f, name))
         /\ \A f \in File : Possible(MarkTrashed(f))
         /\ \A f \in File, expires \in {"never", "later"} : Possible(RestoreFile(f, expires))
         /\ \A f \in File \cup {NoFile} : Possible(DeleteFileRow(f))
         /\ \A f \in File, expires \in {"never", "later"} : Possible(SetExpiry(f, expires))
         /\ \A files : Possible(TrashUndated(files))
         /\ \A dir : \A expires \in {"never", "later"} : Possible(SetExpiryUnderPath(dir, expires))
<1> USE DEF Possible
<1>1. ASSUME NEW f \in File, NEW name \in Names PROVE Possible(RenameFile(f, name))
  BY RowStatus DEF RenameFile, Row, FTypeOK, Exists
<1>2. ASSUME NEW f \in File PROVE Possible(MarkTrashed(f))
  BY RowStatus DEF MarkTrashed, Row, FTypeOK, Exists
<1>3. ASSUME NEW f \in File, NEW expires \in {"never", "later"}
      PROVE  Possible(RestoreFile(f, expires))
  BY RowStatus DEF RestoreFile, Row, FTypeOK, Exists
<1>4. ASSUME NEW f \in File \cup {NoFile} PROVE Possible(DeleteFileRow(f))
  BY DEF DeleteFileRow, FTypeOK, Exists
<1>5. ASSUME NEW f \in File, NEW expires \in {"never", "later"} PROVE Possible(SetExpiry(f, expires))
  BY RowStatus DEF SetExpiry, Row, FTypeOK, Exists
<1>6. ASSUME NEW files PROVE Possible(TrashUndated(files))
  BY RowStatus DEF TrashUndated, Row, FTypeOK, Exists
<1>7. ASSUME NEW dir, NEW expires \in {"never", "later"}
      PROVE  Possible(SetExpiryUnderPath(dir, expires))
  BY RowStatus DEF SetExpiryUnderPath, Row, FTypeOK, Exists
<1>8. QED
  BY <1>1, <1>2, <1>3, <1>4, <1>5, <1>6, <1>7

(***************************************************************************)
(* The requests, read and check.                                           *)
(***************************************************************************)

\* What every read leaves alone.
LEMMA ReadingStep ==
  ASSUME FInv, Racing, NEW r \in Request, req[r] = NoReq, NEW next \in ReqRecord,
         Become(r, next), Reading, next.cur = NoTarget,
         Given(next),
         r \notin raced' => ReadIsTrue(r)'
  PROVE  FInv'
<1>1. row' = row /\ bytes' = bytes /\ missed' = missed /\ folder' = folder
  BY DEF Reading
<1>2. ~At(r, "delete")
  BY NoReqType DEF At
<1>3. row' \in [File -> Row \cup {NoRow}] /\ NoneInserted
  BY <1>1 DEF FInv, FTypeOK, NoneInserted, Exists
<1>4. folder' \in {"active", "deleted"}
  BY <1>1 DEF FInv, FTypeOK
<1>5. QED
  BY <1>1, <1>2, <1>3, <1>4, RequestStep

LEMMA BecomeValue ==
  ASSUME FTypeOK, NEW r \in Request, NEW next, Become(r, next)
  PROVE  req'[r] = next /\ place' = place
  BY DEF FTypeOK, Become

LEMMA RenameStep ==
  ASSUME FInv, Racing, NEW r \in Request, NEW f \in File, Rename(r, f)
  PROVE  FInv'
<1>1. PICK n \in Names : Become(r, [NoReq EXCEPT !.pc = "rename", !.file = f, !.name = n])
  BY DEF Rename
<1> DEFINE next == [NoReq EXCEPT !.pc = "rename", !.file = f, !.name = n]
<1>2. next \in ReqRecord /\ next.pc = "rename" /\ next.cur = NoTarget /\ Given(next)
  BY DEF NoReq, ReqRecord, Steps, Given
<1>3. ReadIsTrue(r)'
  BY <1>1, <1>2, BecomeValue DEF ReadIsTrue, At, FInv
<1>4. QED
  BY <1>1, <1>2, <1>3, ReadingStep DEF Rename, Reads

LEMMA SoftDeleteStep ==
  ASSUME FInv, Racing, NEW r \in Request, NEW f \in File, SoftDelete(r, f)
  PROVE  FInv'
<1> DEFINE next == [NoReq EXCEPT !.pc = "trash", !.file = f]
<1>1. next \in ReqRecord /\ next.pc = "trash" /\ next.cur = NoTarget /\ Given(next)
  BY DEF NoReq, ReqRecord, Steps, Given
<1>2. Become(r, next)
  BY DEF SoftDelete
<1>3. ReadIsTrue(r)'
  BY <1>1, <1>2, BecomeValue DEF ReadIsTrue, At, FInv
<1>4. QED
  BY <1>1, <1>2, <1>3, ReadingStep DEF SoftDelete, Reads

LEMMA RestoreStep ==
  ASSUME FInv, Racing, NEW r \in Request, NEW f \in File, Restore(r, f)
  PROVE  FInv'
<1> DEFINE e == IF row[f].expires = "never" THEN "never" ELSE "later"
           next == [NoReq EXCEPT !.pc = "restore", !.file = f, !.expires = e]
<1>1. next \in ReqRecord /\ next.pc = "restore" /\ next.cur = NoTarget
      /\ next.file = f /\ next.expires = e /\ Given(next)
  BY DEF NoReq, ReqRecord, Steps, Given
<1>2. Become(r, next) /\ row' = row
  BY DEF Restore, Reading
<1>3. ReadIsTrue(r)'
  BY <1>1, <1>2, BecomeValue DEF ReadIsTrue, At, FInv
<1>4. QED
  BY <1>1, <1>2, <1>3, ReadingStep DEF Restore, Reads

LEMMA PurgeStep ==
  ASSUME FInv, Racing, NEW r \in Request, NEW f \in File, Purge(r, f)
  PROVE  FInv'
<1> DEFINE next == [NoReq EXCEPT !.pc = "remove", !.rest = {TargetOf(f)}]
<1>1. next \in ReqRecord /\ next.pc = "remove" /\ next.cur = NoTarget /\ Given(next)
  BY TargetOfType DEF NoReq, ReqRecord, Steps, FInv, Given
<1>2. Become(r, next)
  BY DEF Purge
<1>3. ReadIsTrue(r)'
  BY <1>1, <1>2, BecomeValue DEF ReadIsTrue, At, FInv
<1>4. QED
  BY <1>1, <1>2, <1>3, ReadingStep DEF Purge, Reads

\* What one file adds is its size, and nothing when it is permanent already.
LEMMA SizeOfOne ==
  ASSUME NEW f \in File
  PROVE  SizeOfAll({f}) = Size[f] /\ SizeOfAll({}) = 0
<1>1. Octets({f}) = {f} \X (1 .. Size[f]) /\ Octets({}) = {}
  BY DEF Octets
<1>2. IsFiniteSet({f}) /\ Cardinality({f}) = 1
  BY FS_Singleton
<1>3. IsFiniteSet(1 .. Size[f]) /\ Cardinality(1 .. Size[f]) = Size[f]
  BY FilesAssumption, FS_Interval
<1>4. Cardinality({f} \X (1 .. Size[f])) = 1 * Size[f]
  BY <1>2, <1>3, FS_Product
<1>5. 1 * Size[f] = Size[f]
  BY FilesAssumption
<1>6. QED
  BY <1>1, <1>4, <1>5, FS_EmptySet DEF SizeOfAll

LEMMA SetPermanentStep ==
  ASSUME FInv, Racing, NEW r \in Request, NEW f \in File, NEW permanent \in BOOLEAN,
         SetPermanent(r, f, permanent)
  PROVE  FInv'
<1> DEFINE step == IF permanent THEN "fits" ELSE "expiry"
           e == IF permanent THEN "never" ELSE "later"
           add == IF permanent /\ row[f].expires # "never" THEN Size[f] ELSE 0
           next == [NoReq EXCEPT !.pc = step, !.file = f, !.expires = e, !.add = add]
<1>1. /\ next \in ReqRecord /\ next.pc = step /\ next.cur = NoTarget
      /\ next.file = f /\ next.expires = e /\ next.add = add /\ Given(next)
  BY FilesAssumption DEF NoReq, ReqRecord, Steps, Given
<1>2. Become(r, next) /\ row' = row /\ Active(f)
  BY DEF SetPermanent, Reading
<1>3. ReadIsTrue(r)'
  <2>1. req'[r] = next
    BY <1>2, BecomeValue DEF FInv
  <2>2. CASE permanent
    <3>1. f # NoFile
      BY FilesAssumption
    <3>2. NewlyPermanent(r)' = IF row[f].expires # "never" THEN {f} ELSE {}
      BY <1>1, <1>2, <2>1, <3>1 DEF NewlyPermanent, Active
    <3>3. SizeOfAll(NewlyPermanent(r))' = add
      BY <2>2, <3>2, SizeOfOne
    <3>4. QED
      BY <1>1, <2>1, <2>2, <3>3 DEF ReadIsTrue, At
  <2>3. CASE ~permanent
    BY <1>1, <2>1, <2>3 DEF ReadIsTrue, At
  <2>4. QED
    BY <2>2, <2>3
<1>4. QED
  BY <1>1, <1>2, <1>3, ReadingStep DEF SetPermanent, Reads

LEMMA SetFolderPermanentStep ==
  ASSUME FInv, Racing, NEW r \in Request, NEW permanent \in BOOLEAN,
         SetFolderPermanent(r, permanent)
  PROVE  FInv'
<1> DEFINE step == IF permanent THEN "stats" ELSE "expiry"
           e == IF permanent THEN "never" ELSE "later"
           next == [NoReq EXCEPT !.pc = step, !.at = place, !.expires = e]
<1>1. /\ next \in ReqRecord /\ next.pc = step /\ next.cur = NoTarget
      /\ next.file = NoFile /\ next.expires = e /\ Given(next)
  BY DEF NoReq, ReqRecord, Steps, FInv, FTypeOK, Given
<1>2. Become(r, next)
  BY DEF SetFolderPermanent
<1>3. ReadIsTrue(r)'
  <2>1. req'[r] = next
    BY <1>2, BecomeValue DEF FInv
  <2>2. /\ next.pc \notin {"restore", "fits"}
        /\ next.pc = "stats" => next.file = NoFile /\ next.expires = "never"
        /\ next.pc = "expiry" => next.expires # "never"
    BY <1>1
  <2> HIDE DEF next
  <2>3. QED
    BY <2>1, <2>2 DEF ReadIsTrue, At
<1>4. req[r] = NoReq /\ Reading
  BY DEF SetFolderPermanent
<1> HIDE DEF next
<1>5. QED
  BY <1>1, <1>2, <1>3, <1>4, ReadingStep

LEMMA DeleteFolderStep ==
  ASSUME FInv, Racing, NEW r \in Request, DeleteFolder(r)
  PROVE  FInv'
<1> DEFINE next == [NoReq EXCEPT !.pc = "trashUnder", !.at = place]
<1>1. next \in ReqRecord /\ next.pc = "trashUnder" /\ next.cur = NoTarget /\ Given(next)
  BY DEF NoReq, ReqRecord, Steps, Given, FInv, FTypeOK
<1>2. Become(r, next)
  BY DEF DeleteFolder
<1>3. ReadIsTrue(r)'
  BY <1>1, <1>2, BecomeValue DEF ReadIsTrue, At, FInv
<1>4. QED
  BY <1>1, <1>2, <1>3, ReadingStep DEF DeleteFolder

LEMMA DeleteOwnerStep ==
  ASSUME FInv, Racing, NEW r \in Request, DeleteOwner(r)
  PROVE  FInv'
<1> DEFINE next == [NoReq EXCEPT !.pc = "softDeleteAll"]
<1>1. next \in ReqRecord /\ next.pc = "softDeleteAll" /\ next.cur = NoTarget /\ Given(next)
  BY DEF NoReq, ReqRecord, Steps, Given
<1>2. Become(r, next)
  BY DEF DeleteOwner
<1>3. ReadIsTrue(r)'
  BY <1>1, <1>2, BecomeValue DEF ReadIsTrue, At, FInv
<1>4. QED
  BY <1>1, <1>2, <1>3, ReadingStep DEF DeleteOwner

LEMMA AskStep ==
  ASSUME FInv, Racing, NEW r \in Request, Ask(r)
  PROVE  FInv'
<1>1. ASSUME NEW f \in File, Rename(r, f) \/ SoftDelete(r, f) \/ Restore(r, f) \/ Purge(r, f)
      PROVE  FInv'
  BY <1>1, RenameStep, SoftDeleteStep, RestoreStep, PurgeStep
<1>2. ASSUME NEW f \in File, NEW permanent \in BOOLEAN, SetPermanent(r, f, permanent)
      PROVE  FInv'
  BY <1>2, SetPermanentStep
<1>3. ASSUME NEW permanent \in BOOLEAN, SetFolderPermanent(r, permanent)
      PROVE  FInv'
  BY <1>3, SetFolderPermanentStep
<1>4. CASE DeleteFolder(r) \/ DeleteOwner(r)
  BY <1>4, DeleteFolderStep, DeleteOwnerStep
<1>5. QED
  BY <1>1, <1>2, <1>3, <1>4 DEF Ask

(***************************************************************************)
(* The requests, their statements.                                         *)
(***************************************************************************)

\* A statement: the request has ended, or goes on elsewhere.
LEMMA WriteStep ==
  ASSUME FInv, Racing, NEW r \in Request, NEW table, NEW next \in ReqRecord,
         Write(r, table, next), Possible(table), ~At(r, "delete"),
         next.pc \in {"idle", "trashTree", "listOwned"}, next.cur = NoTarget
  PROVE  FInv'
<1>1. /\ row' = table /\ Become(r, next) /\ bytes' = bytes /\ missed' = missed
      /\ folder' = folder
  BY DEF Write
<1>2. row' \in [File -> Row \cup {NoRow}] /\ NoneInserted
  BY <1>1 DEF Possible, NoneInserted, Exists
<1>3. folder' \in {"active", "deleted"}
  BY <1>1 DEF FInv, FTypeOK
<1>4. ReadIsTrue(r)'
  BY <1>1, BecomeValue DEF ReadIsTrue, At, FInv
<1>5. Given(next)
  BY DEF Given
<1>6. QED
  BY <1>1, <1>2, <1>3, <1>4, <1>5, RequestStep

LEMMA WriteOneStep ==
  ASSUME FInv, Racing, NEW r \in Request, WriteOne(r)
  PROVE  FInv'
<1> DEFINE f == req[r].file
<1>1. Given(req[r]) /\ ~At(r, "delete")
  BY DEF FInv, AllGiven, WriteOne, At
<1>2. CASE At(r, "rename") /\ Write(r, RenameFile(f, req[r].name), NoReq)
  <2>1. Possible(RenameFile(f, req[r].name))
    BY <1>1, <1>2, StatementsType DEF Given, At, FInv
  <2>2. QED
    BY <1>1, <1>2, <2>1, NoReqType, WriteStep
<1>3. CASE At(r, "trash") /\ Write(r, MarkTrashed(f), NoReq)
  <2>1. Possible(MarkTrashed(f))
    BY <1>1, <1>3, StatementsType DEF Given, At, FInv
  <2>2. QED
    BY <1>1, <1>3, <2>1, NoReqType, WriteStep
<1>4. CASE At(r, "restore") /\ Write(r, RestoreFile(f, req[r].expires), NoReq)
  <2>1. Possible(RestoreFile(f, req[r].expires))
    BY <1>1, <1>4, StatementsType DEF Given, At, FInv
  <2>2. QED
    BY <1>1, <1>4, <2>1, NoReqType, WriteStep
<1>5. QED
  BY <1>2, <1>3, <1>4 DEF WriteOne

LEMMA WriteExpiryStep ==
  ASSUME FInv, Racing, NEW r \in Request, WriteExpiry(r)
  PROVE  FInv'
<1> DEFINE table == IF req[r].file = NoFile THEN SetExpiryUnderPath(req[r].at, req[r].expires)
                                            ELSE SetExpiry(req[r].file, req[r].expires)
<1>1. At(r, "expiry") /\ Write(r, table, NoReq) /\ ~At(r, "delete")
  BY DEF WriteExpiry, At
<1>2. req[r].expires \in {"never", "later"} /\ req[r].file \in File \cup {NoFile}
  BY <1>1 DEF FInv, FTypeOK, ReqRecord, AllGiven, Given, At
<1>3. Possible(table)
  <2>1. CASE req[r].file = NoFile
    <3>1. Possible(SetExpiryUnderPath(req[r].at, req[r].expires))
      BY <1>2, StatementsType DEF FInv
    <3>2. QED
      BY <2>1, <3>1
  <2>2. CASE req[r].file # NoFile
    BY <1>2, <2>2, StatementsType DEF FInv
  <2>3. QED
    BY <2>1, <2>2
<1> HIDE DEF table
<1>4. QED
  BY <1>1, <1>3, NoReqType, WriteStep

\* A request goes on with what it has read.
LEMMA FolderStatsStep ==
  ASSUME FInv, Racing, NEW r \in Request, FolderStats(r)
  PROVE  FInv'
<1> DEFINE add == SizeOfAll(Permanentizable(req[r].at))
           next == [req[r] EXCEPT !.pc = "fits", !.add = add]
<1>1. Under(req[r].at) \subseteq File
  BY FilesAssumption DEF Under
<1>2. add \in Nat
  BY <1>1, OctetsFinite DEF Permanentizable
<1>3. req[r] \in ReqRecord /\ req[r].pc = "stats"
  BY DEF FInv, FTypeOK, FolderStats, At
<1>4. /\ next \in ReqRecord /\ next.pc = "fits" /\ next.add = add
      /\ next.cur = req[r].cur /\ next.file = req[r].file /\ next.at = req[r].at
      /\ next.expires = req[r].expires /\ Given(next)
  BY <1>2, <1>3 DEF ReqRecord, Steps, FInv, AllGiven, Given
<1>5. /\ Become(r, next) /\ row' = row /\ bytes' = bytes /\ missed' = missed /\ folder' = folder
      /\ ~At(r, "delete")
  BY DEF FolderStats, Reading, At
<1>6. req[r].cur = NoTarget
  BY <1>5 DEF FInv, CurIsGone
<1>7. row' \in [File -> Row \cup {NoRow}] /\ NoneInserted /\ folder' \in {"active", "deleted"}
  BY <1>5 DEF FInv, FTypeOK, NoneInserted, Exists
<1>8. ASSUME r \notin raced' PROVE ReadIsTrue(r)'
  <2>1. req'[r] = next /\ place' = place
    BY <1>5, BecomeValue DEF FInv
  <2>2. r \notin raced
    BY <1>4, <1>8, <2>1 DEF Racing
  <2>3. req[r].file = NoFile /\ req[r].expires = "never"
    BY <1>3, <2>2 DEF FInv, ReadsAreTrue, ReadIsTrue, At
  <2>4. NewlyPermanent(r)' = Permanentizable(req[r].at)
    BY <1>4, <1>5, <2>1, <2>3 DEF NewlyPermanent, Permanentizable, Under, Active
  <2> HIDE DEF next
  <2>5. QED
    BY <1>4, <2>1, <2>3, <2>4 DEF ReadIsTrue, At
<1> HIDE DEF next
<1>9. QED
  BY <1>4, <1>5, <1>6, <1>7, <1>8, RequestStep

LEMMA EnsurePermanentFitsStep ==
  ASSUME FInv, Racing, NEW r \in Request, EnsurePermanentFits(r)
  PROVE  FInv'
<1> DEFINE fits == Quota > 0 /\ (req[r].add > 0 => PermanentUsage + req[r].add <= Quota)
           next == [req[r] EXCEPT !.pc = "expiry", !.add = 0]
<1>1. /\ Become(r, IF fits THEN next ELSE NoReq)
      /\ row' = row /\ bytes' = bytes /\ missed' = missed /\ folder' = folder
      /\ ~At(r, "delete")
  BY DEF EnsurePermanentFits, Reading, At
<1>2. req[r] \in ReqRecord /\ req[r].pc = "fits"
  BY DEF FInv, FTypeOK, EnsurePermanentFits, At
<1>3. req[r].cur = NoTarget
  BY <1>1 DEF FInv, CurIsGone
<1>4. row' \in [File -> Row \cup {NoRow}] /\ NoneInserted /\ folder' \in {"active", "deleted"}
  BY <1>1 DEF FInv, FTypeOK, NoneInserted, Exists
<1>5. CASE ~fits
  <2>1. Become(r, NoReq)
    BY <1>1, <1>5
  <2>2. ReadIsTrue(r)'
    BY <2>1, BecomeValue, NoReqType DEF ReadIsTrue, At, FInv
  <2>3. Given(NoReq)
    BY NoReqType DEF Given
  <2>4. QED
    BY <1>1, <1>4, <2>1, <2>2, <2>3, NoReqType, RequestStep
<1>6. CASE fits
  <2>1. /\ next \in ReqRecord /\ next.pc = "expiry"
        /\ next.cur = req[r].cur /\ next.file = req[r].file /\ next.at = req[r].at
        /\ next.expires = req[r].expires
    BY <1>2 DEF ReqRecord, Steps
  <2>2. Become(r, next)
    BY <1>1, <1>6
  <2>3. ASSUME r \notin raced' PROVE ReadIsTrue(r)'
    <3>1. req'[r] = next /\ place' = place
      BY <2>2, BecomeValue DEF FInv
    <3>2. r \notin raced
      BY <2>1, <2>3, <3>1 DEF Racing
    <3>3. req[r].expires = "never" /\ req[r].add = SizeOfAll(NewlyPermanent(r))
      BY <1>2, <3>2 DEF FInv, ReadsAreTrue, ReadIsTrue, At
    <3>4. NewlyPermanent(r)' = NewlyPermanent(r) /\ PermanentUsage' = PermanentUsage
      BY <1>1, <2>1, <3>1 DEF NewlyPermanent, Under, Active, PermanentUsage
    <3>5. req[r].add \in Nat
      BY <1>2 DEF ReqRecord
    <3>6. \/ SizeOfAll(NewlyPermanent(r)) = 0
          \/ PermanentUsage + SizeOfAll(NewlyPermanent(r)) <= Quota
      BY <1>6, <3>3, <3>5
    <3> HIDE DEF next
    <3>7. QED
      BY <2>1, <3>1, <3>4, <3>6 DEF ReadIsTrue, At
  <2>4. Given(next)
    BY <1>2, <2>1 DEF FInv, AllGiven, Given
  <2> HIDE DEF next
  <2>5. QED
    BY <1>1, <1>3, <1>4, <2>1, <2>2, <2>3, <2>4, RequestStep
<1>7. QED
  BY <1>5, <1>6

LEMMA TrashFolderStep ==
  ASSUME FInv, Racing, NEW r \in Request, TrashFolder(r)
  PROVE  FInv'
<1> DEFINE next == [NoReq EXCEPT !.pc = "trashTree"]
<1>1. next \in ReqRecord /\ next.pc = "trashTree" /\ next.cur = NoTarget
  BY DEF NoReq, ReqRecord, Steps
<1>2. ~At(r, "delete")
  BY DEF TrashFolder, At
<1>3. CASE At(r, "trashUnder") /\ Write(r, SoftDeleteFilesUnderPath(req[r].at), next)
  <2>1. Possible(SoftDeleteFilesUnderPath(req[r].at))
    BY StatementsType DEF SoftDeleteFilesUnderPath, FInv
  <2> HIDE DEF next
  <2>2. QED
    BY <1>1, <1>2, <1>3, <2>1, WriteStep
<1>4. CASE /\ At(r, "trashTree") /\ folder' = "deleted"
           /\ Become(r, NoReq) /\ UNCHANGED <<row, bytes, missed>>
  <2>1. row' \in [File -> Row \cup {NoRow}] /\ NoneInserted
    BY <1>4 DEF FInv, FTypeOK, NoneInserted, Exists
  <2>2. ReadIsTrue(r)' /\ Given(NoReq)
    BY <1>4, BecomeValue, NoReqType DEF ReadIsTrue, At, FInv, Given
  <2>3. QED
    BY <1>2, <1>4, <2>1, <2>2, NoReqType, RequestStep
<1>5. QED
  BY <1>3, <1>4 DEF TrashFolder

LEMMA ClearOwnerStep ==
  ASSUME FInv, Racing, NEW r \in Request, ClearOwner(r)
  PROVE  FInv'
<1> DEFINE listed == [NoReq EXCEPT !.pc = "listOwned"]
           targets == {TargetOf(f) : f \in ListFilesByOwner}
           purge == [NoReq EXCEPT !.pc = "remove", !.rest = targets]
           next == IF ListFilesByOwner = {} THEN NoReq ELSE purge
<1>1. listed \in ReqRecord /\ listed.pc = "listOwned" /\ listed.cur = NoTarget
  BY DEF NoReq, ReqRecord, Steps
<1>2. ~At(r, "delete")
  BY DEF ClearOwner, At
<1>3. CASE At(r, "softDeleteAll") /\ Write(r, SoftDeleteAllByOwner, listed)
  <2>1. Possible(SoftDeleteAllByOwner)
    BY StatementsType DEF SoftDeleteAllByOwner, FInv
  <2> HIDE DEF listed
  <2>2. QED
    BY <1>1, <1>2, <1>3, <2>1, WriteStep
<1>4. CASE At(r, "listOwned") /\ Become(r, next) /\ Reading
  <2>1. targets \in SUBSET Target
    BY TargetOfType DEF ListFilesByOwner, FInv
  <2>2. next \in ReqRecord /\ next.cur = NoTarget /\ next.pc \in {"idle", "remove"}
    BY <2>1, NoReqType DEF NoReq, ReqRecord, Steps
  <2>3. Given(next)
    BY <2>2 DEF Given
  <2> HIDE DEF next
  <2>4. ReadIsTrue(r)'
    BY <1>4, <2>2, BecomeValue DEF ReadIsTrue, At, FInv
  <2>5. /\ row' \in [File -> Row \cup {NoRow}] /\ NoneInserted
        /\ bytes' = bytes /\ missed' = missed /\ folder' \in {"active", "deleted"}
    BY <1>4 DEF Reading, FInv, FTypeOK, NoneInserted, Exists
  <2>6. QED
    BY <1>2, <1>4, <2>2, <2>3, <2>4, <2>5, RequestStep
<1>5. QED
  BY <1>3, <1>4 DEF ClearOwner

(***************************************************************************)
(* The purges.                                                             *)
(***************************************************************************)

\* Bytes are removed, or were looked for where they do not lie.
LEMMA RemoveType ==
  ASSUME FTypeOK, NEW t \in Target, Remove(t)
  PROVE  /\ bytes' \subseteq bytes /\ bytes \subseteq bytes' \cup {t.file}
         /\ missed \subseteq missed' /\ missed' \subseteq File
         /\ t.file \in bytes' => t.file \in missed'
  BY NoTargetType DEF Remove, FTypeOK

LEMMA PurgeBytesStep ==
  ASSUME FInv, Racing, NEW r \in Request, PurgeBytes(r)
  PROVE  FInv'
<1> USE DEF FInv
<1>1. req[r] \in ReqRecord /\ req[r].pc = "remove"
  BY DEF PurgeBytes, At, FTypeOK
<1>2. PICK t \in req[r].rest :
        Remove(t) /\ Become(r, [req[r] EXCEPT !.pc = "delete", !.rest = @ \ {t}, !.cur = t])
  BY DEF PurgeBytes
<1> DEFINE next == [req[r] EXCEPT !.pc = "delete", !.rest = @ \ {t}, !.cur = t]
<1>3. t \in Target /\ next \in ReqRecord /\ next.pc = "delete" /\ next.cur = t
  BY <1>1 DEF ReqRecord, Steps
<1>4. Become(r, next) /\ row' = row /\ folder' = folder
  BY <1>2 DEF PurgeBytes
<1> HIDE DEF next
<1>5. /\ req'[r] = next /\ \A q \in Request \ {r} : req'[q] = req[q]
      /\ req' \in [Request -> ReqRecord]
      /\ job' = job /\ interrupted' = interrupted /\ place' = place /\ dirAt' = dirAt
      /\ faults' = faults /\ raced' \subseteq Request
  BY <1>3, <1>4 DEF Become, FTypeOK, Racing
<1>6. /\ bytes' \subseteq bytes /\ bytes \subseteq bytes' \cup {t.file}
      /\ missed \subseteq missed' /\ missed' \subseteq File
      /\ t.file \in bytes' => t.file \in missed'
  BY <1>2, <1>3, RemoveType
<1>7. FTypeOK'
  BY <1>4, <1>5, <1>6 DEF FTypeOK
<1>8. CurIsGone'
  BY <1>3, <1>5, <1>6 DEF CurIsGone, At
<1>9. req[r].cur = NoTarget
  BY <1>1 DEF CurIsGone, At
<1>10. MissingIsBeingPurged'
  <2> SUFFICES ASSUME NEW f \in File, Exists(f), f \notin bytes', f \notin interrupted,
                      job.cur.file # f
               PROVE  \E q \in Request : req'[q].cur.file = f
    BY <1>4, <1>5 DEF MissingIsBeingPurged, Exists
  <2>1. CASE f = t.file
    BY <1>3, <1>5, <2>1
  <2>2. CASE f # t.file
    <3>1. PICK q \in Request : req[q].cur.file = f
      BY <1>6, <2>2 DEF MissingIsBeingPurged
    <3>2. q # r
      BY <1>9, <3>1, FilesAssumption DEF NoTarget
    <3>3. QED
      BY <1>5, <3>1, <3>2
  <2>3. QED
    BY <2>1, <2>2
<1>11. ReadsAreTrue'
  <2>1. ReadIsTrue(r)'
    BY <1>3, <1>5 DEF ReadIsTrue, At
  <2>2. QED
    BY <1>5, <2>1, ReadStays DEF ReadsAreTrue
<1>12. AllGiven'
  BY <1>3, <1>5 DEF AllGiven, Given
<1>13. QED
  BY <1>7, <1>8, <1>10, <1>11, <1>12

LEMMA PurgeRowStep ==
  ASSUME FInv, Racing, NEW r \in Request, PurgeRow(r)
  PROVE  FInv'
<1> USE DEF FInv
<1> DEFINE next == IF req[r].rest = {} THEN NoReq
                   ELSE [req[r] EXCEPT !.pc = "remove", !.cur = NoTarget]
<1>1. req[r] \in ReqRecord /\ req[r].pc = "delete"
  BY DEF PurgeRow, At, FTypeOK
<1>2. next \in ReqRecord /\ next.pc \in {"idle", "remove"} /\ next.cur = NoTarget
  <2>1. CASE req[r].rest = {}
    BY <2>1, NoReqType
  <2>2. CASE req[r].rest # {}
    <3>1. next = [req[r] EXCEPT !.pc = "remove", !.cur = NoTarget]
      BY <2>2
    <3> HIDE DEF next
    <3>2. QED
      BY <1>1, <3>1 DEF ReqRecord, Steps
  <2>3. QED
    BY <2>1, <2>2
<1>3. /\ row' = DeleteFileRow(req[r].cur.file) /\ Become(r, next)
      /\ bytes' = bytes /\ missed' = missed /\ folder' = folder
  BY DEF PurgeRow, Write
<1> HIDE DEF next
<1>4. /\ req'[r] = next /\ \A q \in Request \ {r} : req'[q] = req[q]
      /\ req' \in [Request -> ReqRecord]
      /\ job' = job /\ interrupted' = interrupted /\ place' = place /\ dirAt' = dirAt
      /\ faults' = faults /\ raced' \subseteq Request
  BY <1>2, <1>3 DEF Become, FTypeOK, Racing
<1>5. /\ row' \in [File -> Row \cup {NoRow}]
      /\ \A f \in File : Exists(f)' => Exists(f) /\ f # req[r].cur.file
  <2>1. req[r].cur.file \in File \cup {NoFile}
    BY <1>1, NoTargetType DEF ReqRecord, NoTarget
  <2>2. QED
    BY <1>3, <2>1 DEF DeleteFileRow, FTypeOK, Exists
<1>6. FTypeOK'
  BY <1>3, <1>4, <1>5 DEF FTypeOK
<1>7. CurIsGone'
  BY <1>2, <1>3, <1>4, FilesAssumption DEF CurIsGone, At, NoTarget, FTypeOK
<1>8. MissingIsBeingPurged'
  BY <1>3, <1>4, <1>5 DEF MissingIsBeingPurged
<1>9. ReadsAreTrue'
  <2>1. ReadIsTrue(r)'
    BY <1>2, <1>4 DEF ReadIsTrue, At
  <2>2. QED
    BY <1>4, <2>1, ReadStays DEF ReadsAreTrue
<1>10. AllGiven'
  BY <1>2, <1>4 DEF AllGiven, Given
<1>11. QED
  BY <1>6, <1>7, <1>8, <1>9, <1>10

LEMMA ProceedStep ==
  ASSUME FInv, Racing, NEW r \in Request, Proceed(r)
  PROVE  FInv'
  BY WriteOneStep, FolderStatsStep, EnsurePermanentFitsStep, WriteExpiryStep, TrashFolderStep,
     ClearOwnerStep, PurgeBytesStep, PurgeRowStep DEF Proceed

(***************************************************************************)
(* The folder, the tasks and time.                                         *)
(***************************************************************************)
LEMMA MoveStep ==
  ASSUME FInv, Racing, MoveRows \/ MoveDisk
  PROVE  FInv'
<1>1. /\ row' \in [File -> Row \cup {NoRow}] /\ NoneInserted
      /\ place' \in Place /\ dirAt' \in Place
  BY DEF MoveRows, MoveDisk, FInv, FTypeOK, NoneInserted, Exists
<1>2. /\ req' = req /\ job' = job /\ job' \in JobRecord /\ bytes' = bytes /\ missed' = missed
      /\ interrupted' = interrupted /\ folder' = folder
  BY DEF MoveRows, MoveDisk, FInv, FTypeOK
<1>3. faults' \in 0 .. MaxFaults
  BY DEF MoveRows, MoveDisk, FInv, FTypeOK
<1>4. QED
  BY <1>1, <1>2, <1>3, OtherStep

LEMMA StartStep ==
  ASSUME FInv, Racing, StartExpire \/ StartPurge \/ ListDue
  PROVE  FInv'
<1>1. /\ {TargetOf(f) : f \in ExpiredFiles} \subseteq Target
      /\ {TargetOf(f) : f \in ListPurgeable} \subseteq Target
  BY TargetOfType DEF ExpiredFiles, ListPurgeable, FInv
<1>2. job' \in JobRecord /\ job'.cur = job.cur
  BY <1>1 DEF StartExpire, StartPurge, ListDue, Tasking, NoJob, JobRecord, FInv, FTypeOK
<1>3. /\ req' = req /\ row' = row /\ bytes' = bytes /\ missed' = missed
      /\ interrupted' = interrupted /\ folder' = folder /\ place' = place /\ dirAt' = dirAt
  BY DEF StartExpire, StartPurge, ListDue, Tasking
<1>4. faults' = faults
  BY DEF StartExpire, StartPurge, ListDue
<1>5. QED
  BY <1>2, <1>3, <1>4, OtherStep DEF FInv, FTypeOK, NoneInserted, Exists

LEMMA ExpireOneStep ==
  ASSUME FInv, Racing, ExpireOne
  PROVE  FInv'
<1>1. PICK t \in job.rest : row' = MarkTrashed(t.file) /\ Tasking([job EXCEPT !.rest = @ \ {t}])
  BY DEF ExpireOne
<1>2. t \in Target /\ t.file \in File
  BY NoTargetType DEF FInv, FTypeOK, JobRecord
<1>3. Possible(row')
  BY <1>1, <1>2, StatementsType DEF FInv
<1>4. job' \in JobRecord /\ job'.cur = job.cur
  BY <1>1 DEF Tasking, FInv, FTypeOK, JobRecord
<1>5. /\ req' = req /\ bytes' = bytes /\ missed' = missed /\ faults' = faults
      /\ interrupted' = interrupted /\ folder' = folder /\ place' = place /\ dirAt' = dirAt
  BY <1>1 DEF ExpireOne, Tasking
<1>6. QED
  BY <1>3, <1>4, <1>5, OtherStep DEF FInv, FTypeOK, Possible, NoneInserted, Exists

LEMMA EndTaskStep ==
  ASSUME FInv, Racing, EndTask
  PROVE  FInv'
<1>1. job' \in JobRecord /\ job'.cur = job.cur
  BY NoJobType DEF EndTask, Tasking
<1>2. /\ req' = req /\ row' = row /\ bytes' = bytes /\ missed' = missed /\ faults' = faults
      /\ interrupted' = interrupted /\ folder' = folder /\ place' = place /\ dirAt' = dirAt
  BY DEF EndTask, Tasking
<1>3. QED
  BY <1>1, <1>2, OtherStep DEF FInv, FTypeOK, NoneInserted, Exists

LEMMA TaskFailsStep ==
  ASSUME FInv, Racing, NEW t \in Target, TaskFails(t)
  PROVE  FInv'
<1>1. job' \in JobRecord /\ job'.cur = job.cur
  BY DEF TaskFails, FInv, FTypeOK, JobRecord
<1>2. /\ req' = req /\ row' = row /\ bytes' = bytes /\ missed' = missed
      /\ interrupted' = interrupted /\ folder' = folder /\ place' = place /\ dirAt' = dirAt
  BY DEF TaskFails, Fault
<1>3. faults' \in 0 .. MaxFaults
  BY FilesAssumption DEF TaskFails, Fault, FInv, FTypeOK
<1>4. QED
  BY <1>1, <1>2, <1>3, OtherStep DEF FInv, FTypeOK, NoneInserted, Exists

LEMMA TimeStep ==
  ASSUME FInv, Racing, NEW f \in File, Expires(f) \/ PurgeFallsDue(f)
  PROVE  FInv'
<1>1. Possible(row')
  BY RowStatus DEF Expires, PurgeFallsDue, Possible, Row, FInv, FTypeOK, Exists
<1>2. /\ req' = req /\ job' = job /\ bytes' = bytes /\ missed' = missed
      /\ interrupted' = interrupted /\ folder' = folder /\ place' = place /\ dirAt' = dirAt
  BY DEF Expires, PurgeFallsDue
<1>3. faults' = faults
  BY DEF Expires, PurgeFallsDue
<1>4. QED
  BY <1>1, <1>2, <1>3, OtherStep DEF FInv, FTypeOK, Possible, NoneInserted, Exists

LEMMA PurgeTaskBytesStep ==
  ASSUME FInv, Racing, PurgeTaskBytes
  PROVE  FInv'
<1> USE DEF FInv
<1>1. PICK t \in job.rest : Remove(t) /\ Tasking([job EXCEPT !.rest = @ \ {t}, !.cur = t])
  BY DEF PurgeTaskBytes
<1>2. t \in Target
  BY DEF FTypeOK, JobRecord
<1>3. job' \in JobRecord /\ job'.cur = t
  BY <1>1, <1>2 DEF Tasking, FTypeOK, JobRecord
<1>4. /\ req' = req /\ row' = row /\ faults' = faults
      /\ interrupted' = interrupted /\ folder' = folder /\ place' = place /\ dirAt' = dirAt
  BY <1>1 DEF PurgeTaskBytes, Tasking
<1>5. /\ bytes' \subseteq bytes /\ bytes \subseteq bytes' \cup {t.file}
      /\ missed \subseteq missed' /\ missed' \subseteq File
      /\ t.file \in bytes' => t.file \in missed'
  BY <1>1, <1>2, RemoveType
<1>6. FTypeOK'
  BY <1>3, <1>4, <1>5 DEF FTypeOK, Racing
<1>7. CurIsGone'
  BY <1>3, <1>4, <1>5 DEF CurIsGone, At
<1>8. MissingIsBeingPurged'
  <2> SUFFICES ASSUME NEW f \in File, Exists(f), f \notin bytes', f \notin interrupted, f # t.file
               PROVE  \E r \in Request : req[r].cur.file = f
    BY <1>3, <1>4 DEF MissingIsBeingPurged, Exists
  <2>1. f \notin bytes
    BY <1>5
  <2>2. job.cur.file # f
    BY FilesAssumption DEF PurgeTaskBytes, NoTarget
  <2>3. QED
    BY <2>1, <2>2 DEF MissingIsBeingPurged
<1>9. ReadsAreTrue'
  BY <1>4, ReadStays DEF ReadsAreTrue
<1>10. AllGiven'
  BY <1>4 DEF AllGiven, Given
<1>11. QED
  BY <1>6, <1>7, <1>8, <1>9, <1>10

LEMMA PurgeTaskRowStep ==
  ASSUME FInv, Racing, PurgeTaskRow
  PROVE  FInv'
<1> USE DEF FInv
<1>1. job.cur \in Target /\ job.cur.file \in File
  BY NoTargetType DEF PurgeTaskRow, FTypeOK, JobRecord
<1>2. job' \in JobRecord /\ job'.cur = NoTarget
  BY DEF PurgeTaskRow, Tasking, FTypeOK, JobRecord
<1>3. /\ req' = req /\ faults' = faults /\ bytes' = bytes /\ missed' = missed
      /\ interrupted' = interrupted /\ folder' = folder /\ place' = place /\ dirAt' = dirAt
  BY DEF PurgeTaskRow, Tasking
<1>4. /\ row' \in [File -> Row \cup {NoRow}]
      /\ \A f \in File : Exists(f)' => Exists(f) /\ f # job.cur.file
  BY <1>1 DEF PurgeTaskRow, DeleteFileRow, FTypeOK, Exists
<1>5. FTypeOK'
  BY <1>2, <1>3, <1>4 DEF FTypeOK, Racing
<1>6. CurIsGone'
  BY <1>2, <1>3, FilesAssumption DEF CurIsGone, At, NoTarget, FTypeOK
<1>7. MissingIsBeingPurged'
  BY <1>3, <1>4 DEF MissingIsBeingPurged
<1>8. ReadsAreTrue'
  BY <1>3, ReadStays DEF ReadsAreTrue
<1>9. AllGiven'
  BY <1>3 DEF AllGiven, Given
<1>10. QED
  BY <1>5, <1>6, <1>7, <1>8, <1>9

LEMMA WorkStep ==
  ASSUME FInv, Racing, Work
  PROVE  FInv'
  BY ExpireOneStep, StartStep, PurgeTaskBytesStep, PurgeTaskRowStep, EndTaskStep DEF Work

(***************************************************************************)
(* Failures.                                                               *)
(***************************************************************************)
LEMMA FaultType ==
  ASSUME FTypeOK, Fault
  PROVE  /\ faults' \in 0 .. MaxFaults
         /\ row' = row /\ bytes' = bytes /\ missed' = missed
         /\ place' = place /\ dirAt' = dirAt /\ folder' = folder
  BY FilesAssumption DEF FTypeOK, Fault

LEMMA InterruptType ==
  ASSUME FTypeOK, NEW targets \in SUBSET (Target \cup {NoTarget}), Interrupt(targets)
  PROVE  /\ interrupted' \subseteq File /\ interrupted \subseteq interrupted'
         /\ \A f \in File : (\E t \in targets : t.file = f) => f \in interrupted'
  BY NoTargetType, FilesAssumption DEF FTypeOK, Interrupt, NoTarget

\* What a fault cuts short is interrupted, whatever it cuts short.
LEMMA CutShort ==
  ASSUME FInv, Racing, FTypeOK', row' = row, bytes' = bytes, missed' = missed,
         interrupted \subseteq interrupted',
         \A r \in Request : \/ req'[r] = req[r]
                            \/ req'[r] = NoReq /\ \A f \in File : req[r].cur.file = f => f \in interrupted',
         \/ job'.cur = job.cur
         \/ job'.cur = NoTarget /\ \A f \in File : job.cur.file = f => f \in interrupted'
  PROVE  FInv'
<1> USE DEF FInv
<1>1. CurIsGone'
  BY NoReqType, FilesAssumption DEF CurIsGone, At, NoTarget, FTypeOK
<1>2. MissingIsBeingPurged'
  <2> SUFFICES ASSUME NEW f \in File, Exists(f), f \notin bytes, f \notin interrupted',
                      job'.cur.file # f
               PROVE  \E r \in Request : req'[r].cur.file = f
    BY DEF MissingIsBeingPurged, Exists
  <2>1. job.cur.file # f
    BY DEF NoTarget
  <2>2. PICK r \in Request : req[r].cur.file = f
    BY <2>1 DEF MissingIsBeingPurged
  <2>3. QED
    BY <2>2
<1>3. ReadsAreTrue'
  <2>1. ASSUME NEW r \in Request, r \notin raced' PROVE ReadIsTrue(r)'
    <3>1. CASE req'[r] = req[r]
      BY <2>1, <3>1, ReadStays
    <3>2. CASE req'[r] = NoReq
      BY <3>2, NoReqType DEF ReadIsTrue, At
    <3>3. QED
      BY <3>1, <3>2
  <2>2. QED
    BY <2>1 DEF ReadsAreTrue
<1>4. AllGiven'
  BY NoReqType DEF AllGiven, Given
<1>5. QED
  BY <1>1, <1>2, <1>3, <1>4

LEMMA FailsStep ==
  ASSUME FInv, Racing, NEW r \in Request, Fails(r)
  PROVE  FInv'
<1>1. {req[r].cur} \subseteq Target \cup {NoTarget}
  BY DEF FInv, FTypeOK, ReqRecord
<1>2. /\ interrupted' \subseteq File /\ interrupted \subseteq interrupted'
      /\ \A f \in File : req[r].cur.file = f => f \in interrupted'
  BY <1>1, InterruptType DEF Fails, FInv
<1>3. /\ faults' \in 0 .. MaxFaults
      /\ row' = row /\ bytes' = bytes /\ missed' = missed
      /\ place' = place /\ dirAt' = dirAt /\ folder' = folder
  BY FaultType DEF Fails, FInv
<1>4. job' = job /\ req' = [req EXCEPT ![r] = NoReq]
  BY DEF Fails
<1>5. FTypeOK'
  BY <1>2, <1>3, <1>4, NoReqType DEF FInv, FTypeOK, Racing
<1>6. req'[r] = NoReq /\ \A q \in Request \ {r} : req'[q] = req[q]
  BY <1>4 DEF FInv, FTypeOK
<1>7. QED
  BY <1>2, <1>3, <1>4, <1>5, <1>6, CutShort

LEMMA TaskRowFailsStep ==
  ASSUME FInv, Racing, TaskRowFails
  PROVE  FInv'
<1>1. {job.cur} \subseteq Target \cup {NoTarget}
  BY DEF FInv, FTypeOK, JobRecord
<1>2. /\ interrupted' \subseteq File /\ interrupted \subseteq interrupted'
      /\ \A f \in File : job.cur.file = f => f \in interrupted'
  BY <1>1, InterruptType DEF TaskRowFails, FInv
<1>3. /\ faults' \in 0 .. MaxFaults
      /\ row' = row /\ bytes' = bytes /\ missed' = missed
      /\ place' = place /\ dirAt' = dirAt /\ folder' = folder
  BY FaultType DEF TaskRowFails, FInv
<1>4. req' = req /\ job' \in JobRecord /\ job'.cur = NoTarget
  BY NoJobType DEF TaskRowFails, FInv, FTypeOK, JobRecord
<1>5. FTypeOK'
  BY <1>2, <1>3, <1>4 DEF FInv, FTypeOK, Racing
<1>6. QED
  BY <1>2, <1>3, <1>4, <1>5, CutShort

LEMMA CrashStep ==
  ASSUME FInv, Racing, Crash
  PROVE  FInv'
<1> DEFINE targets == {req[r].cur : r \in Request} \cup {job.cur}
<1>1. targets \subseteq Target \cup {NoTarget}
  BY DEF FInv, FTypeOK, ReqRecord, JobRecord
<1>2. /\ interrupted' \subseteq File /\ interrupted \subseteq interrupted'
      /\ \A f \in File : (\E t \in targets : t.file = f) => f \in interrupted'
  <2> HIDE DEF targets
  <2>1. Interrupt(targets)
    BY DEF Crash, targets
  <2>2. QED
    BY <1>1, <2>1, InterruptType DEF FInv
<1>3. /\ faults' \in 0 .. MaxFaults
      /\ row' = row /\ bytes' = bytes /\ missed' = missed
      /\ place' = place /\ dirAt' = dirAt /\ folder' = folder
  BY FaultType DEF Crash, FInv
<1>4. req' = [r \in Request |-> NoReq] /\ job' = NoJob
  BY DEF Crash
<1>5. FTypeOK'
  BY <1>2, <1>3, <1>4, NoReqType, NoJobType DEF FInv, FTypeOK, Racing
<1>6. /\ \A f \in File : job.cur.file = f => f \in interrupted'
      /\ \A r \in Request : \A f \in File : req[r].cur.file = f => f \in interrupted'
  BY <1>2
<1>7. QED
  BY <1>2, <1>3, <1>4, <1>5, <1>6, NoJobType, CutShort

LEMMA FInvStep == FInv /\ [FNext]_vars => FInv'
<1> SUFFICES ASSUME FInv, [FNext]_vars PROVE FInv'
  OBVIOUS
<1>1. CASE UNCHANGED vars
  <2>1. FTypeOK' /\ CurIsGone' /\ MissingIsBeingPurged' /\ AllGiven'
    BY <1>1 DEF vars, FInv, FTypeOK, CurIsGone, MissingIsBeingPurged, AllGiven, Given, At, Exists
  <2>2. ReadsAreTrue'
    BY <1>1 DEF vars, FInv, ReadsAreTrue, ReadIsTrue, NewlyPermanent, PermanentUsage, Under, Active, At
  <2>3. QED
    BY <2>1, <2>2 DEF FInv
<1>2. CASE FNext
  <2>1. Racing
    BY <1>2 DEF FNext
  <2>2. ASSUME NEW r \in Request, Ask(r) \/ Proceed(r) \/ Fails(r) PROVE FInv'
    BY <2>1, <2>2, AskStep, ProceedStep, FailsStep
  <2>3. CASE MoveRows \/ MoveDisk
    BY <2>1, <2>3, MoveStep
  <2>4. CASE StartExpire \/ StartPurge \/ Work
    BY <2>1, <2>4, StartStep, WorkStep
  <2>5. CASE TaskRowFails \/ Crash
    BY <2>1, <2>5, TaskRowFailsStep, CrashStep
  <2>6. ASSUME NEW t \in Target, TaskFails(t) PROVE FInv'
    BY <2>1, <2>6, TaskFailsStep
  <2>7. ASSUME NEW f \in File, Expires(f) \/ PurgeFallsDue(f) PROVE FInv'
    BY <2>1, <2>7, TimeStep
  <2>8. QED
    BY <1>2, <2>2, <2>3, <2>4, <2>5, <2>6, <2>7 DEF FNext, Step
<1>3. QED
  BY <1>1, <1>2

LEMMA FInvHolds == FSpec => []FInv
  BY FInvInit, FInvStep, PTL DEF FSpec

\* Types of the table, the data directory, the requests and the tasks.
THEOREM FilesTypeCorrect == FSpec => []FTypeOK
  BY FInvHolds, PTL DEF FInv

\* A row without bytes is on its way out (Purge, RunPurge).
THEOREM MissingBeingPurged == FSpec => []MissingIsBeingPurged
  BY FInvHolds, PTL DEF FInv

(***************************************************************************)
(* What a step may not do.                                                 *)
(***************************************************************************)

\* The steps that write the table, and what they leave in it.
LEMMA Writes ==
  ASSUME FTypeOK, Step, row' # row
  PROVE  \/ \E r \in Request :
              \/ At(r, "rename") /\ row' = RenameFile(req[r].file, req[r].name)
              \/ At(r, "trash") /\ row' = MarkTrashed(req[r].file)
              \/ At(r, "restore") /\ row' = RestoreFile(req[r].file, req[r].expires) /\ req'[r] = NoReq
              \/ WriteExpiry(r) /\ req'[r] = NoReq
              \/ \E files : row' = TrashUndated(files)
              \/ At(r, "delete") /\ row' = DeleteFileRow(req[r].cur.file)
         \/ \E t \in job.rest : row' = MarkTrashed(t.file)
         \/ job.cur # NoTarget /\ row' = DeleteFileRow(job.cur.file)
         \/ \E f \in File : Expires(f) \/ PurgeFallsDue(f)
<1>1. ASSUME NEW r \in Request, Ask(r) PROVE row' = row
  BY <1>1 DEF Ask, Rename, SoftDelete, Restore, Purge, SetPermanent, SetFolderPermanent,
              DeleteFolder, DeleteOwner, Reading
<1>2. ASSUME NEW r \in Request, Fails(r) PROVE row' = row
  BY <1>2 DEF Fails, Fault
<1>3. (MoveRows \/ MoveDisk \/ StartExpire \/ StartPurge \/ ListDue \/ PurgeTaskBytes
         \/ EndTask \/ TaskRowFails \/ Crash) => row' = row
  BY DEF MoveRows, MoveDisk, StartExpire, StartPurge, ListDue, PurgeTaskBytes, EndTask, TaskRowFails,
         Crash, Fault
<1>4. ASSUME NEW t \in Target, TaskFails(t) PROVE row' = row
  BY <1>4 DEF TaskFails, Fault
<1>5. ASSUME NEW r \in Request, Proceed(r)
      PROVE  \/ row' = row
             \/ At(r, "rename") /\ row' = RenameFile(req[r].file, req[r].name)
             \/ At(r, "trash") /\ row' = MarkTrashed(req[r].file)
             \/ At(r, "restore") /\ row' = RestoreFile(req[r].file, req[r].expires) /\ req'[r] = NoReq
             \/ WriteExpiry(r) /\ req'[r] = NoReq
             \/ \E files : row' = TrashUndated(files)
             \/ At(r, "delete") /\ row' = DeleteFileRow(req[r].cur.file)
  <2>1. CASE WriteOne(r)
    BY <2>1 DEF WriteOne, Write, Become, FTypeOK
  <2>2. CASE FolderStats(r) \/ EnsurePermanentFits(r) \/ PurgeBytes(r)
    BY <2>2 DEF FolderStats, EnsurePermanentFits, PurgeBytes, Reading
  <2>3. CASE WriteExpiry(r)
    BY <2>3 DEF WriteExpiry, Write, Become, FTypeOK
  <2>4. CASE TrashFolder(r)
    BY <2>4 DEF TrashFolder, Write, SoftDeleteFilesUnderPath
  <2>5. CASE ClearOwner(r)
    BY <2>5 DEF ClearOwner, Write, Reading, SoftDeleteAllByOwner
  <2>6. CASE PurgeRow(r)
    BY <2>6 DEF PurgeRow, Write
  <2>7. QED
    BY <1>5, <2>1, <2>2, <2>3, <2>4, <2>5, <2>6 DEF Proceed
<1>6. Work => \/ row' = row
              \/ \E t \in job.rest : row' = MarkTrashed(t.file)
              \/ job.cur # NoTarget /\ row' = DeleteFileRow(job.cur.file)
  BY <1>3 DEF Work, ExpireOne, PurgeTaskRow
<1>7. QED
  BY <1>1, <1>2, <1>3, <1>4, <1>5, <1>6 DEF Step

\* What becomes of one row: it is renamed or trashed, restored, given an expiry,
\* deleted by a request or a task, or it ages.
LEMMA RowChanges ==
  ASSUME FTypeOK, Step, NEW f \in File, row'[f] # row[f]
  PROVE  \/ Active(f) /\ row'[f] # NoRow /\ row'[f].expires = row[f].expires
         \/ /\ Trashed(f) /\ row'[f] # NoRow /\ row'[f].status = "active"
            /\ \E r \in Request : /\ At(r, "restore") /\ req[r].file = f /\ req'[r] = NoReq
                                  /\ row'[f].expires = req[r].expires
         \/ /\ Exists(f) /\ row'[f] # NoRow
            /\ row'[f].name = row[f].name /\ row'[f].purge = row[f].purge
            /\ \E r \in Request : /\ WriteExpiry(r) /\ req'[r] = NoReq
                                  /\ row'[f].expires = req[r].expires
         \/ row'[f] = NoRow /\ \E r \in Request : At(r, "delete") /\ req[r].cur.file = f
         \/ row'[f] = NoRow /\ job.cur.file = f
         \/ /\ Active(f) /\ row[f].expires = "later"
            /\ row'[f] # NoRow /\ row'[f].expires = "due"
         \/ /\ Trashed(f) /\ row'[f] # NoRow /\ row'[f].name = row[f].name
            /\ row'[f].status = "trashed" /\ row'[f].purge = "due"
            /\ row'[f].expires = row[f].expires
<1>1. row' # row
  OBVIOUS
<1>2. ASSUME NEW r \in Request, At(r, "rename"), row' = RenameFile(req[r].file, req[r].name)
      PROVE  Active(f) /\ row'[f] # NoRow /\ row'[f].expires = row[f].expires
  <2>1. Active(f) /\ row'[f] = [row[f] EXCEPT !.name = req[r].name]
    BY <1>2 DEF RenameFile, FTypeOK
  <2>2. QED
    BY <2>1, RowStatus DEF Row, NoRow
<1>3. ASSUME NEW g, row' = MarkTrashed(g)
      PROVE  Active(f) /\ row'[f] # NoRow /\ row'[f].expires = row[f].expires
  <2>1. Active(f) /\ row'[f] = [row[f] EXCEPT !.status = "trashed", !.purge = "later"]
    BY <1>3 DEF MarkTrashed, FTypeOK
  <2>2. QED
    BY <2>1, RowStatus DEF Row, NoRow
<1>4. ASSUME NEW r \in Request, row' = RestoreFile(req[r].file, req[r].expires)
      PROVE  /\ Trashed(f) /\ row'[f] # NoRow /\ row'[f].status = "active"
             /\ req[r].file = f /\ row'[f].expires = req[r].expires
  <2>1. /\ Trashed(f) /\ req[r].file = f
        /\ row'[f] = [row[f] EXCEPT !.status = "active", !.purge = "none",
                                    !.expires = req[r].expires]
    BY <1>4 DEF RestoreFile, FTypeOK
  <2>2. QED
    BY <2>1, RowStatus DEF Row, NoRow
<1>5. ASSUME NEW r \in Request, WriteExpiry(r)
      PROVE  /\ Exists(f) /\ row'[f] # NoRow
             /\ row'[f].name = row[f].name /\ row'[f].purge = row[f].purge
             /\ row'[f].expires = req[r].expires
  <2>1. Exists(f) /\ row'[f] = [row[f] EXCEPT !.expires = req[r].expires]
    <3>1. CASE row' = SetExpiryUnderPath(req[r].at, req[r].expires)
      BY <3>1, RowStatus DEF SetExpiryUnderPath, Exists, Row, NoRow
    <3>2. CASE row' = SetExpiry(req[r].file, req[r].expires)
      BY <3>2 DEF SetExpiry, FTypeOK
    <3>3. QED
      BY <1>5, <3>1, <3>2 DEF WriteExpiry, Write
  <2>2. QED
    BY <2>1, RowStatus DEF Row, NoRow
<1>6. ASSUME NEW files, row' = TrashUndated(files)
      PROVE  Active(f) /\ row'[f] # NoRow /\ row'[f].expires = row[f].expires
  <2>1. Active(f) /\ row'[f] = [row[f] EXCEPT !.status = "trashed", !.purge = "none"]
    BY <1>6 DEF TrashUndated
  <2>2. QED
    BY <2>1, RowStatus DEF Row, NoRow
<1>7. ASSUME NEW g, row' = DeleteFileRow(g) PROVE g = f /\ row'[f] = NoRow
  BY <1>7 DEF DeleteFileRow, FTypeOK
<1>8. ASSUME NEW g \in File, Expires(g)
      PROVE  Active(f) /\ row[f].expires = "later" /\ row'[f] # NoRow /\ row'[f].expires = "due"
  <2>1. Active(f) /\ row[f].expires = "later" /\ row'[f] = [row[f] EXCEPT !.expires = "due"]
    BY <1>8 DEF Expires, FTypeOK
  <2>2. QED
    BY <2>1, RowStatus DEF Row, NoRow
<1>9. ASSUME NEW g \in File, PurgeFallsDue(g)
      PROVE  /\ Trashed(f) /\ row'[f] # NoRow /\ row'[f].name = row[f].name
             /\ row'[f].status = "trashed" /\ row'[f].purge = "due"
             /\ row'[f].expires = row[f].expires
  <2>1. Trashed(f) /\ row'[f] = [row[f] EXCEPT !.purge = "due"]
    BY <1>9 DEF PurgeFallsDue, FTypeOK
  <2>2. QED
    BY <2>1, RowStatus DEF Row, NoRow, Trashed
<1>10. QED
  BY <1>1, <1>2, <1>3, <1>4, <1>5, <1>6, <1>7, <1>8, <1>9, Writes

\* A row is deleted only after the bytes it names (Purge, PurgeByOwner, RunPurge).
THEOREM PurgeLeavesNone == FSpec => PurgeLeavesNoBytes
<1> DEFINE P == \A f \in File : Exists(f) /\ row'[f] = NoRow /\ f \in bytes => f \in missed
<1>1. ASSUME FInv, [FNext]_vars PROVE [P]_vars
  <2> SUFFICES ASSUME Step, NEW f \in File, Exists(f), row'[f] = NoRow, f \in bytes
               PROVE  f \in missed
    BY <1>1 DEF FNext
  <2>1. row[f] \in Row /\ row'[f] # row[f]
    BY <1>1, RowStatus DEF FInv, Exists
  <2>2. \/ \E r \in Request : At(r, "delete") /\ req[r].cur.file = f
        \/ job.cur.file = f
    BY <1>1, <2>1, RowChanges DEF FInv
  <2>3. QED
    BY <1>1, <2>2 DEF FInv, CurIsGone
<1>2. QED
  BY <1>1, FInvHolds, PTL DEF FSpec, PurgeLeavesNoBytes

\* What is in the recycle bin stays as it was put there (MarkTrashed, RenameFile).
THEOREM TrashedFrozen == FSpec => TrashedIsFrozen
<1> DEFINE P == \A f \in File : Trashed(f) /\ row'[f].status = "trashed" =>
                  /\ row'[f].name = row[f].name
                  /\ row'[f].purge # row[f].purge => row'[f].purge = "due"
<1>1. ASSUME FInv, [FNext]_vars PROVE [P]_vars
  <2> SUFFICES ASSUME Step, NEW f \in File, Trashed(f), row'[f].status = "trashed",
                      row'[f] # row[f]
               PROVE  /\ row'[f].name = row[f].name
                      /\ row'[f].purge # row[f].purge => row'[f].purge = "due"
    BY <1>1 DEF FNext
  <2>1. ~Active(f)
    BY DEF Active, Trashed
  <2>2. row'[f] # NoRow
    BY DEF NoRow
  <2>3. QED
    BY <1>1, <2>1, <2>2, RowChanges DEF FInv
<1>2. QED
  BY <1>1, FInvHolds, PTL DEF FSpec, TrashedIsFrozen

\* A permanent file stays permanent until a request for a term ends it (Restore).
THEOREM PermanenceKept == FSpec => PermanenceIsKept
<1> DEFINE P == \A f \in File :
       (Exists(f) /\ row[f].expires = "never" /\ row'[f] # NoRow /\ row'[f].expires # "never") =>
          \/ \E r \in Request : At(r, "expiry") /\ req[r].expires = "later" /\ req'[r] = NoReq
          \/ \E r \in raced : At(r, "restore") /\ req'[r] = NoReq
<1>1. ASSUME FInv, [FNext]_vars PROVE [P]_vars
  <2> SUFFICES ASSUME Step, NEW f \in File, Exists(f), row[f].expires = "never",
                      row'[f] # NoRow, row'[f].expires # "never"
               PROVE  \/ \E r \in Request : /\ At(r, "expiry") /\ req[r].expires = "later"
                                            /\ req'[r] = NoReq
                      \/ \E r \in raced : At(r, "restore") /\ req'[r] = NoReq
    BY <1>1 DEF FNext
  <2>1. row[f] \in Row /\ row'[f] # row[f]
    BY <1>1, RowStatus DEF FInv
  <2>2. CASE \E r \in Request : /\ At(r, "restore") /\ req[r].file = f /\ req'[r] = NoReq
                                /\ row'[f].expires = req[r].expires
    BY <1>1, <2>2 DEF FInv, ReadsAreTrue, ReadIsTrue
  <2>3. CASE \E r \in Request : /\ WriteExpiry(r) /\ req'[r] = NoReq
                                /\ row'[f].expires = req[r].expires
    BY <1>1, <2>3 DEF FInv, AllGiven, Given, At, WriteExpiry
  <2>4. QED
    BY <1>1, <2>1, <2>2, <2>3, RowChanges DEF FInv
<1>2. QED
  BY <1>1, FInvHolds, PTL DEF FSpec, PermanenceIsKept

\* The space of permanent files outgrows its quota only by a restore, or by a
\* request the table changed under (ensurePermanentFits).
THEOREM QuotaOverrunRaced == FSpec => QuotaOverrunIsRaced
<1> DEFINE P == PermanentUsage' > PermanentUsage /\ PermanentUsage' > Quota =>
                  \E r \in Request : /\ req'[r] # req[r]
                                     /\ At(r, "restore") \/ (At(r, "expiry") /\ r \in raced)
           permanent == {f \in File : Active(f) /\ row[f].expires = "never"}
<1>1. ASSUME FInv, [FNext]_vars PROVE [P]_vars
  <2> SUFFICES ASSUME Step, PermanentUsage' > PermanentUsage, PermanentUsage' > Quota
               PROVE  \E r \in Request : /\ req'[r] # req[r]
                                         /\ At(r, "restore") \/ (At(r, "expiry") /\ r \in raced)
    BY <1>1 DEF FNext
  <2> USE <1>1 DEF FInv
  <2>1. /\ PermanentUsage = SizeOfAll(permanent) /\ PermanentUsage' = SizeOfAll(permanent')
        /\ PermanentUsage \in Nat /\ PermanentUsage' \in Nat
    BY OctetsFinite DEF PermanentUsage
  <2>2. ~(permanent' \subseteq permanent)
    BY <2>1, SizeMonotone
  <2>3. PICK f \in File : f \in permanent' /\ f \notin permanent
    BY <2>2
  <2>4. row'[f] # row[f] /\ row'[f].status = "active" /\ row'[f].expires = "never"
    BY <2>3 DEF Active
  <2>5. CASE \E r \in Request : At(r, "restore") /\ req'[r] = NoReq
    BY <2>5, NoReqType DEF At
  <2>6. ASSUME NEW r \in Request, WriteExpiry(r), req'[r] = NoReq,
               row'[f].expires = req[r].expires
        PROVE  At(r, "expiry") /\ req'[r] # req[r] /\ r \in raced
    <3>1. At(r, "expiry") /\ req'[r] # req[r]
      BY <2>6, NoReqType DEF WriteExpiry, At
    <3>3. req[r].expires = "never"
      BY <2>4, <2>6
    <3>4. SUFFICES ASSUME r \notin raced PROVE FALSE
      BY <3>1
    <3>5. \/ SizeOfAll(NewlyPermanent(r)) = 0
          \/ PermanentUsage + SizeOfAll(NewlyPermanent(r)) <= Quota
      BY <3>1, <3>3, <3>4 DEF ReadsAreTrue, ReadIsTrue
    <3>6. permanent' \subseteq permanent \cup NewlyPermanent(r)
      <4> SUFFICES ASSUME NEW g \in File, g \in permanent', g \notin permanent
                   PROVE  g \in NewlyPermanent(r)
        OBVIOUS
      <4>1. row'[g] # row[g] /\ row'[g].status = "active"
        BY DEF Active
      <4>2. CASE req[r].file = NoFile
        <5>1. row' = SetExpiryUnderPath(req[r].at, req[r].expires)
          BY <2>6, <4>2 DEF WriteExpiry, Write
        <5>2. g \in Under(req[r].at) /\ Active(g)
          BY <4>1, <5>1 DEF SetExpiryUnderPath
        <5>3. QED
          BY <4>2, <5>2 DEF NewlyPermanent
      <4>3. CASE req[r].file # NoFile
        <5>1. row' = SetExpiry(req[r].file, req[r].expires)
          BY <2>6, <4>3 DEF WriteExpiry, Write
        <5>2. g = req[r].file /\ Exists(g) /\ row'[g] = [row[g] EXCEPT !.expires = req[r].expires]
          BY <4>1, <5>1 DEF SetExpiry, FTypeOK
        <5>3. Active(g)
          BY <4>1, <5>2, RowStatus DEF Row, Active
        <5>4. QED
          BY <4>3, <5>2, <5>3 DEF NewlyPermanent
      <4>4. QED
        BY <4>2, <4>3
    <3>7. NewlyPermanent(r) \subseteq File /\ permanent \subseteq File
      BY FilesAssumption DEF NewlyPermanent, Under, FTypeOK, ReqRecord
    <3>8. /\ SizeOfAll(permanent') <= SizeOfAll(permanent \cup NewlyPermanent(r))
          /\ SizeOfAll(permanent \cup NewlyPermanent(r))
               <= SizeOfAll(permanent) + SizeOfAll(NewlyPermanent(r))
          /\ SizeOfAll(permanent \cup NewlyPermanent(r)) \in Nat
          /\ SizeOfAll(NewlyPermanent(r)) \in Nat
      BY <3>6, <3>7, SizeMonotone, SizeOfUnion, OctetsFinite
    <3>9. QED
      BY <2>1, <3>5, <3>8, FilesAssumption
  <2>7. row'[f] # NoRow
    BY <2>4 DEF NoRow
  <2>8. \/ \E r \in Request : At(r, "restore") /\ req'[r] = NoReq
        \/ \E r \in Request : /\ WriteExpiry(r) /\ req'[r] = NoReq
                              /\ row'[f].expires = req[r].expires
    BY <2>3, <2>4, <2>7, RowChanges DEF Active, Trashed
  <2>9. QED
    BY <2>5, <2>6, <2>8
<1>2. QED
  BY <1>1, FInvHolds, PTL DEF FSpec, QuotaOverrunIsRaced
=============================================================================
