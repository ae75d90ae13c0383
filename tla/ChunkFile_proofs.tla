--------------------------- MODULE ChunkFile_proofs ---------------------------
(***************************************************************************)
(* Proofs about ChunkFile, for every number of overlapping PUTs and blocks.*)
(***************************************************************************)
EXTENDS ChunkFile, FiniteSetTheorems, TLAPS

(***************************************************************************)
(* The inductive invariant.                                                *)
(***************************************************************************)
Stored(p) == Is(p, "read") \/ Is(p, "upsert")

\* The PUT will still write the block into the inode.
WillWrite(p, n, b) == Is(p, "copy") /\ put[p].node = n /\ put[p].off < b /\ b <= put[p].len

\* The inode has the first len blocks and no other, once who writes to it is through.
WillBeWhole(n, len) ==
  /\ data[n] \subseteq 1 .. len
  /\ \A b \in 1 .. len : b \in data[n] \/ \E p \in Writer : WillWrite(p, n, b)
  /\ \A p \in Writer : Is(p, "copy") /\ put[p].node = n => put[p].len = len

\* A PUT has an inode from the moment it has opened one, and begins with the first block.
NodesAreHeld == \A p \in Writer : /\ Is(p, "open") => put[p].node = NoNode /\ put[p].off = 0
                                  /\ Is(p, "copy") => put[p].node \in Node

NamesDiffer == tmp # NoNode => tmp # chunk

SameLength == \A p, q \in Writer : put[p] # NoPut /\ put[q] # NoPut => put[p].len = put[q].len

\* What a PUT may rename is whole when all is written, or was cut off just now.
TmpIsWhole ==
  \A p \in Writer : tmp # NoNode /\ Is(p, "copy") =>
    \/ WillBeWhole(tmp, put[p].len)
    \/ \E q \in Writer : Is(q, "unlink") /\ put[q].node = tmp

\* Whoever has renamed a file finds it whole, whosever file it was.
StoredIsWhole ==
  \A p \in Writer : Stored(p) => chunk # NoNode /\ WillBeWhole(chunk, put[p].len)

\* Otherwise the file is as long as the row says.
RowIsTrue ==
  (\A p \in Writer : ~Stored(p)) /\ size # NoSize => chunk # NoNode /\ WillBeWhole(chunk, size)

\* A row that a PUT finds inserted under its hands has the size it would have inserted.
InsertedIsSame ==
  \A p \in Writer : Is(p, "upsert") /\ put[p].old = NoSize /\ size # NoSize => size = put[p].len

\* A PUT removes the chunk or records it as its length says.
LengthsFit == \A p \in Writer : /\ Is(p, "remove") => Overrun(put[p].len)
                                /\ Stored(p) => put[p].len \in Size

\* A chunk that will be removed has no row.
RemovesNoRow == \A p \in Writer : Is(p, "remove") => size = NoSize

LInv == LengthsFit /\ (~torn => RemovesNoRow)

CInv ==
  /\ CTypeOK /\ NodesAreHeld /\ NamesDiffer /\ ReceivedIsSum
  /\ ~torn => SameLength /\ TmpIsWhole /\ StoredIsWhole /\ RowIsTrue /\ InsertedIsSame

LEMMA NoPutType == \A r \in PutRecord : r # NoPut
  BY ChunkAssumption

LEMMA NoSizeType == \A len \in Size : len # NoSize /\ len \in Nat
  BY ChunkAssumption DEF Size

LEMMA LengthType == \A len \in Length : len \in Nat /\ (len \in Size <=> ~Overrun(len))
  BY ChunkAssumption DEF Length, Size, Overrun

LEMMA CInvInit == CInit => CInv
<1> SUFFICES ASSUME CInit PROVE CInv
  OBVIOUS
<1>a. 0 \in Nat /\ 0 \in 0 .. MaxPuts
  BY ChunkAssumption
<1>b. torn \in BOOLEAN /\ blind \in BOOLEAN
  BY DEF CInit
<1>1. CTypeOK
  BY <1>a, <1>b DEF CInit, CTypeOK
<1>2. \A p \in Writer : \A step : ~Is(p, step)
  BY DEF CInit, Is
<1>3. NodesAreHeld /\ NamesDiffer /\ ReceivedIsSum
  BY <1>2 DEF CInit, NodesAreHeld, NamesDiffer, ReceivedIsSum, SizeOrNone
<1>4. SameLength /\ TmpIsWhole /\ StoredIsWhole /\ RowIsTrue /\ InsertedIsSame
  BY <1>2 DEF CInit, SameLength, TmpIsWhole, Stored, StoredIsWhole, RowIsTrue, InsertedIsSame
<1>5. QED
  BY <1>1, <1>3, <1>4 DEF CInv

\* There is an inode for a new file.
LEMMA NodeIsFree ==
  ASSUME CTypeOK, NodesAreHeld, tmp = NoNode, NEW p \in Writer, Is(p, "open")
  PROVE  \E n \in Node : Free(n)
<1> SUFFICES ASSUME \A n \in Node : ~Free(n) PROVE FALSE
  OBVIOUS
<1> DEFINE f == [q \in Writer |-> IF q = p \/ put[q] = NoPut THEN chunk ELSE put[q].node]
           S == {f[q] : q \in Writer}
<1>1. Node \subseteq S
  <2> SUFFICES ASSUME NEW n \in Node PROVE \E q \in Writer : f[q] = n
    OBVIOUS
  <2>1. CASE n = chunk
    BY <2>1
  <2>2. CASE n # chunk
    <3>1. PICK q \in Writer : put[q] # NoPut /\ put[q].node = n
      BY <2>2, ChunkAssumption DEF Free
    <3>2. q # p
      BY <3>1, ChunkAssumption DEF NodesAreHeld
    <3>3. QED
      BY <3>1, <3>2
  <2>3. QED
    BY <2>1, <2>2
<1>2. f \in Surjection(Writer, S)
  BY DEF Surjection
<1> HIDE DEF f, S
<1>3. IsFiniteSet(S) /\ Cardinality(S) <= Cardinality(Writer)
  BY <1>2, ChunkAssumption, FS_Surjection
<1>4. Cardinality(Node) <= Cardinality(S)
  BY <1>1, <1>3, FS_Subset
<1>5. Cardinality(Node) \in Nat /\ Cardinality(S) \in Nat /\ Cardinality(Writer) \in Nat
  BY <1>3, ChunkAssumption, FS_CardinalityType
<1>6. Cardinality(Writer) < Cardinality(Node)
  BY ChunkAssumption
<1>7. QED
  BY <1>3, <1>4, <1>5, <1>6

(***************************************************************************)
(* What a step of one PUT leaves to show.                                  *)
(***************************************************************************)
LEMMA OthersStay ==
  ASSUME CTypeOK, NEW p \in Writer, NEW r \in PutRecord \cup {NoPut},
         put' = [put EXCEPT ![p] = r]
  PROVE  /\ put' \in [Writer -> PutRecord \cup {NoPut}] /\ put'[p] = r
         /\ \A q \in Writer \ {p} : put'[q] = put[q]
         /\ \A q \in Writer \ {p} : \A step : Is(q, step)' <=> Is(q, step)
         /\ \A q \in Writer \ {p} : \A n, b : WillWrite(q, n, b)' <=> WillWrite(q, n, b)
  BY DEF CTypeOK, Is, WillWrite

\* A PUT that has nothing to write into an inode leaves it as it was.
LEMMA WholeStays ==
  ASSUME NEW p \in Writer, NEW n, NEW len, WillBeWhole(n, len), data'[n] = data[n],
         \A q \in Writer \ {p} : put'[q] = put[q],
         ~(Is(p, "copy")' /\ put'[p].node = n), \A b \in Nat : ~WillWrite(p, n, b)
  PROVE  WillBeWhole(n, len)'
<1>1. \A q \in Writer, b \in Nat : WillWrite(q, n, b) => WillWrite(q, n, b)'
  BY DEF WillWrite, Is
<1>2. \A q \in Writer : Is(q, "copy")' /\ put'[q].node = n => put'[q].len = len
  BY DEF WillBeWhole, Is
<1>3. \A b \in 1 .. len : b \in Nat
  OBVIOUS
<1>4. QED
  BY <1>1, <1>2, <1>3 DEF WillBeWhole

\* A step that leaves the temporary file alone, or cuts it off.
LEMMA QuietTmp ==
  ASSUME CInv, ~torn, NEW p \in Writer, \A q \in Writer \ {p} : put'[q] = put[q],
         tmp' = tmp, data' = data, ~Is(p, "copy")', ~Is(p, "unlink"),
         (\A b \in Nat : ~WillWrite(p, tmp, b)) \/ (Is(p, "unlink")' /\ put'[p].node = tmp)
  PROVE  TmpIsWhole'
<1>1. \A q \in Writer : \A step : q # p => (Is(q, step)' <=> Is(q, step))
  BY DEF Is
<1>2. PICK t : t = tmp
  OBVIOUS
<1> SUFFICES ASSUME NEW q \in Writer, t # NoNode, Is(q, "copy")'
             PROVE  \/ WillBeWhole(t, put[q].len)'
                    \/ \E u \in Writer : Is(u, "unlink")' /\ put'[u].node = t
  BY <1>2 DEF TmpIsWhole
<1>3. q # p /\ Is(q, "copy") /\ put'[q] = put[q]
  BY <1>1
<1>4. PICK len : len = put[q].len
  OBVIOUS
<1>5. CASE \A b \in Nat : ~WillWrite(p, t, b)
  <2>1. WillBeWhole(t, len) \/ \E u \in Writer : Is(u, "unlink") /\ put[u].node = t
    BY <1>2, <1>3, <1>4 DEF CInv, TmpIsWhole
  <2>2. WillBeWhole(t, len) => WillBeWhole(t, len)'
    BY <1>5, WholeStays
  <2>3. QED
    BY <1>1, <1>3, <1>4, <2>1, <2>2
<1>6. CASE Is(p, "unlink")' /\ put'[p].node = tmp
  BY <1>2, <1>6
<1>7. QED
  BY <1>2, <1>5, <1>6

\* A step that leaves the chunk's file and row alone.
LEMMA QuietChunk ==
  ASSUME CInv, ~torn, NEW p \in Writer, \A q \in Writer \ {p} : put'[q] = put[q],
         chunk' = chunk, size' = size,
         chunk # NoNode => data'[chunk] = data[chunk],
         ~(Is(p, "copy")' /\ put'[p].node = chunk), \A b \in Nat : ~WillWrite(p, chunk, b),
         Stored(p)' <=> Stored(p), Stored(p) => put'[p].len = put[p].len,
         Is(p, "upsert")' /\ put'[p].old = NoSize => size = NoSize
  PROVE  StoredIsWhole' /\ RowIsTrue' /\ InsertedIsSame'
<1>1. \A q \in Writer : \A step : q # p => (Is(q, step)' <=> Is(q, step))
  BY DEF Is
<1>2. PICK f : f = chunk
  OBVIOUS
<1>3. \A len : f # NoNode /\ WillBeWhole(f, len) => WillBeWhole(f, len)'
  BY <1>2, WholeStays
<1>4. \A q \in Writer : Stored(q)' <=> Stored(q)
  BY <1>1 DEF Stored
<1>5. StoredIsWhole'
  <2> SUFFICES ASSUME NEW q \in Writer, Stored(q)
               PROVE  f # NoNode /\ WillBeWhole(f, put[q].len)'
    BY <1>2, <1>4 DEF StoredIsWhole
  <2>1. put'[q].len = put[q].len
    BY <1>1
  <2>2. PICK len : len = put[q].len
    OBVIOUS
  <2>3. f # NoNode /\ WillBeWhole(f, len)
    BY <1>2, <2>2 DEF CInv, StoredIsWhole
  <2>4. QED
    BY <1>3, <2>1, <2>2, <2>3
<1>6. RowIsTrue'
  <2>1. PICK len : len = size
    OBVIOUS
  <2>2. (\A q \in Writer : ~Stored(q)) /\ len # NoSize => f # NoNode /\ WillBeWhole(f, len)
    BY <1>2, <2>1 DEF CInv, RowIsTrue
  <2>3. QED
    BY <1>2, <1>3, <1>4, <2>1, <2>2 DEF RowIsTrue
<1>7. InsertedIsSame'
  BY <1>1 DEF CInv, InsertedIsSame
<1>8. QED
  BY <1>5, <1>6, <1>7

LEMMA ArrivesStep ==
  ASSUME CInv, NEW p \in Writer, NEW len \in Length, Arrives(p, len)
  PROVE  CInv'
<1> DEFINE r == [pc |-> "open", len |-> len, off |-> 0, node |-> NoNode, old |-> NoSize]
<1>1. r \in PutRecord /\ r.pc = "open" /\ r.len = len /\ r.node = NoNode /\ r.off = 0
  BY ChunkAssumption DEF PutRecord, Length
<1>2. /\ put[p] = NoPut /\ put' = [put EXCEPT ![p] = r]
      /\ UNCHANGED <<tmp, chunk, data, size, received, blind>> /\ puts < MaxPuts /\ puts' = puts + 1
      /\ torn' = (torn \/ \E q \in Others(p) : put[q].len # len)
  BY DEF Arrives
<1> HIDE DEF r
<1>3. /\ put' \in [Writer -> PutRecord \cup {NoPut}] /\ put'[p] = r
      /\ \A q \in Writer \ {p} : put'[q] = put[q]
      /\ \A q \in Writer \ {p} : \A step : Is(q, step)' <=> Is(q, step)
  BY <1>1, <1>2, OthersStay DEF CInv
<1>4. puts' \in 0 .. MaxPuts
  BY <1>2, ChunkAssumption DEF CInv, CTypeOK
<1>5. torn' \in BOOLEAN
  BY <1>2
<1>6. CTypeOK'
  BY <1>2, <1>3, <1>4, <1>5 DEF CInv, CTypeOK
<1>7. \A step : Is(p, step)' <=> step = "open"
  BY <1>1, <1>3, NoPutType DEF Is
<1>8. NodesAreHeld' /\ NamesDiffer' /\ ReceivedIsSum'
  <2>1. NodesAreHeld'
    BY <1>1, <1>3, <1>7 DEF CInv, NodesAreHeld
  <2>2. QED
    BY <1>2, <2>1 DEF CInv, NamesDiffer, ReceivedIsSum, SizeOrNone
<1>9. ASSUME ~torn' PROVE SameLength' /\ TmpIsWhole' /\ StoredIsWhole' /\ RowIsTrue' /\ InsertedIsSame'
  <2>1. ~torn /\ \A q \in Writer \ {p} : put[q] # NoPut => put[q].len = len
    BY <1>2, <1>9 DEF Others
  <2>2. SameLength'
    BY <1>1, <1>3, <2>1 DEF CInv, SameLength
  <2>3. \A step : ~Is(p, step)
    BY <1>2 DEF Is
  <2>4. ~Stored(p) /\ ~Stored(p)' /\ \A n, b : ~WillWrite(p, n, b)
    BY <1>7, <2>3 DEF Stored, WillWrite
  <2>5. QED
    BY <1>2, <1>3, <1>7, <2>1, <2>2, <2>3, <2>4, QuietTmp, QuietChunk
<1>10. QED
  BY <1>6, <1>8, <1>9 DEF CInv

LEMMA CutOffStep ==
  ASSUME CInv, NEW p \in Writer, CutOff(p)
  PROVE  CInv'
<1> DEFINE r == [put[p] EXCEPT !.pc = "unlink"]
<1>1. put[p] \in PutRecord /\ put[p].pc = "copy" /\ Is(p, "copy")
  BY DEF CutOff, Is, CInv, CTypeOK
<1>2. r \in PutRecord /\ r.pc = "unlink" /\ r.len = put[p].len /\ r.node = put[p].node
  BY <1>1 DEF PutRecord
<1>3. /\ put' = [put EXCEPT ![p] = r]
      /\ UNCHANGED <<tmp, chunk, data, size, received, puts, blind>>
      /\ torn' = (torn \/ put[p].node = chunk \/ \E q \in Others(p) : put[q].node = put[p].node)
  BY DEF CutOff, Goes
<1> HIDE DEF r
<1>4. /\ put' \in [Writer -> PutRecord \cup {NoPut}] /\ put'[p] = r
      /\ \A q \in Writer \ {p} : put'[q] = put[q]
      /\ \A q \in Writer \ {p} : \A step : Is(q, step)' <=> Is(q, step)
  BY <1>2, <1>3, OthersStay DEF CInv
<1>5. torn' \in BOOLEAN
  BY <1>3
<1>6. CTypeOK'
  BY <1>3, <1>4, <1>5 DEF CInv, CTypeOK
<1>7. \A step : Is(p, step)' <=> step = "unlink"
  BY <1>2, <1>4, NoPutType DEF Is
<1>8. NodesAreHeld'
  BY <1>4, <1>7 DEF CInv, NodesAreHeld
<1>9. NamesDiffer' /\ ReceivedIsSum'
  BY <1>3 DEF CInv, NamesDiffer, ReceivedIsSum, SizeOrNone
<1>10. ASSUME ~torn' PROVE SameLength' /\ TmpIsWhole' /\ StoredIsWhole' /\ RowIsTrue' /\ InsertedIsSame'
  <2>1. ~torn /\ put[p].node # chunk
    BY <1>3, <1>10
  <2>2. SameLength'
    BY <1>1, <1>2, <1>4, <2>1, NoPutType DEF CInv, SameLength
  <2>3. ~Is(p, "unlink") /\ ~Stored(p) /\ ~Stored(p)'
    BY <1>1, <1>7 DEF Stored, Is
  <2>4. \A b : ~WillWrite(p, chunk, b)
    BY <2>1 DEF WillWrite
  <2>5. (\A b : ~WillWrite(p, tmp, b)) \/ (Is(p, "unlink")' /\ put'[p].node = tmp)
    BY <1>2, <1>4, <1>7 DEF WillWrite
  <2>6. QED
    BY <1>3, <1>4, <1>7, <2>1, <2>2, <2>3, <2>4, <2>5, QuietTmp, QuietChunk
<1>11. QED
  BY <1>6, <1>8, <1>9, <1>10 DEF CInv

LEMMA ReadSizeStep ==
  ASSUME CInv, NEW p \in Writer, ReadSize(p)
  PROVE  CInv'
<1> DEFINE r == [put[p] EXCEPT !.pc = "upsert", !.old = size]
<1>1. put[p] \in PutRecord /\ put[p].pc = "read" /\ Is(p, "read")
  BY DEF ReadSize, Is, CInv, CTypeOK
<1>2. r \in PutRecord /\ r.pc = "upsert" /\ r.len = put[p].len /\ r.old = size
  BY <1>1 DEF PutRecord, CInv, CTypeOK
<1>3. /\ put' = [put EXCEPT ![p] = r]
      /\ UNCHANGED <<tmp, chunk, data, size, received, puts, torn, blind>>
  BY DEF ReadSize
<1> HIDE DEF r
<1>4. /\ put' \in [Writer -> PutRecord \cup {NoPut}] /\ put'[p] = r
      /\ \A q \in Writer \ {p} : put'[q] = put[q]
      /\ \A q \in Writer \ {p} : \A step : Is(q, step)' <=> Is(q, step)
  BY <1>2, <1>3, OthersStay DEF CInv
<1>5. CTypeOK'
  BY <1>3, <1>4 DEF CInv, CTypeOK
<1>6. \A step : Is(p, step)' <=> step = "upsert"
  BY <1>2, <1>4, NoPutType DEF Is
<1>7. NodesAreHeld'
  BY <1>4, <1>6 DEF CInv, NodesAreHeld
<1>8. NamesDiffer' /\ ReceivedIsSum'
  BY <1>3 DEF CInv, NamesDiffer, ReceivedIsSum, SizeOrNone
<1>9. ASSUME ~torn PROVE SameLength' /\ TmpIsWhole' /\ StoredIsWhole' /\ RowIsTrue' /\ InsertedIsSame'
  <2>1. SameLength'
    BY <1>1, <1>2, <1>4, <1>9, NoPutType DEF CInv, SameLength
  <2>2. ~Is(p, "unlink") /\ Stored(p) /\ Stored(p)' /\ ~Is(p, "copy")'
    BY <1>1, <1>6 DEF Stored, Is
  <2>3. \A n, b : ~WillWrite(p, n, b)
    BY <1>1 DEF WillWrite, Is
  <2>4. put'[p].len = put[p].len /\ (put'[p].old = NoSize => size = NoSize)
    BY <1>2, <1>4
  <2>5. QED
    BY <1>3, <1>4, <1>9, <2>1, <2>2, <2>3, <2>4, QuietTmp, QuietChunk
<1>10. QED
  BY <1>3, <1>5, <1>7, <1>8, <1>9 DEF CInv

\* A body that is too long renames the file but records nothing, and there was no row.
LEMMA RenameTmpStep ==
  ASSUME CInv, NEW p \in Writer, RenameTmp(p)
  PROVE  CInv'
<1>1. PICK step \in {"unlink", "remove", "read"} :
        /\ put' = [put EXCEPT ![p].pc = step]
        /\ IF tmp = NoNode THEN step = "unlink" /\ UNCHANGED <<tmp, chunk>>
                           ELSE /\ step = IF Overrun(put[p].len) THEN "remove" ELSE "read"
                                /\ chunk' = tmp /\ tmp' = NoNode
  BY DEF RenameTmp, Goes
<1> DEFINE r == [put[p] EXCEPT !.pc = step]
<1>2. put[p] \in PutRecord /\ put[p].pc = "copy" /\ Is(p, "copy") /\ put[p].off = put[p].len
  BY DEF RenameTmp, Is, CInv, CTypeOK
<1>3. r \in PutRecord /\ r.pc = step /\ r.len = put[p].len /\ r.node = put[p].node
  BY <1>2 DEF PutRecord
<1>4. /\ put' = [put EXCEPT ![p] = r]
      /\ UNCHANGED <<data, size, received, puts, blind>>
      /\ torn' = (torn \/ (tmp # NoNode /\ Overrun(put[p].len) /\ size # NoSize)
                       \/ \E q \in Others(p) : Is(q, "unlink") /\ put[q].node = tmp)
  BY <1>1 DEF RenameTmp
<1> HIDE DEF r
<1>5. /\ put' \in [Writer -> PutRecord \cup {NoPut}] /\ put'[p] = r
      /\ \A q \in Writer \ {p} : put'[q] = put[q]
      /\ \A q \in Writer \ {p} : \A s : Is(q, s)' <=> Is(q, s)
  BY <1>3, <1>4, OthersStay DEF CInv
<1>6. torn' \in BOOLEAN /\ tmp' \in Node \cup {NoNode} /\ chunk' \in Node \cup {NoNode}
  BY <1>1, <1>4 DEF CInv, CTypeOK
<1>7. CTypeOK'
  BY <1>4, <1>5, <1>6 DEF CInv, CTypeOK
<1>8. \A s : Is(p, s)' <=> s = step
  BY <1>3, <1>5, NoPutType DEF Is
<1>9. NodesAreHeld'
  BY <1>5, <1>8 DEF CInv, NodesAreHeld
<1>10. NamesDiffer' /\ ReceivedIsSum'
  BY <1>1, <1>4 DEF CInv, NamesDiffer, ReceivedIsSum, SizeOrNone
<1>11. \A n, b : b \in Nat => ~WillWrite(p, n, b)
  <2>1. put[p].off \in Nat /\ put[p].len \in Nat
    BY <1>2, LengthType DEF PutRecord
  <2>2. QED
    BY <1>2, <2>1 DEF WillWrite
<1>12. ASSUME ~torn' PROVE SameLength' /\ TmpIsWhole' /\ StoredIsWhole' /\ RowIsTrue' /\ InsertedIsSame'
  <2>1. ~torn
    BY <1>4, <1>12
  <2>2. SameLength'
    BY <1>2, <1>3, <1>5, <2>1, NoPutType DEF CInv, SameLength
  <2>3. ~Is(p, "unlink") /\ ~Stored(p) /\ ~Is(p, "copy")'
    BY <1>2, <1>8 DEF Stored, Is
  <2>4. CASE tmp = NoNode
    <3>1. ~Stored(p)' /\ ~Is(p, "upsert")' /\ UNCHANGED <<tmp, chunk>>
      BY <1>1, <1>8, <2>4 DEF Stored
    <3>2. QED
      BY <1>4, <1>5, <1>11, <2>1, <2>2, <2>3, <3>1, QuietTmp, QuietChunk
  <2>5. CASE tmp # NoNode
    <3>1. PICK t, len : t = tmp /\ len = put[p].len
      OBVIOUS
    <3>2. WillBeWhole(t, len)
      <4>1. \A q \in Writer : ~(Is(q, "unlink") /\ put[q].node = tmp)
        BY <1>4, <1>12, <2>3 DEF Others, Is
      <4>2. QED
        BY <1>2, <2>1, <2>5, <3>1, <4>1 DEF CInv, TmpIsWhole
    <3>3. WillBeWhole(t, len)'
      BY <1>4, <1>5, <1>11, <2>3, <3>2, WholeStays
    <3>4. /\ chunk' = t /\ t # NoNode /\ tmp' = NoNode
          /\ step = "read" \/ (step = "remove" /\ size = NoSize)
      BY <1>1, <1>4, <1>12, <2>5, <3>1
    <3>5. \A q \in Writer : put'[q] # NoPut => put'[q].len = len
      BY <1>3, <1>5, <2>2, <3>1, NoPutType DEF SameLength
    <3>6. StoredIsWhole'
      <4> SUFFICES ASSUME NEW q \in Writer, Stored(q)'
                   PROVE  WillBeWhole(t, put[q].len)'
        BY <3>4 DEF StoredIsWhole
      <4>1. put'[q].len = len
        BY <3>5 DEF Stored, Is
      <4>2. QED
        BY <3>3, <4>1
    <3>7. TmpIsWhole' /\ RowIsTrue'
      BY <1>4, <1>8, <3>4 DEF TmpIsWhole, RowIsTrue, Stored
    <3>8. InsertedIsSame'
      BY <1>4, <1>5, <1>8, <2>1, <3>4 DEF CInv, InsertedIsSame
    <3>9. QED
      BY <2>2, <3>6, <3>7, <3>8
  <2>6. QED
    BY <2>4, <2>5
<1>13. QED
  BY <1>7, <1>9, <1>10, <1>12 DEF CInv

LEMMA UnlinkStep ==
  ASSUME CInv, NEW p \in Writer, Unlink(p)
  PROVE  CInv'
<1>1. /\ put' = [put EXCEPT ![p] = NoPut] /\ tmp' = NoNode
      /\ UNCHANGED <<chunk, data, size, received, puts, torn, blind>>
  BY DEF Unlink, Ends
<1>2. put[p].pc = "unlink"
  BY DEF Unlink, Is
<1>3. /\ put' \in [Writer -> PutRecord \cup {NoPut}] /\ put'[p] = NoPut
      /\ \A q \in Writer \ {p} : put'[q] = put[q]
      /\ \A q \in Writer \ {p} : \A step : Is(q, step)' <=> Is(q, step)
  BY <1>1, OthersStay DEF CInv
<1>4. CTypeOK'
  BY <1>1, <1>3 DEF CInv, CTypeOK
<1>5. \A step : ~Is(p, step)'
  BY <1>3 DEF Is
<1>6. NodesAreHeld'
  BY <1>3, <1>5 DEF CInv, NodesAreHeld
<1>7. NamesDiffer' /\ ReceivedIsSum'
  BY <1>1 DEF CInv, NamesDiffer, ReceivedIsSum, SizeOrNone
<1>8. ASSUME ~torn PROVE SameLength' /\ TmpIsWhole' /\ StoredIsWhole' /\ RowIsTrue' /\ InsertedIsSame'
  <2>1. SameLength' /\ TmpIsWhole'
    BY <1>1, <1>3, <1>8 DEF CInv, SameLength, TmpIsWhole
  <2>2. ~Stored(p) /\ ~Stored(p)' /\ \A n, b : ~WillWrite(p, n, b)
    BY <1>2, <1>5 DEF Stored, WillWrite, Is
  <2>3. QED
    BY <1>1, <1>3, <1>5, <1>8, <2>1, <2>2, QuietChunk
<1>9. QED
  BY <1>1, <1>4, <1>6, <1>7, <1>8 DEF CInv

LEMMA RemoveChunkStep ==
  ASSUME CInv, LInv, NEW p \in Writer, RemoveChunk(p)
  PROVE  CInv'
<1>1. /\ put' = [put EXCEPT ![p] = NoPut] /\ chunk' = NoNode
      /\ UNCHANGED <<tmp, data, size, received, puts, torn, blind>>
  BY DEF RemoveChunk, Ends
<1>2. put[p] \in PutRecord /\ Is(p, "remove")
  BY DEF RemoveChunk, Is, CInv, CTypeOK
<1>3. /\ put' \in [Writer -> PutRecord \cup {NoPut}] /\ put'[p] = NoPut
      /\ \A q \in Writer \ {p} : put'[q] = put[q]
      /\ \A q \in Writer \ {p} : \A step : Is(q, step)' <=> Is(q, step)
  BY <1>1, OthersStay DEF CInv
<1>4. CTypeOK'
  BY <1>1, <1>3 DEF CInv, CTypeOK
<1>5. \A step : ~Is(p, step)'
  BY <1>3 DEF Is
<1>6. NodesAreHeld'
  BY <1>3, <1>5 DEF CInv, NodesAreHeld
<1>7. NamesDiffer' /\ ReceivedIsSum'
  BY <1>1 DEF CInv, NamesDiffer, ReceivedIsSum, SizeOrNone
<1>8. ASSUME ~torn PROVE SameLength' /\ TmpIsWhole' /\ StoredIsWhole' /\ RowIsTrue' /\ InsertedIsSame'
  <2>1. SameLength'
    BY <1>3, <1>8 DEF CInv, SameLength
  <2>2. ~Is(p, "unlink") /\ \A n, b : ~WillWrite(p, n, b)
    BY <1>2 DEF WillWrite, Is
  <2>3. TmpIsWhole'
    BY <1>1, <1>3, <1>5, <1>8, <2>2, QuietTmp
  <2>4. size = NoSize
    BY <1>2, <1>8 DEF LInv, RemovesNoRow
  <2>5. \A q \in Writer : ~Stored(q)
    <3> SUFFICES ASSUME NEW q \in Writer, Stored(q) PROVE FALSE
      OBVIOUS
    <3>1. put[q].len = put[p].len
      BY <1>2, <1>8, NoPutType DEF CInv, SameLength, Stored, Is
    <3>2. put[p].len \in Length /\ put[q].len \in Size /\ Overrun(put[p].len)
      BY <1>2 DEF PutRecord, LInv, LengthsFit
    <3>3. QED
      BY <3>1, <3>2, LengthType
  <2>6. \A q \in Writer : ~Stored(q)'
    BY <1>3, <1>5, <2>5 DEF Stored
  <2>7. StoredIsWhole' /\ RowIsTrue' /\ InsertedIsSame'
    BY <1>1, <2>4, <2>6 DEF StoredIsWhole, RowIsTrue, InsertedIsSame
  <2>8. QED
    BY <2>1, <2>3, <2>7
<1>9. QED
  BY <1>1, <1>4, <1>6, <1>7, <1>8 DEF CInv

\* The sum follows the size of the row, if the row is the one that was read.
LEMMA SumFollows ==
  ASSUME NEW old \in Size \cup {NoSize}, NEW len \in Size, received \in Nat
  PROVE  /\ NewReceived(old, len) \in Nat
         /\ received = (IF old = NoSize THEN 0 ELSE old) => NewReceived(old, len) = len
<1>1. len \in Nat
  BY NoSizeType
<1>2. CASE old = NoSize
  BY <1>1, <1>2 DEF NewReceived
<1>3. CASE old # NoSize
  <2>1. old \in Nat
    BY <1>3, NoSizeType
  <2>2. QED
    BY <1>1, <1>3, <2>1 DEF NewReceived, Minus
<1>4. QED
  BY <1>2, <1>3

LEMMA UpsertStep ==
  ASSUME CInv, LInv, NEW p \in Writer, Upsert(p)
  PROVE  CInv'
<1>1. put[p] \in PutRecord /\ put[p].pc = "upsert" /\ Is(p, "upsert")
  BY DEF Upsert, Is, CInv, CTypeOK
<1>2. PICK len \in Size, old \in Size \cup {NoSize} : len = put[p].len /\ old = put[p].old
  BY <1>1 DEF PutRecord, LInv, LengthsFit, Stored
<1>3. /\ put' = [put EXCEPT ![p] = NoPut]
      /\ UNCHANGED <<tmp, chunk, data, puts, torn>>
      /\ \/ old = NoSize /\ size # NoSize /\ UNCHANGED <<size, received, blind>>
         \/ /\ ~(old = NoSize /\ size # NoSize)
            /\ size' = len /\ received' = NewReceived(old, len)
            /\ blind' = (blind \/ size # old)
  BY <1>2 DEF Upsert, Ends
<1>4. /\ put' \in [Writer -> PutRecord \cup {NoPut}] /\ put'[p] = NoPut
      /\ \A q \in Writer \ {p} : put'[q] = put[q]
      /\ \A q \in Writer \ {p} : \A step : Is(q, step)' <=> Is(q, step)
  BY <1>3, OthersStay DEF CInv
<1>5. received' \in Nat
  BY <1>2, <1>3, SumFollows DEF CInv, CTypeOK
<1>6. size' \in Size \cup {NoSize} /\ blind' \in BOOLEAN
  BY <1>3 DEF CInv, CTypeOK
<1>7. CTypeOK'
  BY <1>3, <1>4, <1>5, <1>6 DEF CInv, CTypeOK
<1>8. \A step : ~Is(p, step)'
  BY <1>4 DEF Is
<1>9. NodesAreHeld' /\ NamesDiffer'
  BY <1>3, <1>4, <1>8 DEF CInv, NodesAreHeld, NamesDiffer
<1>10. ReceivedIsSum'
  <2>1. CASE UNCHANGED <<size, received, blind>>
    BY <2>1 DEF CInv, ReceivedIsSum, SizeOrNone
  <2>2. CASE size' = len /\ received' = NewReceived(old, len) /\ blind' = (blind \/ size # old)
    <3>1. ~blind' => received = (IF old = NoSize THEN 0 ELSE old)
      BY <2>2 DEF CInv, ReceivedIsSum, SizeOrNone
    <3>2. ~blind' => received' = len
      BY <2>2, <3>1, SumFollows DEF CInv, CTypeOK
    <3>3. QED
      BY <2>2, <3>2, NoSizeType DEF ReceivedIsSum, SizeOrNone
  <2>3. QED
    BY <1>3, <2>1, <2>2
<1>11. ASSUME ~torn PROVE SameLength' /\ TmpIsWhole' /\ StoredIsWhole' /\ RowIsTrue' /\ InsertedIsSame'
  <2>1. SameLength'
    BY <1>4, <1>11 DEF CInv, SameLength
  <2>2. ~Is(p, "unlink") /\ \A n, b : ~WillWrite(p, n, b)
    BY <1>1 DEF WillWrite, Is
  <2>3. TmpIsWhole'
    BY <1>3, <1>4, <1>8, <1>11, <2>2, QuietTmp
  <2>4. size' = len
    BY <1>1, <1>2, <1>3, <1>11 DEF CInv, InsertedIsSame
  <2>5. PICK f : f = chunk
    OBVIOUS
  <2>6. f # NoNode /\ WillBeWhole(f, len)
    BY <1>1, <1>2, <1>11, <2>5 DEF CInv, StoredIsWhole, Stored
  <2>7. WillBeWhole(f, len)'
    BY <1>3, <1>4, <1>8, <2>2, <2>6, WholeStays
  <2>8. \A q \in Writer : put'[q] # NoPut => put'[q].len = len
    BY <1>1, <1>2, <1>4, <1>11, NoPutType DEF CInv, SameLength
  <2>9. StoredIsWhole'
    <3> SUFFICES ASSUME NEW q \in Writer, Stored(q)' PROVE WillBeWhole(f, put[q].len)'
      BY <1>3, <2>5, <2>6 DEF StoredIsWhole
    <3>1. put'[q].len = len
      BY <2>8 DEF Stored, Is
    <3>2. QED
      BY <2>7, <3>1
  <2>10. RowIsTrue'
    BY <1>3, <2>4, <2>5, <2>6, <2>7 DEF RowIsTrue
  <2>11. InsertedIsSame'
    BY <2>4, <2>8 DEF InsertedIsSame, Is
  <2>12. QED
    BY <2>1, <2>3, <2>9, <2>10, <2>11
<1>12. QED
  BY <1>3, <1>7, <1>9, <1>10, <1>11 DEF CInv

LEMMA OpenStep ==
  ASSUME CInv, NEW p \in Writer, Open(p)
  PROVE  CInv'
<1>1. put[p] \in PutRecord /\ put[p].pc = "open" /\ Is(p, "open")
  BY DEF Open, Is, CInv, CTypeOK
<1>2. TmpNode \in Node /\ (tmp = NoNode => Free(TmpNode)) /\ (tmp # NoNode => TmpNode = tmp)
  <2>1. CASE tmp = NoNode
    BY <1>1, <2>1, NodeIsFree DEF TmpNode, CInv
  <2>2. CASE tmp # NoNode
    BY <2>2 DEF TmpNode, CInv, CTypeOK
  <2>3. QED
    BY <2>1, <2>2
<1>3. PICK t \in Node : t = TmpNode
  BY <1>2
<1>4. t # chunk /\ t # NoNode
  BY <1>2, <1>3, ChunkAssumption DEF Free, CInv, NamesDiffer
<1> DEFINE r == [put[p] EXCEPT !.pc = "copy", !.node = t]
<1>5. /\ put' = [put EXCEPT ![p] = r] /\ tmp' = t /\ data' = [data EXCEPT ![t] = {}]
      /\ UNCHANGED <<chunk, size, received, puts, torn, blind>>
  BY <1>3 DEF Open
<1>6. r \in PutRecord /\ r.pc = "copy" /\ r.len = put[p].len /\ r.node = t /\ r.off = put[p].off
  BY <1>1 DEF PutRecord
<1> HIDE DEF r
<1>7. /\ put' \in [Writer -> PutRecord \cup {NoPut}] /\ put'[p] = r
      /\ \A q \in Writer \ {p} : put'[q] = put[q]
      /\ \A q \in Writer \ {p} : \A step : Is(q, step)' <=> Is(q, step)
  BY <1>5, <1>6, OthersStay DEF CInv
<1>8. /\ data' \in [Node -> SUBSET Block] /\ data'[t] = {}
      /\ \A n \in Node \ {t} : data'[n] = data[n]
  BY <1>5 DEF CInv, CTypeOK
<1>9. CTypeOK'
  BY <1>5, <1>7, <1>8 DEF CInv, CTypeOK
<1>10. \A step : Is(p, step)' <=> step = "copy"
  BY <1>6, <1>7, NoPutType DEF Is
<1>11. NodesAreHeld'
  BY <1>6, <1>7, <1>10 DEF CInv, NodesAreHeld
<1>12. NamesDiffer' /\ ReceivedIsSum'
  BY <1>4, <1>5 DEF CInv, NamesDiffer, ReceivedIsSum, SizeOrNone
<1>13. ASSUME ~torn PROVE SameLength' /\ TmpIsWhole' /\ StoredIsWhole' /\ RowIsTrue' /\ InsertedIsSame'
  <2>1. SameLength'
    BY <1>1, <1>6, <1>7, <1>13, NoPutType DEF CInv, SameLength
  <2>2. PICK len \in Length : len = put[p].len
    BY <1>1 DEF PutRecord
  <2>3. \A q \in Writer : put'[q] # NoPut => put'[q].len = len
    BY <1>6, <1>7, <2>1, <2>2, NoPutType DEF SameLength
  <2>4. WillBeWhole(t, len)'
    <3>1. \A b \in 1 .. len : WillWrite(p, t, b)'
      BY <1>1, <1>6, <1>7, <1>10, <2>2, LengthType DEF CInv, NodesAreHeld, WillWrite
    <3>2. \A q \in Writer : Is(q, "copy")' /\ put'[q].node = t => put'[q].len = len
      BY <2>3 DEF Is
    <3>3. QED
      BY <1>8, <3>1, <3>2 DEF WillBeWhole
  <2>5. TmpIsWhole'
    <3> SUFFICES ASSUME NEW q \in Writer, Is(q, "copy")' PROVE WillBeWhole(t, put[q].len)'
      BY <1>5 DEF TmpIsWhole
    <3>1. put'[q].len = len
      BY <2>3 DEF Is
    <3>2. QED
      BY <2>4, <3>1
  <2>6. ~Stored(p) /\ ~Stored(p)' /\ ~Is(p, "upsert")' /\ \A n, b : ~WillWrite(p, n, b)
    BY <1>1, <1>10 DEF Stored, WillWrite, Is
  <2>7. chunk # NoNode => data'[chunk] = data[chunk]
    BY <1>4, <1>8 DEF CInv, CTypeOK
  <2>8. ~(Is(p, "copy")' /\ put'[p].node = chunk)
    BY <1>4, <1>6, <1>7
  <2>9. QED
    BY <1>5, <1>7, <1>13, <2>1, <2>5, <2>6, <2>7, <2>8, QuietChunk
<1>14. QED
  BY <1>5, <1>9, <1>11, <1>12, <1>13 DEF CInv

LEMMA CopyStep ==
  ASSUME CInv, NEW p \in Writer, Copy(p)
  PROVE  CInv'
<1>1. put[p] \in PutRecord /\ put[p].pc = "copy" /\ Is(p, "copy")
  BY DEF Copy, Is, CInv, CTypeOK
<1>2. PICK n \in Node, off \in Length, max \in Length : n = put[p].node /\ off = put[p].off /\ max = put[p].len
  BY <1>1 DEF PutRecord, CInv, NodesAreHeld
<1>3. off \in Nat /\ max \in Nat /\ off < max /\ off + 1 \in Block /\ off + 1 \in Length
  BY <1>2, LengthType, ChunkAssumption DEF Copy, Block, Length
<1> DEFINE r == [put[p] EXCEPT !.off = @ + 1]
<1>4. /\ put' = [put EXCEPT ![p] = r] /\ data' = [data EXCEPT ![n] = @ \cup {off + 1}]
      /\ UNCHANGED <<tmp, chunk, size, received, puts, torn, blind>>
  BY <1>2 DEF Copy
<1>5. /\ r \in PutRecord /\ r.pc = "copy" /\ r.len = max /\ r.node = n /\ r.off = off + 1
  BY <1>1, <1>2, <1>3 DEF PutRecord
<1> HIDE DEF r
<1>6. /\ put' \in [Writer -> PutRecord \cup {NoPut}] /\ put'[p] = r
      /\ \A q \in Writer \ {p} : put'[q] = put[q]
      /\ \A q \in Writer \ {p} : \A step : Is(q, step)' <=> Is(q, step)
      /\ \A q \in Writer \ {p} : \A m, b : WillWrite(q, m, b)' <=> WillWrite(q, m, b)
  BY <1>4, <1>5, OthersStay DEF CInv
<1>7. data[n] \in SUBSET Block
  BY DEF CInv, CTypeOK
<1>8. /\ data' \in [Node -> SUBSET Block] /\ data'[n] = data[n] \cup {off + 1}
      /\ \A m \in Node \ {n} : data'[m] = data[m]
  BY <1>3, <1>4, <1>7 DEF CInv, CTypeOK
<1>9. CTypeOK'
  BY <1>4, <1>6, <1>8 DEF CInv, CTypeOK
<1>10. \A q \in Writer : \A step : Is(q, step)' <=> Is(q, step)
  <2>1. \A step : Is(p, step)' <=> step = "copy"
    BY <1>5, <1>6, NoPutType DEF Is
  <2>2. \A step : Is(p, step) <=> step = "copy"
    BY <1>1, NoPutType DEF Is
  <2>3. QED
    BY <1>6, <2>1, <2>2
<1>11. \A q \in Writer : /\ put'[q].len = put[q].len /\ put'[q].node = put[q].node
                         /\ q # p => put'[q] = put[q]
  BY <1>2, <1>5, <1>6
<1>12. NodesAreHeld' /\ NamesDiffer' /\ ReceivedIsSum'
  <2>1. NodesAreHeld'
    BY <1>1, <1>10, <1>11 DEF CInv, NodesAreHeld, Is
  <2>2. QED
    BY <1>4, <2>1 DEF CInv, NamesDiffer, ReceivedIsSum, SizeOrNone
<1>13. ASSUME NEW m \in Node, NEW len, WillBeWhole(m, len) PROVE WillBeWhole(m, len)'
  <2>1. m = n => len = max
    BY <1>1, <1>2, <1>13 DEF WillBeWhole
  <2>2. data'[m] \subseteq 1 .. len
    BY <1>3, <1>8, <1>13, <2>1 DEF WillBeWhole
  <2>3. ASSUME NEW b \in 1 .. len, b \notin data'[m] PROVE \E q \in Writer : WillWrite(q, m, b)'
    <3>1. b \notin data[m] /\ (m = n => b # off + 1)
      BY <1>8, <2>3
    <3>2. PICK q \in Writer : WillWrite(q, m, b)
      BY <1>13, <3>1 DEF WillBeWhole
    <3>3. CASE q # p
      BY <1>6, <3>2, <3>3
    <3>4. CASE q = p
      <4>1. m = n /\ off < b /\ b <= max /\ b # off + 1
        BY <1>2, <3>1, <3>2, <3>4 DEF WillWrite
      <4>2. off + 1 < b
        BY <1>3, <4>1
      <4>3. QED
        BY <1>1, <1>5, <1>6, <1>10, <4>1, <4>2 DEF WillWrite
    <3>5. QED
      BY <3>3, <3>4
  <2>4. \A q \in Writer : Is(q, "copy")' /\ put'[q].node = m => put'[q].len = len
    BY <1>10, <1>11, <1>13 DEF WillBeWhole
  <2>5. QED
    BY <2>2, <2>3, <2>4 DEF WillBeWhole
<1>14. PICK t, f : t = tmp /\ f = chunk
  OBVIOUS
<1>15. (t # NoNode => t \in Node) /\ (f # NoNode => f \in Node)
  BY <1>14 DEF CInv, CTypeOK
<1>16. ASSUME ~torn PROVE SameLength' /\ TmpIsWhole' /\ StoredIsWhole' /\ RowIsTrue' /\ InsertedIsSame'
  <2>1. SameLength'
    BY <1>1, <1>6, <1>11, <1>16, NoPutType DEF CInv, SameLength
  <2>2. TmpIsWhole'
    <3> SUFFICES ASSUME NEW q \in Writer, t # NoNode, Is(q, "copy")
                 PROVE  \/ WillBeWhole(t, put[q].len)'
                        \/ \E u \in Writer : Is(u, "unlink")' /\ put'[u].node = t
      BY <1>4, <1>10, <1>14 DEF TmpIsWhole
    <3>1. PICK len : len = put[q].len
      OBVIOUS
    <3>2. WillBeWhole(t, len) \/ \E u \in Writer : Is(u, "unlink") /\ put[u].node = t
      BY <1>14, <1>16, <3>1 DEF CInv, TmpIsWhole
    <3>3. QED
      BY <1>10, <1>11, <1>13, <1>15, <3>1, <3>2
  <2>3. StoredIsWhole'
    <3> SUFFICES ASSUME NEW q \in Writer, Stored(q)
                 PROVE  f # NoNode /\ WillBeWhole(f, put[q].len)'
      BY <1>4, <1>10, <1>14 DEF StoredIsWhole, Stored
    <3>1. PICK len : len = put[q].len
      OBVIOUS
    <3>2. f # NoNode /\ WillBeWhole(f, len)
      BY <1>14, <1>16, <3>1 DEF CInv, StoredIsWhole
    <3>3. QED
      BY <1>11, <1>13, <1>15, <3>1, <3>2
  <2>4. RowIsTrue'
    <3>1. PICK len : len = size
      OBVIOUS
    <3>2. (\A q \in Writer : ~Stored(q)) /\ len # NoSize => f # NoNode /\ WillBeWhole(f, len)
      BY <1>14, <1>16, <3>1 DEF CInv, RowIsTrue
    <3>3. \A q \in Writer : Stored(q)' <=> Stored(q)
      BY <1>10 DEF Stored
    <3>4. QED
      BY <1>4, <1>13, <1>14, <1>15, <3>1, <3>2, <3>3 DEF RowIsTrue
  <2>5. InsertedIsSame'
    BY <1>1, <1>4, <1>10, <1>11, <1>16 DEF CInv, InsertedIsSame, Is
  <2>6. QED
    BY <2>1, <2>2, <2>3, <2>4, <2>5
<1>17. QED
  BY <1>4, <1>9, <1>12, <1>16 DEF CInv

LEMMA DiesStep ==
  ASSUME CInv, Dies
  PROVE  CInv'
<1>1. /\ put' = [p \in Writer |-> NoPut]
      /\ UNCHANGED <<tmp, chunk, data, size, received, puts, blind>>
      /\ torn' = (torn \/ \E p \in Writer :
                 \/ Is(p, "copy") /\ put[p].off < put[p].len /\ put[p].node = chunk
                 \/ (Is(p, "read") \/ Is(p, "upsert")) /\ size \notin {NoSize, put[p].len})
  BY DEF Dies
<1>2. torn' \in BOOLEAN
  BY <1>1
<1>3. CTypeOK'
  BY <1>1, <1>2 DEF CInv, CTypeOK
<1>4. \A p \in Writer : put'[p] = NoPut /\ \A step : ~Is(p, step)'
  BY <1>1 DEF Is
<1>5. NodesAreHeld' /\ NamesDiffer' /\ ReceivedIsSum'
  BY <1>1, <1>4 DEF CInv, NodesAreHeld, NamesDiffer, ReceivedIsSum, SizeOrNone
<1>6. ASSUME ~torn' PROVE SameLength' /\ TmpIsWhole' /\ StoredIsWhole' /\ RowIsTrue' /\ InsertedIsSame'
  <2>1. SameLength' /\ TmpIsWhole' /\ StoredIsWhole' /\ InsertedIsSame'
    BY <1>4 DEF SameLength, TmpIsWhole, StoredIsWhole, Stored, InsertedIsSame
  <2>2. PICK f, len : f = chunk /\ len = size
    OBVIOUS
  <2>3. len # NoSize => f # NoNode /\ WillBeWhole(f, len)
    <3>1. CASE \A p \in Writer : ~Stored(p)
      BY <1>1, <1>6, <2>2, <3>1 DEF CInv, RowIsTrue
    <3>2. ASSUME NEW p \in Writer, Stored(p), len # NoSize PROVE f # NoNode /\ WillBeWhole(f, len)
      <4>1. put[p].len = len
        BY <1>1, <1>6, <2>2, <3>2 DEF Stored
      <4>2. QED
        BY <1>1, <1>6, <2>2, <3>2, <4>1 DEF CInv, StoredIsWhole
    <3>3. QED
      BY <3>1, <3>2
  <2>4. \A p \in Writer, b \in 1 .. len : len # NoSize => ~WillWrite(p, f, b)
    <3> SUFFICES ASSUME NEW p \in Writer, NEW b \in 1 .. len, WillWrite(p, f, b) PROVE FALSE
      OBVIOUS
    <3>1. Is(p, "copy") /\ put[p].node = chunk /\ put[p].off < b /\ b <= put[p].len
      BY <2>2 DEF WillWrite
    <3>2. put[p].off \in Nat /\ put[p].len \in Nat
      BY <3>1, LengthType DEF CInv, CTypeOK, Is, PutRecord
    <3>3. put[p].off < put[p].len
      BY <3>1, <3>2
    <3>4. QED
      BY <1>1, <1>6, <3>1, <3>3
  <2>5. len # NoSize => WillBeWhole(f, len)'
    BY <1>1, <1>4, <2>3, <2>4 DEF WillBeWhole
  <2>6. RowIsTrue'
    BY <1>1, <2>2, <2>3, <2>5 DEF RowIsTrue
  <2>7. QED
    BY <2>1, <2>6
<1>7. QED
  BY <1>3, <1>5, <1>6 DEF CInv

(***************************************************************************)
(* The theorems.                                                           *)
(***************************************************************************)
LEMMA CInvStep == CInv /\ LInv /\ [CNext]_cvars => CInv'
<1> SUFFICES ASSUME CInv, LInv, [CNext]_cvars PROVE CInv'
  OBVIOUS
<1>1. CASE CNext
  BY <1>1, ArrivesStep, OpenStep, CopyStep, CutOffStep, RenameTmpStep, UnlinkStep, RemoveChunkStep,
     ReadSizeStep, UpsertStep, DiesStep DEF CNext
<1>2. CASE UNCHANGED cvars
  <2>1. CTypeOK' /\ NodesAreHeld' /\ NamesDiffer' /\ ReceivedIsSum'
    BY <1>2 DEF cvars, CInv, CTypeOK, NodesAreHeld, Is, NamesDiffer, ReceivedIsSum, SizeOrNone
  <2>2. ASSUME ~torn' PROVE SameLength' /\ TmpIsWhole' /\ StoredIsWhole' /\ RowIsTrue' /\ InsertedIsSame'
    BY <1>2, <2>2 DEF cvars, CInv, SameLength, TmpIsWhole, StoredIsWhole, Stored, RowIsTrue,
                      InsertedIsSame, Is, WillBeWhole, WillWrite
  <2>3. QED
    BY <2>1, <2>2 DEF CInv
<1>3. QED
  BY <1>1, <1>2

\* A step of a PUT that leaves the row alone, or after which no chunk is removed.
LEMMA LengthStep ==
  ASSUME CInv, LInv, NEW p \in Writer, NEW r \in PutRecord \cup {NoPut},
         put' = [put EXCEPT ![p] = r], ~torn' => ~torn,
         r # NoPut /\ r.pc = "remove" => Overrun(r.len) /\ (~torn' => size' = NoSize),
         r # NoPut /\ r.pc \in {"read", "upsert"} => r.len \in Size,
         size' = size \/ (~torn => \A q \in Writer : ~Is(q, "remove"))
  PROVE  LInv'
<1>1. /\ put'[p] = r
      /\ \A q \in Writer \ {p} : put'[q] = put[q] /\ \A step : Is(q, step)' <=> Is(q, step)
  BY OthersStay DEF CInv
<1>2. \A step : Is(p, step)' <=> r # NoPut /\ r.pc = step
  BY <1>1 DEF Is
<1>3. LengthsFit'
  BY <1>1, <1>2 DEF LInv, LengthsFit, Stored
<1>4. ~torn' => RemovesNoRow'
  BY <1>1, <1>2 DEF LInv, RemovesNoRow
<1>5. QED
  BY <1>3, <1>4 DEF LInv

LEMMA LInvStep == CInv /\ LInv /\ [CNext]_cvars => LInv'
<1> SUFFICES ASSUME CInv, LInv, [CNext]_cvars PROVE LInv'
  OBVIOUS
<1>1. ASSUME NEW p \in Writer, NEW len \in Length, Arrives(p, len) PROVE LInv'
  <2> DEFINE r == [pc |-> "open", len |-> len, off |-> 0, node |-> NoNode, old |-> NoSize]
  <2>1. r \in PutRecord /\ r.pc = "open"
    BY ChunkAssumption DEF PutRecord, Length
  <2>2. put' = [put EXCEPT ![p] = r] /\ size' = size /\ (~torn' => ~torn)
    BY <1>1 DEF Arrives
  <2> HIDE DEF r
  <2>3. QED
    BY <2>1, <2>2, LengthStep
<1>2. ASSUME NEW p \in Writer, Open(p) PROVE LInv'
  <2> DEFINE r == [put[p] EXCEPT !.pc = "copy", !.node = TmpNode]
  <2>1. put[p] \in PutRecord
    BY <1>2 DEF Open, Is, CInv, CTypeOK
  <2>2. r.pc = "copy" /\ put' = [put EXCEPT ![p] = r] /\ size' = size /\ (~torn' => ~torn)
    BY <1>2, <2>1 DEF Open, Goes, PutRecord
  <2>3. TmpNode \in Node
    BY <1>2, NodeIsFree DEF Open, TmpNode, CInv, CTypeOK
  <2>4. r \in PutRecord
    BY <2>1, <2>3 DEF PutRecord
  <2> HIDE DEF r
  <2>5. QED
    BY <2>2, <2>4, LengthStep
<1>3. ASSUME NEW p \in Writer, Copy(p) PROVE LInv'
  <2> DEFINE r == [put[p] EXCEPT !.off = @ + 1]
  <2>1. put[p] \in PutRecord
    BY <1>3 DEF Copy, Is, CInv, CTypeOK
  <2>2. r.pc = "copy" /\ put' = [put EXCEPT ![p] = r] /\ size' = size /\ (~torn' => ~torn)
    BY <1>3, <2>1 DEF Copy, Is, PutRecord
  <2>3. put[p].off + 1 \in Length
    BY <1>3, <2>1, LengthType, ChunkAssumption DEF Copy, PutRecord, Length
  <2>4. r \in PutRecord
    BY <2>1, <2>3 DEF PutRecord
  <2> HIDE DEF r
  <2>5. QED
    BY <2>2, <2>4, LengthStep
<1>4. ASSUME NEW p \in Writer, CutOff(p) PROVE LInv'
  <2> DEFINE r == [put[p] EXCEPT !.pc = "unlink"]
  <2>1. put[p] \in PutRecord
    BY <1>4 DEF CutOff, Is, CInv, CTypeOK
  <2>2. r.pc = "unlink" /\ put' = [put EXCEPT ![p] = r] /\ size' = size /\ (~torn' => ~torn)
    BY <1>4, <2>1 DEF CutOff, Goes, PutRecord
  <2>3. r \in PutRecord
    BY <2>1 DEF PutRecord
  <2> HIDE DEF r
  <2>4. QED
    BY <2>2, <2>3, LengthStep
<1>5. ASSUME NEW p \in Writer, RenameTmp(p) PROVE LInv'
  <2>1. PICK step \in {"unlink", "remove", "read"} :
          /\ put' = [put EXCEPT ![p].pc = step]
          /\ step = "remove" => tmp # NoNode /\ Overrun(put[p].len)
          /\ step = "read" => ~Overrun(put[p].len)
    BY <1>5 DEF RenameTmp, Goes
  <2> DEFINE r == [put[p] EXCEPT !.pc = step]
  <2>2. put[p] \in PutRecord
    BY <1>5 DEF RenameTmp, Is, CInv, CTypeOK
  <2>3. r \in PutRecord /\ r.pc = step /\ r.len = put[p].len /\ put' = [put EXCEPT ![p] = r]
    BY <2>1, <2>2 DEF PutRecord
  <2>4. /\ size' = size /\ (~torn' => ~torn)
        /\ ~torn' => ~(tmp # NoNode /\ Overrun(put[p].len) /\ size # NoSize)
    BY <1>5 DEF RenameTmp
  <2>5. step = "read" => r.len \in Size
    BY <2>1, <2>2, <2>3, LengthType DEF PutRecord
  <2> HIDE DEF r
  <2>6. QED
    BY <2>1, <2>3, <2>4, <2>5, LengthStep
<1>6. ASSUME NEW p \in Writer, Unlink(p) \/ RemoveChunk(p) PROVE LInv'
  BY <1>6, LengthStep DEF Unlink, RemoveChunk, Ends
<1>7. ASSUME NEW p \in Writer, ReadSize(p) PROVE LInv'
  <2> DEFINE r == [put[p] EXCEPT !.pc = "upsert", !.old = size]
  <2>1. put[p] \in PutRecord
    BY <1>7 DEF ReadSize, Is, CInv, CTypeOK
  <2>2. r.pc = "upsert" /\ put' = [put EXCEPT ![p] = r] /\ size' = size /\ (~torn' => ~torn)
    BY <1>7, <2>1 DEF ReadSize, Goes, PutRecord
  <2>3. r \in PutRecord /\ r.len = put[p].len
    BY <2>1 DEF PutRecord, CInv, CTypeOK
  <2>4. r.len \in Size
    BY <1>7, <2>3 DEF ReadSize, LInv, LengthsFit, Stored
  <2> HIDE DEF r
  <2>5. QED
    BY <2>2, <2>3, <2>4, LengthStep
<1>8. ASSUME NEW p \in Writer, Upsert(p) PROVE LInv'
  <2>1. ASSUME ~torn, NEW q \in Writer, Is(q, "remove") PROVE FALSE
    <3>1. Is(p, "upsert") /\ put[q].len = put[p].len
      BY <1>8, <2>1 DEF Upsert, CInv, SameLength, Is
    <3>2. put[p].len \in Size /\ put[q].len \in Length /\ Overrun(put[q].len)
      BY <2>1, <3>1 DEF LInv, LengthsFit, Stored, Is, CInv, CTypeOK, PutRecord
    <3>3. QED
      BY <3>1, <3>2, LengthType
  <2>2. put' = [put EXCEPT ![p] = NoPut] /\ torn' = torn
    BY <1>8 DEF Upsert, Ends
  <2>3. QED
    BY <2>1, <2>2, LengthStep
<1>9. ASSUME Dies PROVE LInv'
  BY <1>9 DEF Dies, LInv, LengthsFit, RemovesNoRow, Stored, Is
<1>10. CASE UNCHANGED cvars
  BY <1>10 DEF cvars, LInv, LengthsFit, RemovesNoRow, Stored, Is
<1>11. QED
  BY <1>1, <1>2, <1>3, <1>4, <1>5, <1>6, <1>7, <1>8, <1>9, <1>10 DEF CNext

LEMMA LInvInit == CInit => LInv
  BY DEF CInit, LInv, LengthsFit, RemovesNoRow, Stored, Is

LEMMA CInvHolds == CSpec => []CInv
<1>1. CSpec => [](CInv /\ LInv)
  BY CInvInit, CInvStep, LInvInit, LInvStep, PTL DEF CSpec
<1>2. QED
  BY <1>1, PTL

\* Types of the files, the row and the PUTs.
THEOREM ChunkTypeCorrect == CSpec => []CTypeOK
  BY CInvHolds, PTL DEF CInv

\* received_bytes is the sum of the sizes of the rows, as long as no PUT replaces a
\* size that it did not read (UpsertChunk).
THEOREM ReceivedSum == CSpec => []ReceivedIsSum
  BY CInvHolds, PTL DEF CInv

\* However many PUTs share the temporary file, the chunk that is left has the bytes its
\* row speaks of, unless one was cut off, they differed in length, or one that is too long
\* took the place of a recorded chunk (WriteChunk).
THEOREM ChunkWhole == CSpec => []ChunkIsWhole
<1>1. CInv => ChunkIsWhole
  <2> SUFFICES ASSUME CInv, NoPuts, ~torn, size # NoSize
               PROVE  chunk # NoNode /\ data[chunk] = 1 .. size
    BY DEF ChunkIsWhole
  <2>1. \A p \in Writer : ~Stored(p) /\ \A n, b : ~WillWrite(p, n, b)
    BY DEF NoPuts, Stored, WillWrite, Is
  <2>2. chunk # NoNode /\ WillBeWhole(chunk, size)
    BY <2>1 DEF CInv, RowIsTrue
  <2>3. QED
    BY <2>1, <2>2 DEF WillBeWhole
<1>2. QED
  BY <1>1, CInvHolds, PTL
===============================================================================
