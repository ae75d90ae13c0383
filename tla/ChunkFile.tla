----------------------------- MODULE ChunkFile -------------------------------
(***************************************************************************)
(* One chunk of one session, below the steps of Upload: WriteChunk of      *)
(* storage/storage.go, which every PUT of the chunk does through the same  *)
(* temporary file, and UpsertChunk of store/uploads.go, which reads the    *)
(* size the chunk had and adds the difference to received_bytes.           *)
(*                                                                         *)
(* PUTs overlap when a browser tries again, or has two tabs.  All bodies   *)
(* are prefixes of the bytes that belong there.  A file is an inode; its   *)
(* data are the blocks written since it was truncated, and its size is the *)
(* last of them: a block before it that was not written is a hole.         *)
(***************************************************************************)
EXTENDS Naturals, FiniteSets

CONSTANTS
  Writer,     \* the PUTs of the chunk served at a time
  Node,       \* inodes
  MaxBlock,   \* blocks of a chunk
  MaxPuts,    \* bound: PUTs of a behaviour
  NoNode, NoPut,
  NoSize      \* no row

\* A body is read up to one block more than a chunk may have.
Block == 1 .. MaxBlock + 1
Length == 0 .. MaxBlock + 1
Size == 0 .. MaxBlock
Overrun(len) == len > MaxBlock
PutRecord == [pc : {"open", "copy", "unlink", "remove", "read", "upsert"},
              len : Length, off : Length, node : Node \cup {NoNode}, old : Size \cup {NoSize}]

\* There is always an inode for another file.
ASSUME ChunkAssumption ==
  /\ MaxBlock \in Nat /\ MaxPuts \in Nat /\ IsFiniteSet(Writer)
  /\ IsFiniteSet(Node) /\ Cardinality(Writer) < Cardinality(Node)
  /\ NoNode \notin Node /\ NoSize \notin Size /\ NoPut \notin PutRecord

VARIABLES
  tmp,       \* the inode of <idx>.tmp
  chunk,     \* the inode of <idx>
  data,      \* the blocks of an inode
  size,      \* upload_chunks.size_bytes; NoSize without row
  received,  \* upload_sessions.received_bytes, of this chunk
  put,       \* the PUTs
  puts,      \* PUTs so far
  torn,      \* a PUT was cut off whose inode another had or renamed, or stopped between
             \* a file and a row that disagree; PUTs of different lengths overlapped; or
             \* a body that is too long took the place of a chunk that has a row
  blind      \* a size was replaced that the PUT had not read

cvars == <<tmp, chunk, data, size, received, put, puts, torn, blind>>

CTypeOK ==
  /\ tmp \in Node \cup {NoNode} /\ chunk \in Node \cup {NoNode}
  /\ data \in [Node -> SUBSET Block]
  /\ size \in Size \cup {NoSize}
  /\ received \in Nat
  /\ put \in [Writer -> PutRecord \cup {NoPut}]
  /\ puts \in 0 .. MaxPuts
  /\ torn \in BOOLEAN /\ blind \in BOOLEAN

CInit ==
  /\ tmp = NoNode /\ chunk = NoNode
  /\ data = [n \in Node |-> {}]
  /\ size = NoSize /\ received = 0
  /\ put = [p \in Writer |-> NoPut] /\ puts = 0
  /\ torn = FALSE /\ blind = FALSE

Is(p, step) == put[p] # NoPut /\ put[p].pc = step
Others(p) == {q \in Writer \ {p} : put[q] # NoPut}
Goes(p, step) == put' = [put EXCEPT ![p].pc = step]
Ends(p) == put' = [put EXCEPT ![p] = NoPut]

Arrives(p, len) ==
  /\ put[p] = NoPut /\ puts < MaxPuts
  /\ puts' = puts + 1
  /\ put' = [put EXCEPT ![p] = [pc |-> "open", len |-> len, off |-> 0, node |-> NoNode, old |-> NoSize]]
  /\ torn' = (torn \/ \E q \in Others(p) : put[q].len # len)
  /\ UNCHANGED <<tmp, chunk, data, size, received, blind>>

Free(n) == n \notin {tmp, chunk} /\ \A p \in Writer : put[p] # NoPut => put[p].node # n
TmpNode == IF tmp = NoNode THEN CHOOSE n \in Node : Free(n) ELSE tmp

\* Mutant: the file is opened without being truncated.
Open_Appends(p) ==
  /\ Is(p, "open")
  /\ tmp' = TmpNode
  /\ data' = IF tmp = NoNode THEN [data EXCEPT ![TmpNode] = {}] ELSE data
  /\ put' = [put EXCEPT ![p].pc = "copy", ![p].node = TmpNode]
  /\ UNCHANGED <<chunk, size, received, puts, torn, blind>>

\* O_CREATE|O_TRUNC: whoever has the file open loses what it has written.
Open(p) ==
  /\ Is(p, "open")
  /\ tmp' = TmpNode
  /\ data' = [data EXCEPT ![TmpNode] = {}]
  /\ put' = [put EXCEPT ![p].pc = "copy", ![p].node = TmpNode]
  /\ UNCHANGED <<chunk, size, received, puts, torn, blind>>

\* io.Copy: the next block, at the writer's own offset.
Copy(p) ==
  /\ Is(p, "copy") /\ put[p].off < put[p].len
  /\ data' = [data EXCEPT ![put[p].node] = @ \cup {put[p].off + 1}]
  /\ put' = [put EXCEPT ![p].off = @ + 1]
  /\ UNCHANGED <<tmp, chunk, size, received, puts, torn, blind>>

\* The body ends early: the client has gone away, or the disk is full.
CutOff(p) ==
  /\ Is(p, "copy") /\ put[p].off < put[p].len
  /\ Goes(p, "unlink")
  /\ torn' = (torn \/ put[p].node = chunk \/ \E q \in Others(p) : put[q].node = put[p].node)
  /\ UNCHANGED <<tmp, chunk, data, size, received, puts, blind>>

\* Rename moves whatever bears the temporary name, or fails when another PUT has
\* moved it.
RenameTmp(p) ==
  /\ Is(p, "copy") /\ put[p].off = put[p].len
  /\ IF tmp = NoNode
     THEN Goes(p, "unlink") /\ UNCHANGED <<tmp, chunk>>
     ELSE /\ Goes(p, IF Overrun(put[p].len) THEN "remove" ELSE "read")
          /\ chunk' = tmp /\ tmp' = NoNode
  /\ torn' = (torn \/ (tmp # NoNode /\ Overrun(put[p].len) /\ size # NoSize)
                   \/ \E q \in Others(p) : Is(q, "unlink") /\ put[q].node = tmp)
  /\ UNCHANGED <<data, size, received, puts, blind>>

\* os.Remove(tmp)
Unlink(p) ==
  /\ Is(p, "unlink")
  /\ tmp' = NoNode
  /\ Ends(p)
  /\ UNCHANGED <<chunk, data, size, received, puts, torn, blind>>

\* The body was too long: the chunk's file is removed, whosever it is, and its row kept.
RemoveChunk(p) ==
  /\ Is(p, "remove")
  /\ chunk' = NoNode
  /\ Ends(p)
  /\ UNCHANGED <<tmp, data, size, received, puts, torn, blind>>

\* UpsertChunk: the size the chunk had ...
ReadSize(p) ==
  /\ Is(p, "read")
  /\ put' = [put EXCEPT ![p].pc = "upsert", ![p].old = size]
  /\ UNCHANGED <<tmp, chunk, data, size, received, puts, torn, blind>>

Minus(a, b) == IF a > b THEN a - b ELSE 0

\* Mutant: a chunk that is sent again is counted again.
NewReceived_Again(old, len) == received + len

\* What received_bytes becomes.
NewReceived(old, len) ==
  IF old = NoSize THEN received + len
  ELSE IF len >= old THEN received + (len - old) ELSE Minus(received, old - len)

\* ... and the row and the sum: a row that another PUT inserted meanwhile is an error,
\* one that it changed is not noticed.
Upsert(p) ==
  LET q == put[p]
  IN /\ Is(p, "upsert")
     /\ IF q.old = NoSize /\ size # NoSize
        THEN UNCHANGED <<size, received, blind>>
        ELSE /\ size' = q.len
             /\ received' = NewReceived(q.old, q.len)
             /\ blind' = (blind \/ size # q.old)
     /\ Ends(p)
     /\ UNCHANGED <<tmp, chunk, data, puts, torn>>

\* The process dies; the temporary file stays.
Dies ==
  /\ \E p \in Writer : put[p] # NoPut
  /\ put' = [p \in Writer |-> NoPut]
  /\ torn' = (torn \/ \E p \in Writer :
                 \/ Is(p, "copy") /\ put[p].off < put[p].len /\ put[p].node = chunk
                 \/ (Is(p, "read") \/ Is(p, "upsert")) /\ size \notin {NoSize, put[p].len})
  /\ UNCHANGED <<tmp, chunk, data, size, received, puts, blind>>

CNext ==
  \/ \E p \in Writer :
       \/ \E len \in Length : Arrives(p, len)
       \/ Open(p) \/ Copy(p) \/ CutOff(p) \/ RenameTmp(p)
       \/ Unlink(p) \/ RemoveChunk(p) \/ ReadSize(p) \/ Upsert(p)
  \/ Dies

CSpec == CInit /\ [][CNext]_cvars

(***************************************************************************)
(* Properties.                                                             *)
(***************************************************************************)
NoPuts == \A p \in Writer : put[p] = NoPut
SizeOrNone == IF size = NoSize THEN 0 ELSE size

\* When no PUT is under way the chunk's file has every block its row speaks of, and no
\* more: PUTs that overlap destroy each other's bytes, but write them again, unless
\* one of them is cut off, they differ in length (storage.go:397), or one that is too
\* long removes the chunk of another (upload.go:190).
ChunkIsWhole ==
  NoPuts /\ ~torn /\ size # NoSize => chunk # NoNode /\ data[chunk] = 1 .. size

\* received_bytes is the sum of the sizes, through every retry and retransmission, as
\* long as no PUT replaces a size that it did not read (store/uploads.go:111).
ReceivedIsSum == ~blind => received = SizeOrNone
=============================================================================
