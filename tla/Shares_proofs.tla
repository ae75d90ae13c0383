---------------------------- MODULE Shares_proofs ----------------------------
(***************************************************************************)
(* Proofs about Folders and Shares, for every set of folders, files, links *)
(* and visitors, every depth and every number of requests at a time.       *)
(***************************************************************************)
EXTENDS Shares, SequenceTheorems, TLAPS

Path == Seq(Segment)

(***************************************************************************)
(* Paths.                                                                  *)
(***************************************************************************)
LEMMA AppendPath ==
  ASSUME NEW p \in Path, NEW n \in Name
  PROVE  /\ Append(p, Live(n)) \in Path
         /\ Append(p, Live(n)) # <<>>
         /\ FolderDirRel(p) => FolderDirRel(Append(p, Live(n)))
<1>1. Live(n) \in Segment /\ Live(n).mark = NoFolder
  BY DEF Live, Segment
<1>2. Append(p, Live(n)) \in Path /\ Append(p, Live(n)) # <<>>
  BY <1>1, AppendProperties DEF Path
<1>3. ASSUME FolderDirRel(p), NEW i \in DOMAIN Append(p, Live(n))
      PROVE  Append(p, Live(n))[i].mark = NoFolder
  <2>1. Len(Append(p, Live(n))) = Len(p) + 1 /\ Len(p) \in Nat
        /\ DOMAIN p = 1 .. Len(p) /\ i \in 1 .. Len(p) + 1
    BY <1>1, <1>2, AppendProperties, LenProperties DEF Path
  <2>2. CASE i = Len(p) + 1
    BY <1>1, <2>2, AppendProperties DEF Path
  <2>3. CASE i \in 1 .. Len(p)
    <3>1. Append(p, Live(n))[i] = p[i]
      BY <1>1, <2>3, AppendProperties DEF Path
    <3>2. QED
      BY <1>3, <2>1, <2>3, <3>1 DEF FolderDirRel
  <2>4. QED
    BY <2>1, <2>2, <2>3
<1>4. QED
  BY <1>2, <1>3 DEF FolderDirRel

\* What is below the old prefix lies in the same place below the new one.
LEMMA RebasePath ==
  ASSUME NEW p \in Path, NEW old \in Path, NEW new \in Path
  PROVE  /\ Rebase(p, old, new) \in Path
         /\ new # <<>> => Rebase(p, old, new) # <<>>
         /\ FolderDirRel(p) /\ FolderDirRel(new) => FolderDirRel(Rebase(p, old, new))
<1> DEFINE t == SubSeq(p, Len(old) + 1, Len(p))
<1>1. /\ Len(p) \in Nat /\ Len(old) \in Nat /\ Len(new) \in Nat
      /\ DOMAIN p = 1 .. Len(p) /\ DOMAIN new = 1 .. Len(new)
      /\ \A i \in 1 .. Len(p) : p[i] \in Segment
  BY LenProperties, ElementOfSeq DEF Path
<1>2. \A i \in Len(old) + 1 .. Len(p) : p[i] \in Segment
  BY <1>1
<1>3. /\ t \in Path
      /\ Len(t) = IF Len(old) + 1 <= Len(p) THEN Len(p) - (Len(old) + 1) + 1 ELSE 0
      /\ \A i \in 1 .. Len(p) - (Len(old) + 1) + 1 : t[i] = p[Len(old) + 1 + i - 1]
  BY <1>1, <1>2, SubSeqProperties DEF Path
<1> HIDE DEF t
<1>4. Rebase(p, old, new) = new \o t
  BY DEF Rebase, t
<1>5. /\ new \o t \in Path /\ Len(new \o t) = Len(new) + Len(t)
      /\ \A i \in 1 .. Len(new) + Len(t) :
           (new \o t)[i] = IF i <= Len(new) THEN new[i] ELSE t[i - Len(new)]
      /\ DOMAIN (new \o t) = 1 .. Len(new \o t)
  BY <1>3, ConcatProperties, LenProperties DEF Path
<1>6. ASSUME new # <<>> PROVE new \o t # <<>>
  BY <1>3, <1>6, ConcatEqualIffEmpty DEF Path
<1>7. ASSUME FolderDirRel(p), FolderDirRel(new), NEW i \in DOMAIN (new \o t)
      PROVE  (new \o t)[i].mark = NoFolder
  <2>1. Len(t) \in Nat /\ i \in 1 .. Len(new) + Len(t)
    BY <1>3, <1>5, <1>7, LenProperties DEF Path
  <2>2. CASE i <= Len(new)
    <3>1. i \in 1 .. Len(new)
      BY <1>1, <2>1, <2>2
    <3>2. (new \o t)[i] = new[i]
      BY <1>5, <2>1, <2>2
    <3>3. QED
      BY <1>1, <1>7, <3>1, <3>2 DEF FolderDirRel
  <2>3. CASE i > Len(new)
    <3>1. i - Len(new) \in 1 .. Len(t) /\ ~(i <= Len(new))
      BY <1>1, <2>1, <2>3
    <3>2. PICK k \in 1 .. Len(t) : k = i - Len(new)
      BY <3>1
    <3>3. PICK j \in 1 .. Len(p) : j = Len(old) + 1 + k - 1
      <4>1. Len(t) = IF Len(old) + 1 <= Len(p) THEN Len(p) - (Len(old) + 1) + 1 ELSE 0
        BY <1>3
      <4>2. Len(t) # 0 /\ k \in Nat /\ 1 <= k /\ k <= Len(t)
        BY <2>1, <3>2
      <4>3. Len(old) + 1 <= Len(p) /\ Len(t) = Len(p) - (Len(old) + 1) + 1
        BY <4>1, <4>2
      <4>4. QED
        BY <1>1, <4>2, <4>3
    <3>4. (new \o t)[i] = t[k]
      BY <1>5, <2>1, <3>1, <3>2
    <3>5. t[k] = p[j]
      <4>1. k \in 1 .. Len(p) - (Len(old) + 1) + 1
        BY <1>1, <3>3
      <4>2. QED
        BY <1>3, <3>3, <4>1
    <3>6. p[j].mark = NoFolder
      BY <1>1, <1>7 DEF FolderDirRel
    <3>7. QED
      BY <3>4, <3>5, <3>6
  <2>4. QED
    BY <1>1, <2>1, <2>2, <2>3
<1>8. QED
  BY <1>4, <1>5, <1>6, <1>7 DEF FolderDirRel

LEMMA MovedPath ==
  ASSUME NEW p \in Path, NEW old \in Path, NEW new \in Path
  PROVE  /\ Moved(p, old, new) \in Path
         /\ p # <<>> /\ new # <<>> => Moved(p, old, new) # <<>>
         /\ FolderDirRel(p) /\ FolderDirRel(new) => FolderDirRel(Moved(p, old, new))
  BY RebasePath DEF Moved

LEMMA PrefixPath ==
  ASSUME NEW p \in Path
  PROVE  /\ p \in Prefixes(p)
         /\ Front(p) \in Path
         /\ \A q \in Prefixes(p) : q \in Path /\ (FolderDirRel(p) => FolderDirRel(q))
         /\ FolderDirRel(p) => FolderDirRel(Front(p))
<1>1. /\ Len(p) \in Nat /\ DOMAIN p = 1 .. Len(p)
      /\ \A i \in 1 .. Len(p) : p[i] \in Segment
  BY LenProperties, ElementOfSeq DEF Path
<1>2. ASSUME NEW l \in Int, l <= Len(p)
      PROVE  /\ SubSeq(p, 1, l) \in Path
             /\ FolderDirRel(p) => FolderDirRel(SubSeq(p, 1, l))
  <2>1. \A i \in 1 .. l : p[i] \in Segment
    BY <1>1, <1>2
  <2>2. /\ SubSeq(p, 1, l) \in Path
        /\ Len(SubSeq(p, 1, l)) = IF 1 <= l THEN l - 1 + 1 ELSE 0
        /\ \A i \in 1 .. l - 1 + 1 : SubSeq(p, 1, l)[i] = p[1 + i - 1]
    BY <1>2, <2>1, SubSeqProperties DEF Path
  <2>3. DOMAIN SubSeq(p, 1, l) = 1 .. Len(SubSeq(p, 1, l))
    BY <2>2, LenProperties DEF Path
  <2>4. ASSUME FolderDirRel(p), NEW i \in DOMAIN SubSeq(p, 1, l)
        PROVE  SubSeq(p, 1, l)[i].mark = NoFolder
    <3>1. i \in 1 .. l - 1 + 1 /\ 1 + i - 1 \in 1 .. Len(p)
      BY <1>1, <1>2, <2>2, <2>3, <2>4
    <3>2. SubSeq(p, 1, l)[i] = p[1 + i - 1]
      BY <2>2, <3>1
    <3>3. QED
      BY <1>1, <2>4, <3>1, <3>2 DEF FolderDirRel
  <2>5. QED
    BY <2>2, <2>4 DEF FolderDirRel
<1>3. p \in Prefixes(p)
  <2>1. SubSeq(p, 1, Len(p)) = p
    BY SubSeqFull DEF Path
  <2>2. Len(p) \in 0 .. Len(p)
    BY <1>1
  <2>3. QED
    BY <2>1, <2>2, Zenon DEF Prefixes
<1>4. ASSUME NEW q \in Prefixes(p) PROVE q \in Path /\ (FolderDirRel(p) => FolderDirRel(q))
  <2>1. PICK l \in 0 .. Len(p) : q = SubSeq(p, 1, l)
    BY <1>4, Zenon DEF Prefixes
  <2>2. l \in Int /\ l <= Len(p)
    BY <1>1
  <2>3. QED
    BY <1>2, <2>1, <2>2
<1>5. Front(p) \in Path /\ (FolderDirRel(p) => FolderDirRel(Front(p)))
  <2>1. Len(p) - 1 \in Int /\ Len(p) - 1 <= Len(p)
    BY <1>1
  <2>2. QED
    BY <1>2, <2>1 DEF Front
<1>6. QED
  BY <1>3, <1>4, <1>5

\* Marking the last segment of a path.
LEMMA MarkPath ==
  ASSUME NEW p \in Path, NEW d \in Folder
  PROVE  /\ [p EXCEPT ![Len(p)].mark = d] \in Path
         /\ p # <<>> => [p EXCEPT ![Len(p)].mark = d] # <<>>
<1>1. Len(p) \in Nat /\ p \in [1 .. Len(p) -> Segment] /\ (p # <<>> => Len(p) # 0)
  BY LenProperties, EmptySeq DEF Path
<1>2. CASE Len(p) = 0
  <2>1. p \in [{} -> Segment]
    <3>1. 1 .. Len(p) = {}
      BY <1>2
    <3>2. QED
      BY <1>1, <3>1
  <2>2. [p EXCEPT ![Len(p)].mark = d] = p
    BY <2>1
  <2>3. QED
    BY <1>1, <1>2, <2>2
<1>3. CASE Len(p) # 0
  <2> DEFINE e == [p[Len(p)] EXCEPT !.mark = d]
  <2>1. Len(p) \in 1 .. Len(p)
    BY <1>1, <1>3
  <2>2. p[Len(p)] \in Segment
    BY <1>1, <2>1
  <2>3. e \in Segment
    BY <2>2 DEF Segment
  <2>4. [p EXCEPT ![Len(p)] = e] \in Path /\ Len([p EXCEPT ![Len(p)] = e]) = Len(p)
    BY <2>1, <2>3, ExceptSeq DEF Path
  <2>5. [p EXCEPT ![Len(p)].mark = d] = [p EXCEPT ![Len(p)] = e]
    OBVIOUS
  <2>6. Len(<<>>) = 0
    BY EmptySeq
  <2>7. QED
    BY <1>3, <2>4, <2>5, <2>6
<1>4. QED
  BY <1>2, <1>3

(***************************************************************************)
(* Paths as concatenations.                                                *)
(***************************************************************************)
LastMark(p) == p[Len(p)].mark

LEMMA ConcatPath ==
  ASSUME NEW q \in Path, NEW t \in Path
  PROVE  /\ q \o t \in Path /\ Len(q \o t) = Len(q) + Len(t)
         /\ Len(q) \in Nat /\ Len(t) \in Nat
         /\ (Len(t) = 0 <=> t = <<>>) /\ q \o <<>> = q /\ <<>> \o q = q /\ <<>> \in Path
  BY ConcatProperties, ConcatEmptySeq, LenProperties, EmptySeq DEF Path

LEMMA PrefixIff ==
  ASSUME NEW q \in Path, NEW p \in Path
  PROVE  IsPrefix(q, p) <=> \E t \in Path : p = q \o t
<1>1. SubSeq(q, 1, Len(q)) = q /\ SubSeq(p, 1, Len(p)) = p /\ Len(q) \in Nat /\ Len(p) \in Nat
  BY SubSeqFull, ConcatPath DEF Path
<1>2. ASSUME IsPrefix(q, p) PROVE \E t \in Path : p = q \o t
  <2> DEFINE t == SubSeq(p, Len(q) + 1, Len(p))
  <2>1. Len(q) <= Len(p) /\ SubSeq(p, 1, Len(q)) = q
    BY <1>1, <1>2 DEF IsPrefix
  <2>2. 1 \in 1 .. Len(p) + 1 /\ Len(q) \in 1 - 1 .. Len(p) /\ Len(p) \in Len(q) .. Len(p)
    BY <1>1, <2>1
  <2>3. SubSeq(p, 1, Len(q)) \o t = SubSeq(p, 1, Len(p))
    BY <2>2, ConcatAdjacentSubSeq DEF Path
  <2>4. \A i \in Len(q) + 1 .. Len(p) : p[i] \in Segment
    BY <1>1, ElementOfSeq DEF Path
  <2>5. t \in Path
    BY <1>1, <2>4, SubSeqProperties DEF Path
  <2>6. QED
    BY <1>1, <2>1, <2>3, <2>5
<1>3. ASSUME NEW t \in Path, p = q \o t PROVE IsPrefix(q, p)
  <2>1. Len(p) = Len(q) + Len(t) /\ Len(t) \in Nat
    BY <1>3, ConcatPath
  <2>2. CASE Len(q) = 0
    <3>1. SubSeq(p, 1, Len(q)) = <<>> /\ SubSeq(q, 1, Len(q)) = <<>>
      BY <2>2, SubSeqEmpty
    <3>2. QED
      BY <1>1, <2>2, <3>1 DEF IsPrefix
  <2>3. CASE Len(q) # 0
    <3>1. 1 \in 1 .. Len(q) /\ Len(q) \in 1 .. Len(q)
      BY <1>1, <2>3
    <3>2. SubSeq(q \o t, 1, Len(q)) = SubSeq(q, 1, Len(q))
      BY <3>1, SubSeqOfConcat1 DEF Path
    <3>3. QED
      BY <1>1, <1>3, <2>1, <3>2 DEF IsPrefix
  <2>4. QED
    BY <2>2, <2>3
<1>4. QED
  BY <1>2, <1>3

LEMMA PrefixesIff ==
  ASSUME NEW p \in Path, NEW q
  PROVE  q \in Prefixes(p) <=> q \in Path /\ IsPrefix(q, p)
<1>1. Len(p) \in Nat /\ SubSeq(p, 1, Len(p)) = p
  BY SubSeqFull, ConcatPath DEF Path
<1>2. ASSUME q \in Prefixes(p) PROVE q \in Path /\ IsPrefix(q, p)
  <2>1. PICK l \in 0 .. Len(p) : q = SubSeq(p, 1, l)
    BY <1>2, Zenon DEF Prefixes
  <2>2. q \in Path
    BY <1>2, PrefixPath
  <2>3. 1 \in 1 .. Len(p) + 1 /\ l \in 1 - 1 .. Len(p) /\ Len(p) \in l .. Len(p)
    BY <1>1, <2>1
  <2>4. q \o SubSeq(p, l + 1, Len(p)) = p
    BY <1>1, <2>1, <2>3, ConcatAdjacentSubSeq DEF Path
  <2>5. \A i \in l + 1 .. Len(p) : p[i] \in Segment
    BY <1>1, ElementOfSeq DEF Path
  <2>6. SubSeq(p, l + 1, Len(p)) \in Path
    BY <1>1, <2>5, SubSeqProperties DEF Path
  <2>7. QED
    BY <2>2, <2>4, <2>6, PrefixIff
<1>3. ASSUME q \in Path, IsPrefix(q, p) PROVE q \in Prefixes(p)
  <2>1. SubSeq(q, 1, Len(q)) = q /\ Len(q) \in Nat
    BY <1>3, SubSeqFull, ConcatPath DEF Path
  <2>2. q = SubSeq(p, 1, Len(q)) /\ Len(q) \in 0 .. Len(p)
    BY <1>1, <1>3, <2>1 DEF IsPrefix
  <2>3. QED
    BY <2>2, Zenon DEF Prefixes
<1>4. QED
  BY <1>2, <1>3

LEMMA RebaseConcat ==
  ASSUME NEW q \in Path, NEW t \in Path, NEW new \in Path
  PROVE  Rebase(q \o t, q, new) = new \o t
<1>1. /\ Len(q \o t) = Len(q) + Len(t) /\ Len(q) \in Nat /\ Len(t) \in Nat
      /\ SubSeq(t, 1, Len(t)) = t
  BY ConcatPath, SubSeqFull DEF Path
<1>2. SubSeq(q \o t, Len(q) + 1, Len(q) + Len(t)) = t
  <2>1. CASE Len(t) = 0
    <3>1. SubSeq(q \o t, Len(q) + 1, Len(q) + Len(t)) = <<>>
      BY <1>1, <2>1, SubSeqEmpty
    <3>2. QED
      BY <2>1, <3>1, ConcatPath
  <2>2. CASE Len(t) # 0
    <3>1. /\ Len(q) + 1 \in Len(q) + 1 .. Len(q) + Len(t)
          /\ Len(q) + Len(t) \in Len(q) + 1 .. Len(q) + Len(t)
      BY <1>1, <2>2
    <3>2. SubSeq(q \o t, Len(q) + 1, Len(q) + Len(t))
            = SubSeq(t, Len(q) + 1 - Len(q), Len(q) + Len(t) - Len(q))
      BY <3>1, SubSeqOfConcat2 DEF Path
    <3>3. Len(q) + 1 - Len(q) = 1 /\ Len(q) + Len(t) - Len(q) = Len(t)
      BY <1>1
    <3>4. QED
      BY <1>1, <3>2, <3>3
  <2>3. QED
    BY <2>1, <2>2
<1>3. QED
  BY <1>1, <1>2 DEF Rebase

LEMMA UnderIff ==
  ASSUME NEW p \in Path, NEW q \in Path
  PROVE  Under(p, q) <=> \E t \in Path : t # <<>> /\ p = q \o t
<1>1. \A t \in Path : q \o t = q <=> t = <<>>
  BY ConcatEqualIffEmpty DEF Path
<1>2. QED
  BY <1>1, PrefixIff DEF Under, IsStrictPrefix

\* Moving a prefix.
LEMMA MovedIs ==
  ASSUME NEW p \in Path, NEW old \in Path, NEW new \in Path
  PROVE  /\ \A t \in Path : p = old \o t => Moved(p, old, new) = new \o t
         /\ ~IsPrefix(old, p) => Moved(p, old, new) = p
<1>1. ASSUME NEW t \in Path, p = old \o t PROVE Moved(p, old, new) = new \o t
  <2>1. p = old \/ Under(p, old)
    BY <1>1, UnderIff, ConcatPath
  <2>2. QED
    BY <1>1, <2>1, RebaseConcat DEF Moved
<1>2. ASSUME ~IsPrefix(old, p) PROVE Moved(p, old, new) = p
  <2>1. p # old /\ ~Under(p, old)
    BY <1>2, PrefixIff, ConcatPath DEF Under, IsStrictPrefix
  <2>2. QED
    BY <2>1 DEF Moved
<1>3. QED
  BY <1>1, <1>2

LEMMA AppendIs ==
  ASSUME NEW t \in Path, NEW s \in Segment
  PROVE  /\ Append(t, s) = t \o <<s>> /\ <<s>> \in Path /\ <<s>> # <<>>
         /\ Append(t, s) \in Path /\ Append(t, s) # <<>>
<1>1. <<s>> \in Path /\ Append(<<>>, s) = <<s>> /\ <<s>> # <<>>
  BY EmptySeq, AppendProperties DEF Path
<1>2. Append(t, s) = t \o <<s>> /\ Append(t, s) \in Path /\ Append(t, s) # <<>>
  BY AppendIsConcat, AppendProperties DEF Path
<1>3. QED
  BY <1>1, <1>2

LEMMA AppendConcat ==
  ASSUME NEW q \in Path, NEW t \in Path, NEW s \in Segment
  PROVE  Append(q \o t, s) = q \o Append(t, s)
<1>1. q \o t \in Path /\ <<s>> \in Path
  BY ConcatPath, AppendIs
<1>2. (q \o t) \o <<s>> = q \o (t \o <<s>>)
  BY <1>1, ConcatAssociative DEF Path
<1>3. Append(q \o t, s) = (q \o t) \o <<s>> /\ Append(t, s) = t \o <<s>>
  BY <1>1, AppendIs
<1>4. QED
  BY <1>2, <1>3

LEMMA SplitAppend ==
  ASSUME NEW q \in Path, NEW t \in Path, NEW p \in Path, NEW s \in Segment,
         q \o t = Append(p, s), t # <<>>
  PROVE  \E u \in Path : t = Append(u, s) /\ p = q \o u
<1>1. PICK u \in Path, e \in Segment : t = Append(u, e)
  BY SequenceEmptyOrAppend DEF Path
<1>2. q \o t = Append(q \o u, e)
  BY <1>1, AppendConcat
<1>3. q \o u \in Path
  BY ConcatPath
<1> DEFINE w == q \o u
<1>4. w \in Seq(Segment) /\ p \in Seq(Segment) /\ Append(w, e) = Append(p, s)
  BY <1>2, <1>3 DEF Path
<1> HIDE DEF w
<1>5. w = p /\ e = s
  BY <1>4, AppendInjective
<1>6. QED
  BY <1>1, <1>5 DEF w

LEMMA FirstPart ==
  ASSUME NEW a \in Path, NEW b \in Path, NEW n \in Nat, n <= Len(a)
  PROVE  SubSeq(a \o b, 1, n) = SubSeq(a, 1, n)
<1>1. CASE n = 0
  BY <1>1, SubSeqEmpty
<1>2. CASE n # 0
  <2>1. 1 \in 1 .. Len(a) /\ n \in 1 .. Len(a)
    BY <1>2, ConcatPath
  <2>2. QED
    BY <2>1, SubSeqOfConcat1 DEF Path
<1>3. QED
  BY <1>1, <1>2

\* Two prefixes of one path: one is a prefix of the other.
LEMMA Comparable ==
  ASSUME NEW a \in Path, NEW b \in Path, NEW p \in Path, IsPrefix(a, p), IsPrefix(b, p)
  PROVE  IsPrefix(a, b) \/ IsPrefix(b, a)
<1>1. PICK u \in Path : p = a \o u
  BY PrefixIff
<1>2. PICK t \in Path : p = b \o t
  BY PrefixIff
<1>3. Len(a) \in Nat /\ Len(b) \in Nat
  BY ConcatPath
<1>4. CASE Len(a) <= Len(b)
  <2>1. SubSeq(a \o u, 1, Len(a)) = SubSeq(a, 1, Len(a))
    BY <1>3, FirstPart
  <2>2. SubSeq(b \o t, 1, Len(a)) = SubSeq(b, 1, Len(a))
    BY <1>3, <1>4, FirstPart
  <2>3. QED
    BY <1>1, <1>2, <1>4, <2>1, <2>2 DEF IsPrefix
<1>5. CASE ~(Len(a) <= Len(b))
  <2>1. Len(b) <= Len(a)
    BY <1>3, <1>5
  <2>2. SubSeq(b \o t, 1, Len(b)) = SubSeq(b, 1, Len(b))
    BY <1>3, FirstPart
  <2>3. SubSeq(a \o u, 1, Len(b)) = SubSeq(a, 1, Len(b))
    BY <1>3, <2>1, FirstPart
  <2>4. QED
    BY <1>1, <1>2, <2>1, <2>2, <2>3 DEF IsPrefix
<1>6. QED
  BY <1>4, <1>5

LEMMA FolderDirRelConcat ==
  ASSUME NEW q \in Path, NEW t \in Path
  PROVE  FolderDirRel(q \o t) <=> FolderDirRel(q) /\ FolderDirRel(t)
<1>1. /\ Len(q) \in Nat /\ Len(t) \in Nat /\ q \o t \in Path
      /\ DOMAIN q = 1 .. Len(q) /\ DOMAIN t = 1 .. Len(t)
      /\ DOMAIN (q \o t) = 1 .. Len(q) + Len(t)
  BY ConcatPath, LenProperties DEF Path
<1>2. \A i \in 1 .. Len(q) + Len(t) :
        (q \o t)[i] = IF i <= Len(q) THEN q[i] ELSE t[i - Len(q)]
  BY ConcatProperties DEF Path
<1>3. ASSUME FolderDirRel(q), FolderDirRel(t) PROVE FolderDirRel(q \o t)
  <2>1. <<>> \in Path /\ <<>> \o t = t
    BY ConcatPath
  <2>2. Rebase(<<>> \o t, <<>>, q) = q \o t
    BY <2>1, RebaseConcat
  <2>3. FolderDirRel(Rebase(t, <<>>, q))
    BY <1>3, <2>1, RebasePath
  <2>4. QED
    BY <2>1, <2>2, <2>3
<1>4. ASSUME FolderDirRel(q \o t) PROVE FolderDirRel(q)
  BY <1>1, <1>2, <1>4 DEF FolderDirRel
<1>5. ASSUME FolderDirRel(q \o t), NEW i \in 1 .. Len(t) PROVE t[i].mark = NoFolder
  <2>1. PICK j \in 1 .. Len(q) + Len(t) : j = Len(q) + i
    BY <1>1
  <2>2. ~(j <= Len(q)) /\ j - Len(q) = i
    BY <1>1, <2>1
  <2>3. (q \o t)[j] = t[i]
    BY <1>2, <2>2
  <2>4. QED
    BY <1>1, <1>5, <2>3 DEF FolderDirRel
<1>6. QED
  BY <1>1, <1>3, <1>4, <1>5 DEF FolderDirRel

LEMMA LastMarks ==
  ASSUME NEW q \in Path, NEW t \in Path
  PROVE  /\ t # <<>> => LastMark(q \o t) = LastMark(t)
         /\ \A s \in Segment : LastMark(Append(q, s)) = s.mark
         /\ q # <<>> /\ FolderDirRel(q) => LastMark(q) = NoFolder
<1>1. ASSUME NEW s \in Segment PROVE LastMark(Append(q, s)) = s.mark
  BY AppendProperties DEF LastMark, Path
<1>2. ASSUME NEW u \in Path, NEW s \in Segment PROVE LastMark(Append(u, s)) = s.mark
  BY AppendProperties DEF LastMark, Path
<1>3. ASSUME t # <<>> PROVE LastMark(q \o t) = LastMark(t)
  <2>1. PICK u \in Path, s \in Segment : t = Append(u, s)
    BY <1>3, SequenceEmptyOrAppend DEF Path
  <2>2. q \o t = Append(q \o u, s)
    BY <2>1, AppendConcat
  <2>3. q \o u \in Path
    BY ConcatPath
  <2>4. QED
    BY <1>2, <2>1, <2>2, <2>3
<1>4. ASSUME q # <<>>, FolderDirRel(q) PROVE LastMark(q) = NoFolder
  <2>1. Len(q) \in 1 .. Len(q) /\ DOMAIN q = 1 .. Len(q)
    BY <1>4, ConcatPath, LenProperties, EmptySeq DEF Path
  <2>2. QED
    BY <1>4, <2>1 DEF LastMark, FolderDirRel
<1>5. QED
  BY <1>1, <1>3, <1>4

LEMMA MarkedLast ==
  ASSUME NEW p \in Path, p # <<>>, NEW d \in Folder
  PROVE  LastMark([p EXCEPT ![Len(p)].mark = d]) = d
<1> DEFINE e == [p[Len(p)] EXCEPT !.mark = d]
<1>1. Len(p) \in 1 .. Len(p)
  BY ConcatPath, EmptySeq DEF Path
<1>2. p[Len(p)] \in Segment
  BY <1>1, ElementOfSeq DEF Path
<1>3. e \in Segment /\ e.mark = d
  BY <1>2 DEF Segment
<1>4. [p EXCEPT ![Len(p)].mark = d] = [p EXCEPT ![Len(p)] = e]
  OBVIOUS
<1> HIDE DEF e
<1>5. Len([p EXCEPT ![Len(p)] = e]) = Len(p) /\ [p EXCEPT ![Len(p)] = e][Len(p)] = e
  BY <1>1, <1>3, ExceptSeq DEF Path
<1>6. QED
  BY <1>3, <1>4, <1>5 DEF LastMark

(***************************************************************************)
(* Folders: types, and the bytes of a file.                                *)
(*                                                                         *)
(* A path that is in use is never empty: the root is nobody's folder, a    *)
(* request names its target before it starts and a session its directory   *)
(* when it is opened, so that the bytes go to no directory but these.      *)
(***************************************************************************)
TreeInv ==
  /\ fstat \in [Folder -> {"unused", "active", "deleted"}]
  /\ parent \in [Folder -> Parents]
  /\ fname \in [Folder -> Name \cup {"none"}]
  /\ path \in [Folder -> Path]
  /\ \A d \in Folder : Used(d) => path[d] # <<>>

Renaming == {"renameRows", "renameFiles", "renameDir"}

ReqInv ==
  /\ req \in [Request -> ReqRecord]
  /\ ops \in 0 .. MaxOps
  /\ \A r \in Request :
       /\ req[r].pc \in Renaming \cup {"insert"} => req[r].new # <<>>
       /\ req[r].pc \in Renaming => req[r].id \in Folder /\ FolderDirRel(req[r].new)

DiskInv ==
  /\ dirs \subseteq Path /\ \A p \in dirs : FolderDirRel(p)
  /\ up \in [File -> {"none", "open", "row", "merged", "done"}]
  /\ file \in [File -> FileRecord]
  /\ \A x \in File : up[x] # "none" => file[x].dir # <<>> /\ FolderDirRel(file[x].dir)
  /\ BytesAreKept

RaceInv == raced \subseteq Request \cup File /\ spoiled \in BOOLEAN

DInv == TreeInv /\ ReqInv /\ DiskInv /\ RaceInv

LEMMA DInvTypes == DInv => DTypeOK
  BY DEF DInv, TreeInv, ReqInv, DiskInv, RaceInv, DTypeOK, Path

LEMMA PathTypes ==
  /\ <<>> \in Path
  /\ ReqRecord = [pc : Steps, id : Parents, parent : Parents, name : Name \cup {"none"},
                  old : Path, new : Path]
  /\ FileRecord = [dir : Path, rel : Path, folder : Parents,
                   status : {"none", "active", "trashed", "gone"}, disk : Path]
  /\ NoReq \in ReqRecord /\ NoFileYet \in FileRecord
<1>1. <<>> \in Path
  BY EmptySeq DEF Path
<1>2. QED
  BY <1>1 DEF Path, ReqRecord, FileRecord, NoReq, NoFileYet, Steps, Parents, Lost

LEMMA DInvInit == DInit => DInv
<1> SUFFICES ASSUME DInit PROVE DInv
  OBVIOUS
<1>1. TreeInv
  BY PathTypes DEF DInit, TreeInv, Used, Parents
<1>2. ReqInv
  BY PathTypes, FoldersAssumption DEF DInit, ReqInv, NoReq, Renaming
<1>3. DiskInv
  <2>1. FolderDirRel(<<>>)
    BY EmptySeq DEF FolderDirRel
  <2>2. QED
    BY <2>1, PathTypes DEF DInit, DiskInv, BytesAreKept
<1>4. QED
  BY <1>1, <1>2, <1>3 DEF DInv, RaceInv, DInit

LEMMA RaceStep ==
  ASSUME RaceInv, NEW b \in BOOLEAN, Racing(b)
  PROVE  RaceInv'
  BY Zenon DEF RaceInv, Racing

LEMMA AskStep ==
  ASSUME ReqInv, NEW r \in Request, NEW q \in ReqRecord, Ask(r, q),
         q.pc \in Renaming \cup {"insert"} => q.new # <<>>,
         q.pc \in Renaming => q.id \in Folder /\ FolderDirRel(q.new)
  PROVE  ReqInv'
<1>1. req' = [req EXCEPT ![r] = q] /\ req' \in [Request -> ReqRecord]
  BY DEF Ask, ReqInv
<1>2. ops' \in 0 .. MaxOps
  BY FoldersAssumption DEF Ask, ReqInv
<1>3. ASSUME NEW s \in Request
      PROVE  /\ req'[s].pc \in Renaming \cup {"insert"} => req'[s].new # <<>>
             /\ req'[s].pc \in Renaming => req'[s].id \in Folder /\ FolderDirRel(req'[s].new)
  <2>1. CASE s = r
    BY <1>1, <2>1 DEF ReqInv
  <2>2. CASE s # r
    <3>1. req'[s] = req[s]
      BY <1>1, <2>2 DEF ReqInv
    <3>2. QED
      BY <3>1 DEF ReqInv
  <2>3. QED
    BY <2>1, <2>2
<1>4. QED
  BY <1>1, <1>2, <1>3 DEF ReqInv

LEMMA GotoStep ==
  ASSUME ReqInv, NEW r \in Request, NEW step \in Steps \ {"insert"}, Goto(r, step),
         step \in Renaming => req[r].pc \in Renaming
  PROVE  ReqInv'
<1> DEFINE q == IF step = "idle" THEN NoReq ELSE [req[r] EXCEPT !.pc = step]
<1>1. req[r] \in ReqRecord
  BY DEF ReqInv
<1>2. q \in ReqRecord
  BY <1>1, PathTypes
<1>3. req' = [req EXCEPT ![r] = q] /\ ops' = ops
  BY DEF Goto
<1>4. /\ q.pc \in Renaming => q.new # <<>> /\ q.id \in Folder /\ FolderDirRel(q.new)
      /\ q.pc # "insert"
  <2>1. CASE step = "idle"
    BY <2>1 DEF NoReq, Renaming
  <2>2. CASE step # "idle"
    <3>1. q.pc = step /\ q.new = req[r].new /\ q.id = req[r].id
      BY <1>1, <2>2, PathTypes
    <3>2. QED
      BY <3>1 DEF ReqInv
  <2>3. QED
    BY <2>1, <2>2
<1> HIDE DEF q
<1>5. ASSUME NEW s \in Request
      PROVE  /\ req'[s].pc \in Renaming \cup {"insert"} => req'[s].new # <<>>
             /\ req'[s].pc \in Renaming => req'[s].id \in Folder /\ FolderDirRel(req'[s].new)
  <2>1. CASE s = r
    <3>1. req'[s] = q
      BY <1>3, <2>1 DEF ReqInv
    <3>2. QED
      BY <1>4, <3>1
  <2>2. CASE s # r
    <3>1. req'[s] = req[s]
      BY <1>3, <2>2 DEF ReqInv
    <3>2. QED
      BY <3>1 DEF ReqInv
  <2>3. QED
    BY <2>1, <2>2
<1>6. req' \in [Request -> ReqRecord]
  BY <1>2, <1>3 DEF ReqInv
<1>7. QED
  BY <1>3, <1>5, <1>6 DEF ReqInv

\* os.MkdirAll makes directories and takes none away.
LEMMA EnsureDirStep ==
  ASSUME DiskInv, NEW p \in Path, FolderDirRel(p), EnsureDir(p)
  PROVE  /\ dirs \subseteq dirs' /\ p \in dirs'
         /\ dirs' \subseteq Path /\ \A d \in dirs' : FolderDirRel(d)
  BY PrefixPath DEF DiskInv, EnsureDir

\* More directories, and the files as they are.
LEMMA DiskGrows ==
  ASSUME DiskInv, UNCHANGED <<up, file>>, dirs \subseteq dirs', dirs' \subseteq Path,
         \A p \in dirs' : FolderDirRel(p)
  PROVE  DiskInv'
  BY DEF DiskInv, BytesAreKept, HasRow

\* Statements on the rows leave a file's bytes where they are.
LEMMA DiskRows ==
  ASSUME DiskInv, UNCHANGED <<up, dirs>>, file' \in [File -> FileRecord],
         \A x \in File : /\ file'[x].dir = file[x].dir /\ file'[x].disk = file[x].disk
                         /\ up[x] \in {"merged", "done"} /\ HasRow(x)' => HasRow(x)
  PROVE  DiskInv'
  BY DEF DiskInv, BytesAreKept, HasRow

\* One step of one upload.
LEMMA DiskUpload ==
  ASSUME DiskInv, NEW x \in File, NEW q \in FileRecord,
         NEW from \in {"none", "open", "row", "merged"},
         NEW to \in {"open", "row", "merged", "done"},
         Upload(x, from, to, q),
         dirs \subseteq dirs', dirs' \subseteq Path, \A p \in dirs' : FolderDirRel(p),
         q.dir # <<>> /\ FolderDirRel(q.dir),
         to \in {"merged", "done"} /\ q.status \in {"active", "trashed"}
           => q.disk \in dirs' \ {Lost}
  PROVE  DiskInv'
<1>1. /\ up' = [up EXCEPT ![x] = to] /\ up' \in [File -> {"none", "open", "row", "merged", "done"}]
      /\ file' = [file EXCEPT ![x] = q] /\ file' \in [File -> FileRecord]
  BY DEF Upload, DiskInv
<1>2. ASSUME NEW y \in File
      PROVE  /\ up'[y] # "none" => file'[y].dir # <<>> /\ FolderDirRel(file'[y].dir)
             /\ up'[y] \in {"merged", "done"} /\ HasRow(y)' => file'[y].disk \in dirs' \ {Lost}
  <2>1. CASE y = x
    <3>1. up'[y] = to /\ file'[y] = q
      BY <1>1, <2>1 DEF DiskInv
    <3>2. QED
      BY <3>1 DEF HasRow
  <2>2. CASE y # x
    <3>1. up'[y] = up[y] /\ file'[y] = file[y]
      BY <1>1, <2>2 DEF DiskInv
    <3>2. QED
      BY <3>1 DEF DiskInv, BytesAreKept, HasRow
  <2>3. QED
    BY <2>1, <2>2
<1>3. QED
  BY <1>1, <1>2 DEF DiskInv, BytesAreKept

\* A directory that is moved takes along the bytes that are in it, and no other
\* operation on directories touches a file.
LEMMA DiskRename ==
  ASSUME DiskInv, NEW old \in Path, NEW new \in Path, new # <<>>, FolderDirRel(new),
         RenameDir(old, new), UNCHANGED up
  PROVE  DiskInv'
<1>1. CASE old \notin dirs /\ EnsureDir(new) /\ UNCHANGED file
  BY <1>1, EnsureDirStep, DiskGrows
<1>2. CASE old \in dirs /\ new \in dirs /\ UNCHANGED <<dirs, file>>
  BY <1>2, DiskGrows DEF DiskInv
<1>3. CASE EnsureDir(Front(new)) /\ UNCHANGED file
  <2>1. Front(new) \in Path /\ FolderDirRel(Front(new))
    BY PrefixPath
  <2>2. QED
    BY <1>3, <2>1, EnsureDirStep, DiskGrows
<1>4. CASE /\ old \in dirs /\ new \notin dirs /\ ~Under(new, old)
           /\ dirs' = {Moved(p, old, new) : p \in dirs} \cup Prefixes(new)
           /\ file' = Carry(old, new)
  <2>1. dirs' \subseteq Path /\ \A p \in dirs' : FolderDirRel(p)
    BY <1>4, MovedPath, PrefixPath DEF DiskInv
  <2>2. ASSUME NEW x \in File
        PROVE  /\ file'[x] \in FileRecord /\ file'[x].dir = file[x].dir
               /\ file'[x].status = file[x].status
               /\ file'[x].disk = IF file[x].disk = Lost THEN Lost
                                  ELSE Moved(file[x].disk, old, new)
    <3> DEFINE m == IF file[x].disk = Lost THEN Lost ELSE Moved(file[x].disk, old, new)
    <3>1. file[x] \in FileRecord /\ file[x].disk \in Path
      BY PathTypes DEF DiskInv
    <3>2. m \in Path
      BY <3>1, MovedPath, PathTypes DEF Lost
    <3>3. file'[x] = [file[x] EXCEPT !.disk = m]
      BY <1>4 DEF Carry
    <3> HIDE DEF m
    <3>4. file'[x] \in FileRecord /\ file'[x].disk = m /\ file'[x].dir = file[x].dir
          /\ file'[x].status = file[x].status
      BY <3>1, <3>2, <3>3, PathTypes
    <3>5. QED
      BY <3>4 DEF m
  <2>3. file' \in [File -> FileRecord]
    <3>1. file' = [x \in File |-> file'[x]]
      BY <1>4 DEF Carry
    <3>2. QED
      BY <2>2, <3>1
  <2>4. ASSUME NEW x \in File, up[x] \in {"merged", "done"}, HasRow(x)'
        PROVE  file'[x].disk \in dirs' \ {Lost}
    <3>1. file[x].disk \in dirs \ {Lost} /\ file[x].disk \in Path
      BY <2>2, <2>4 DEF DiskInv, BytesAreKept, HasRow
    <3>2. file'[x].disk = Moved(file[x].disk, old, new)
      BY <2>2, <3>1
    <3>3. QED
      BY <1>4, <3>1, <3>2, MovedPath DEF Lost
  <2>5. \A x \in File : up'[x] # "none" => file'[x].dir # <<>> /\ FolderDirRel(file'[x].dir)
    BY <2>2 DEF DiskInv
  <2>6. QED
    BY <2>1, <2>3, <2>4, <2>5 DEF DiskInv, BytesAreKept
<1>5. QED
  BY <1>1, <1>2, <1>3, <1>4 DEF RenameDir

\* The rows of the folders when one is moved, and when a tree is deleted.
LEMMA RenameTree ==
  ASSUME TreeInv, NEW d \in Folder, NEW p \in Parents, NEW n \in Name \cup {"none"},
         NEW new \in Path, new # <<>>, RenameFolderPathWithParent(d, p, n, new)
  PROVE  TreeInv'
<1>1. ASSUME NEW e \in Folder
      PROVE  /\ path'[e] \in Path /\ (Used(e) => path'[e] # <<>>)
             /\ path'[e] = RenamedPaths(d, new)[e]
  <2>1. path[e] \in Path /\ path[d] \in Path
    BY DEF TreeInv
  <2>2. path'[e] = IF e = d THEN new
                   ELSE IF Under(path[e], path[d]) THEN Rebase(path[e], path[d], new)
                   ELSE path[e]
    BY DEF RenameFolderPathWithParent, RenamedPaths
  <2>3. QED
    BY <2>1, <2>2, RebasePath DEF TreeInv, RenameFolderPathWithParent
<1>2. path' \in [Folder -> Path]
  <2>1. path' = [e \in Folder |-> path'[e]]
    BY DEF RenameFolderPathWithParent, RenamedPaths
  <2>2. QED
    BY <1>1, <2>1
<1>3. fname' \in [Folder -> Name \cup {"none"}] /\ parent' \in [Folder -> Parents] /\ fstat' = fstat
  BY DEF RenameFolderPathWithParent, TreeInv
<1>4. QED
  BY <1>1, <1>2, <1>3 DEF TreeInv, Used

LEMMA DeleteTreeRows ==
  ASSUME TreeInv, NEW p \in Path, SoftDeleteFolderTree(p)
  PROVE  TreeInv'
<1>1. ASSUME NEW e \in Folder
      PROVE  path'[e] \in Path /\ (Used(e) => path'[e] # <<>>)
  <2>1. path[e] \in Path
    BY DEF TreeInv
  <2>2. path'[e] = IF e \in InTree(p) THEN [path[e] EXCEPT ![Len(path[e])].mark = e] ELSE path[e]
    BY DEF SoftDeleteFolderTree
  <2>3. QED
    BY <2>1, <2>2, MarkPath DEF TreeInv
<1>2. path' \in [Folder -> Path]
  <2>1. path' = [e \in Folder |-> path'[e]]
    BY DEF SoftDeleteFolderTree
  <2>2. QED
    BY <1>1, <2>1
<1>3. ASSUME NEW e \in Folder
      PROVE  fstat'[e] \in {"unused", "active", "deleted"} /\ (Used(e)' => Used(e))
  BY DEF SoftDeleteFolderTree, InTree, TreeInv, Used
<1>4. fstat' \in [Folder -> {"unused", "active", "deleted"}]
  <2>1. fstat' = [e \in Folder |-> fstat'[e]]
    BY DEF SoftDeleteFolderTree
  <2>2. QED
    BY <1>3, <2>1
<1>5. parent' = parent /\ fname' = fname
  BY DEF SoftDeleteFolderTree
<1>6. QED
  BY <1>1, <1>2, <1>3, <1>4, <1>5 DEF TreeInv

LEMMA RequestStep ==
  ASSUME DInv, Requests
  PROVE  TreeInv' /\ ReqInv' /\ DiskInv'
<1> USE DEF DInv
<1>1. PICK r \in Request :
        \/ \E p \in Parents, n \in Name : Create(r, p, n) \/ \E d \in Folder : Rename(r, d, p, n)
        \/ \E d \in Folder : CreateInsert(r, d) \/ Delete(r, d)
        \/ CreateDir(r) \/ RenameRows(r) \/ RenameFiles(r) \/ RenameOnDisk(r)
        \/ DeleteFiles(r) \/ DeleteTree(r)
  BY DEF Requests
<1>2. /\ req[r] \in ReqRecord /\ req[r].old \in Path /\ req[r].new \in Path
      /\ req[r].name \in Name \cup {"none"} /\ req[r].parent \in Parents
  BY PathTypes DEF ReqInv
<1>3. UNCHANGED tree => TreeInv'
  BY DEF tree, TreeInv, Used
<1>4. UNCHANGED <<dirs, up, file>> => DiskInv'
  BY DEF DiskInv, BytesAreKept, HasRow
<1>5. ASSUME NEW p \in Parents
      PROVE  PathOf(p) \in Path
  BY PathTypes DEF PathOf, TreeInv, Parents
<1>6. ASSUME NEW q \in ReqRecord, Ask(r, q),
             q.pc \in Renaming \cup {"insert"} => q.new # <<>>,
             q.pc \in Renaming => q.id \in Folder /\ FolderDirRel(q.new)
      PROVE  TreeInv' /\ ReqInv' /\ DiskInv'
  <2>1. ReqInv'
    BY <1>6, AskStep
  <2>2. UNCHANGED <<tree, dirs, up, file>>
    BY <1>6 DEF Ask
  <2>3. QED
    BY <1>3, <1>4, <2>1, <2>2
<1>7. \A step : Goto(r, step) => UNCHANGED <<up, ops>>
  BY DEF Goto
<1>8. ASSUME Goto(r, "idle") PROVE ReqInv'
  BY <1>8, GotoStep DEF Steps, Renaming
<1>9. ASSUME NEW p \in Parents, NEW n \in Name, Create(r, p, n)
      PROVE  TreeInv' /\ ReqInv' /\ DiskInv'
  <2> DEFINE new == Append(PathOf(p), Live(n))
             q == [NoReq EXCEPT !.pc = "insert", !.parent = p, !.name = n, !.new = new]
  <2>1. new \in Path /\ new # <<>>
    BY <1>5, AppendPath
  <2>2. Ask(r, q)
    BY <1>9 DEF Create
  <2> HIDE DEF new
  <2>3. q \in ReqRecord /\ q.pc = "insert" /\ q.new = new
    BY <2>1, PathTypes DEF NoReq, Steps
  <2> HIDE DEF q
  <2>4. QED
    BY <1>6, <2>1, <2>2, <2>3 DEF Renaming
<1>10. ASSUME NEW p \in Parents, NEW n \in Name, NEW d \in Folder, Rename(r, d, p, n)
       PROVE  TreeInv' /\ ReqInv' /\ DiskInv'
  <2> DEFINE new == Append(PathOf(p), Live(n))
             q == [NoReq EXCEPT !.pc = "renameRows", !.id = d, !.parent = p, !.name = n,
                                !.old = path[d], !.new = new]
  <2>1. new \in Path /\ new # <<>> /\ path[d] \in Path
    BY <1>5, AppendPath DEF TreeInv
  <2>2. Ask(r, q) /\ FolderDirRel(new)
    BY <1>10 DEF Rename
  <2> HIDE DEF new
  <2>3. q \in ReqRecord /\ q.pc = "renameRows" /\ q.new = new /\ q.id = d
    BY <2>1, PathTypes DEF NoReq, Steps, Parents
  <2> HIDE DEF q
  <2>4. QED
    BY <1>6, <2>1, <2>2, <2>3 DEF Renaming
<1>11. ASSUME NEW d \in Folder, CreateInsert(r, d)
       PROVE  TreeInv' /\ ReqInv' /\ DiskInv'
  <2>1. UNCHANGED <<dirs, file>> /\ req[r].pc = "insert" /\ req[r].new # <<>>
    BY <1>11 DEF CreateInsert, At, ReqInv
  <2>2. CASE \A e \in Folder : Used(e) => path[e] # req[r].new
    <3>1. /\ fstat' = [fstat EXCEPT ![d] = "active"]
          /\ parent' = [parent EXCEPT ![d] = req[r].parent]
          /\ fname' = [fname EXCEPT ![d] = req[r].name]
          /\ path' = [path EXCEPT ![d] = req[r].new]
          /\ Goto(r, "makeDir")
      BY <1>11, <2>2 DEF CreateInsert
    <3>2. ReqInv'
      BY <3>1, GotoStep DEF Steps, Renaming
    <3>3. TreeInv'
      <4>1. \A e \in Folder : Used(e)' => path'[e] # <<>>
        BY <2>1, <3>1 DEF TreeInv, Used
      <4>2. QED
        BY <1>2, <3>1, <4>1 DEF TreeInv
    <3>4. QED
      BY <1>4, <1>7, <2>1, <3>1, <3>2, <3>3
  <2>3. CASE ~(\A e \in Folder : Used(e) => path[e] # req[r].new)
    <3>1. UNCHANGED tree /\ Goto(r, "idle")
      BY <1>11, <2>3 DEF CreateInsert
    <3>2. QED
      BY <1>3, <1>4, <1>7, <1>8, <2>1, <3>1
  <2>4. QED
    BY <2>2, <2>3
<1>12. ASSUME NEW d \in Folder, Delete(r, d)
       PROVE  TreeInv' /\ ReqInv' /\ DiskInv'
  <2> DEFINE q == [NoReq EXCEPT !.pc = "trashFiles", !.id = d, !.old = path[d]]
  <2>1. Ask(r, q) /\ path[d] \in Path
    BY <1>12 DEF Delete, TreeInv
  <2>2. q \in ReqRecord /\ q.pc = "trashFiles"
    BY <2>1, PathTypes DEF NoReq, Steps, Parents
  <2> HIDE DEF q
  <2>3. QED
    BY <1>6, <2>1, <2>2 DEF Renaming
<1>13. ASSUME CreateDir(r)
       PROVE  TreeInv' /\ ReqInv' /\ DiskInv'
  <2>1. ReqInv' /\ UNCHANGED <<up, file>>
    BY <1>7, <1>8, <1>13 DEF CreateDir
  <2>2. CASE FolderDirRel(req[r].new) /\ EnsureDir(req[r].new) /\ UNCHANGED tree
    <3>1. DiskInv'
      BY <1>2, <2>1, <2>2, EnsureDirStep, DiskGrows
    <3>2. QED
      BY <1>3, <2>1, <2>2, <3>1
  <2>3. CASE SoftDeleteFolderTree(req[r].new) /\ UNCHANGED dirs
    BY <1>2, <1>4, <2>1, <2>3, DeleteTreeRows
  <2>4. QED
    BY <1>13, <2>2, <2>3 DEF CreateDir
<1>14. ASSUME RenameRows(r)
       PROVE  TreeInv' /\ ReqInv' /\ DiskInv'
  <2>1. UNCHANGED <<dirs, file>> /\ req[r].pc = "renameRows" /\ req[r].new # <<>>
        /\ req[r].id \in Folder
    BY <1>14 DEF RenameRows, At, ReqInv, Renaming
  <2>2. CASE KeyHolds(RenamedPaths(req[r].id, req[r].new))
    <3>1. /\ RenameFolderPathWithParent(req[r].id, req[r].parent, req[r].name, req[r].new)
          /\ Goto(r, "renameFiles")
      BY <1>14, <2>2 DEF RenameRows
    <3>2. ReqInv'
      BY <2>1, <3>1, GotoStep DEF Steps, Renaming
    <3>3. QED
      BY <1>2, <1>4, <1>7, <2>1, <3>1, <3>2, RenameTree
  <2>3. CASE ~KeyHolds(RenamedPaths(req[r].id, req[r].new))
    <3>1. UNCHANGED tree /\ Goto(r, "idle")
      BY <1>14, <2>3 DEF RenameRows
    <3>2. QED
      BY <1>3, <1>4, <1>7, <1>8, <2>1, <3>1
  <2>4. QED
    BY <2>2, <2>3
<1>15. ASSUME RenameFiles(r)
       PROVE  TreeInv' /\ ReqInv' /\ DiskInv'
  <2> DEFINE old == req[r].old
             new == req[r].new
  <2>1. /\ At(r, "renameFiles") /\ MoveFilesPathPrefix(old, new)
        /\ UNCHANGED <<tree, dirs>> /\ Goto(r, "renameDir")
    BY <1>15 DEF RenameFiles
  <2>2. ReqInv'
    BY <2>1, GotoStep DEF Steps, Renaming, At
  <2> HIDE DEF old, new
  <2>3. ASSUME NEW x \in File
        PROVE  /\ file'[x] \in FileRecord
               /\ file'[x].dir = file[x].dir /\ file'[x].disk = file[x].disk
               /\ file'[x].status = file[x].status
    <3>1. file[x] \in FileRecord /\ file[x].rel \in Path
      BY PathTypes DEF DiskInv
    <3>2. Moved(file[x].rel, old, new) \in Path
      BY <1>2, <3>1, MovedPath DEF old, new
    <3>3. file'[x] = IF HasRow(x) THEN [file[x] EXCEPT !.rel = Moved(file[x].rel, old, new)]
                     ELSE file[x]
      BY <2>1 DEF MoveFilesPathPrefix
    <3>4. QED
      BY <3>1, <3>2, <3>3, PathTypes
  <2>4. file' \in [File -> FileRecord]
    <3>1. file' = [x \in File |-> file'[x]]
      BY <2>1 DEF MoveFilesPathPrefix
    <3>2. QED
      BY <2>3, <3>1
  <2>5. DiskInv'
    <3>1. UNCHANGED <<up, dirs>>
      BY <1>7, <2>1
    <3>2. \A x \in File : HasRow(x)' => HasRow(x)
      BY <2>3 DEF HasRow
    <3>3. QED
      BY <2>3, <2>4, <3>1, <3>2, DiskRows
  <2>6. QED
    BY <1>3, <2>1, <2>2, <2>5
<1>16. ASSUME RenameOnDisk(r)
       PROVE  TreeInv' /\ ReqInv' /\ DiskInv'
  <2>1. /\ RenameDir(req[r].old, req[r].new) /\ UNCHANGED tree /\ Goto(r, "idle")
        /\ req[r].new # <<>> /\ FolderDirRel(req[r].new)
    BY <1>16 DEF RenameOnDisk, At, ReqInv, Renaming
  <2>2. UNCHANGED up
    BY <1>7, <2>1
  <2>3. DiskInv'
    BY <1>2, <2>1, <2>2, DiskRename
  <2>4. QED
    BY <1>3, <1>8, <2>1, <2>3
<1>17. ASSUME DeleteFiles(r)
       PROVE  TreeInv' /\ ReqInv' /\ DiskInv'
  <2> DEFINE p == req[r].old
  <2>1. /\ At(r, "trashFiles") /\ SoftDeleteFilesUnderPath(p)
        /\ UNCHANGED <<tree, dirs>> /\ Goto(r, "trashTree")
    BY <1>17 DEF DeleteFiles
  <2>2. ReqInv'
    BY <2>1, GotoStep DEF Steps, Renaming, At
  <2> HIDE DEF p
  <2>3. ASSUME NEW x \in File
        PROVE  /\ file'[x] \in FileRecord
               /\ file'[x].dir = file[x].dir /\ file'[x].disk = file[x].disk
               /\ HasRow(x)' => HasRow(x)
    <3>1. file[x] \in FileRecord
      BY DEF DiskInv
    <3>2. file'[x] = IF file[x].status = "active" /\ IsPrefix(p, file[x].rel)
                     THEN [file[x] EXCEPT !.status = "trashed"] ELSE file[x]
      BY <2>1 DEF SoftDeleteFilesUnderPath
    <3>3. QED
      BY <3>1, <3>2, PathTypes DEF HasRow
  <2>4. file' \in [File -> FileRecord]
    <3>1. file' = [x \in File |-> file'[x]]
      BY <2>1 DEF SoftDeleteFilesUnderPath
    <3>2. QED
      BY <2>3, <3>1
  <2>5. DiskInv'
    <3>1. UNCHANGED <<up, dirs>>
      BY <1>7, <2>1
    <3>2. QED
      BY <2>3, <2>4, <3>1, DiskRows
  <2>6. QED
    BY <1>3, <2>1, <2>2, <2>5
<1>18. ASSUME DeleteTree(r)
       PROVE  TreeInv' /\ ReqInv' /\ DiskInv'
  BY <1>2, <1>4, <1>7, <1>8, <1>18, DeleteTreeRows DEF DeleteTree
<1>19. QED
  BY <1>1, <1>9, <1>10, <1>11, <1>12, <1>13, <1>14, <1>15, <1>16, <1>17, <1>18

LEMMA UploadStep ==
  ASSUME DInv, Uploads
  PROVE  TreeInv' /\ ReqInv' /\ DiskInv'
<1> USE DEF DInv
<1>1. PICK x \in File : \/ \E d \in Folder : OpenUpload(x, d)
                        \/ CreateFile(x) \/ MergeTo(x) \/ FinishFile(x)
  BY DEF Uploads
<1>2. file[x] \in FileRecord /\ file[x].dir \in Path
  BY PathTypes DEF DiskInv
<1>3. \A from, to, q : Upload(x, from, to, q) => UNCHANGED <<tree, req, ops>> /\ up[x] = from
  BY DEF Upload
<1>4. UNCHANGED <<tree, req, ops>> => TreeInv' /\ ReqInv'
  BY DEF tree, TreeInv, Used, ReqInv
<1>5. dirs \subseteq Path /\ \A p \in dirs : FolderDirRel(p)
  BY DEF DiskInv
<1>6. ASSUME NEW d \in Folder, OpenUpload(x, d)
      PROVE  TreeInv' /\ ReqInv' /\ DiskInv'
  <2> DEFINE q == [NoFileYet EXCEPT !.dir = path[d], !.folder = d]
  <2>1. path[d] \in Path /\ path[d] # <<>> /\ FolderDirRel(path[d]) /\ EnsureDir(path[d])
    BY <1>6 DEF OpenUpload, TreeInv
  <2>2. Upload(x, "none", "open", q)
    BY <1>6 DEF OpenUpload
  <2>3. q \in FileRecord /\ q.dir = path[d]
    BY <2>1, PathTypes DEF NoFileYet, Parents
  <2> HIDE DEF q
  <2>4. /\ dirs \subseteq dirs' /\ dirs' \subseteq Path /\ \A p \in dirs' : FolderDirRel(p)
    BY <2>1, EnsureDirStep
  <2>5. DiskInv'
    BY <2>1, <2>2, <2>3, <2>4, DiskUpload
  <2>6. QED
    BY <1>3, <1>4, <2>2, <2>5
<1>7. ASSUME CreateFile(x)
      PROVE  TreeInv' /\ ReqInv' /\ DiskInv'
  <2> DEFINE q == [file[x] EXCEPT !.status = "active", !.rel = file[x].dir]
  <2>1. Upload(x, "open", "row", q) /\ UNCHANGED dirs
    BY <1>7 DEF CreateFile
  <2>2. q \in FileRecord /\ q.dir = file[x].dir
    BY <1>2, PathTypes
  <2> HIDE DEF q
  <2>3. q.dir # <<>> /\ FolderDirRel(q.dir)
    BY <1>3, <2>1, <2>2 DEF DiskInv
  <2>4. DiskInv'
    BY <1>5, <2>1, <2>2, <2>3, DiskUpload
  <2>5. QED
    BY <1>3, <1>4, <2>1, <2>4
<1>8. ASSUME MergeTo(x)
      PROVE  TreeInv' /\ ReqInv' /\ DiskInv'
  <2> DEFINE q == [file[x] EXCEPT !.disk = file[x].dir]
  <2>1. Upload(x, "row", "merged", q) /\ EnsureDir(file[x].dir)
    BY <1>8 DEF MergeTo
  <2>2. q \in FileRecord /\ q.dir = file[x].dir /\ q.disk = file[x].dir
    BY <1>2, PathTypes
  <2> HIDE DEF q
  <2>3. q.dir # <<>> /\ FolderDirRel(q.dir)
    BY <1>3, <2>1, <2>2 DEF DiskInv
  <2>4. /\ dirs \subseteq dirs' /\ dirs' \subseteq Path /\ \A p \in dirs' : FolderDirRel(p)
        /\ q.disk \in dirs'
    BY <1>2, <2>1, <2>2, <2>3, EnsureDirStep
  <2>5. DiskInv'
    BY <2>1, <2>2, <2>3, <2>4, DiskUpload DEF Lost
  <2>6. QED
    BY <1>3, <1>4, <2>1, <2>5
<1>9. ASSUME FinishFile(x)
      PROVE  TreeInv' /\ ReqInv' /\ DiskInv'
  <2> DEFINE q == [file[x] EXCEPT !.rel = file[x].dir]
  <2>1. Upload(x, "merged", "done", q) /\ UNCHANGED dirs
    BY <1>9 DEF FinishFile
  <2>2. q \in FileRecord /\ q.dir = file[x].dir /\ q.disk = file[x].disk /\ q.status = file[x].status
    BY <1>2, PathTypes
  <2> HIDE DEF q
  <2>3. q.dir # <<>> /\ FolderDirRel(q.dir)
    BY <1>3, <2>1, <2>2 DEF DiskInv
  <2>4. q.status \in {"active", "trashed"} => q.disk \in dirs' \ {Lost}
    BY <1>3, <2>1, <2>2 DEF DiskInv, BytesAreKept, HasRow
  <2>5. DiskInv'
    BY <1>5, <2>1, <2>2, <2>3, <2>4, DiskUpload
  <2>6. QED
    BY <1>3, <1>4, <2>1, <2>5
<1>10. QED
  BY <1>1, <1>6, <1>7, <1>8, <1>9

LEMMA DInvStep == DInv /\ [DNext]_vars => DInv'
<1> SUFFICES ASSUME DInv, [DNext]_vars PROVE DInv'
  OBVIOUS
<1>1. ASSUME DStep, Racing(FALSE) PROVE DInv'
  <2>1. TreeInv' /\ ReqInv' /\ DiskInv'
    BY <1>1, RequestStep, UploadStep DEF DStep
  <2>2. RaceInv'
    BY <1>1, RaceStep DEF DInv
  <2>3. QED
    BY <2>1, <2>2 DEF DInv
<1>2. ASSUME NEW r \in Request, Fails(r), Racing(Halfway(r)) PROVE DInv'
  <2>1. UNCHANGED <<tree, dirs, file, up>> /\ Goto(r, "idle")
    BY <1>2 DEF Fails, Goto
  <2>2. ReqInv'
    BY <2>1, GotoStep DEF Steps, Renaming, DInv
  <2>3. TreeInv' /\ DiskInv'
    BY <2>1 DEF DInv, tree, TreeInv, DiskInv, Used, BytesAreKept, HasRow
  <2>4. Halfway(r) \in BOOLEAN
    BY DEF Halfway
  <2>5. RaceInv'
    BY <1>2, <2>4, RaceStep DEF DInv
  <2>6. QED
    BY <2>2, <2>3, <2>5 DEF DInv
<1>3. CASE UNCHANGED vars
  BY <1>3 DEF vars, DInv, TreeInv, ReqInv, DiskInv, RaceInv, Used, BytesAreKept, HasRow
<1>4. QED
  BY <1>1, <1>2, <1>3 DEF DNext

\* The types of Folders hold, and no request, upload or failure loses the bytes of
\* a file: they lie in a directory that exists.
THEOREM FoldersTypeCorrect == DSpec => []DTypeOK
<1>1. DSpec => []DInv
  BY DInvInit, DInvStep, PTL DEF DSpec
<1>2. QED
  BY <1>1, DInvTypes, PTL

THEOREM BytesKept == DSpec => []BytesAreKept
<1>1. DSpec => []DInv
  BY DInvInit, DInvStep, PTL DEF DSpec
<1>2. DInv => BytesAreKept
  BY DEF DInv, DiskInv
<1>3. QED
  BY <1>1, <1>2, PTL

(***************************************************************************)
(* Shares.                                                                 *)
(*                                                                         *)
(* A link is resolved in two statements, and again when the visit goes on  *)
(* to the service.  Between the two the link and the target move, but a    *)
(* link moves one way only: once it is not valid it is never valid again.  *)
(* So a link that is valid after its target has been seen active was valid *)
(* at that moment, and a second resolution that finds it valid proves the  *)
(* first one whole.  VisitInv carries this from statement to statement.    *)
(***************************************************************************)
LinkInv ==
  /\ link \in [Share -> LinkRecord]
  /\ \A s \in Share : link[s].state # "none" => link[s].target \in Target

Resolved(v) == VisitAt(v, "count") \/ (VisitAt(v, "token") /\ visit[v].round = 2)

VisitInv(v) ==
  /\ ~VisitAt(v, "idle") => visit[v].share \in Share /\ link[visit[v].share].state # "none"
  /\ ~VisitAt(v, "idle") /\ (~VisitAt(v, "token") \/ visit[v].round = 2)
       => link[visit[v].share].state # "asked"
  /\ Resolved(v) /\ link[visit[v].share].state = "valid" => v \in live
  /\ VisitAt(v, "count") /\ InTable(visit[v].share) => v \in usable
  /\ ~VisitAt(v, "idle") /\ ~VisitAt(v, "token") /\ visit[v].round = 2 => v \in live
  /\ visit[v].pc \in {"fetch", "list", "send"} => visit[v].round = 2

SInv ==
  /\ DInv
  /\ LinkInv
  /\ visit \in [Visitor -> VisitRecord]
  /\ usable \subseteq Visitor /\ live \subseteq Visitor
  /\ \A v \in Visitor : VisitInv(v)

\* What the tables of links may do in a step.
Forward(s) ==
  /\ link'[s].views \in Nat
  /\ link[s].state # "none" => link'[s].state # "none" /\ link'[s].target = link[s].target
  /\ link[s].state \notin {"none", "asked"} =>
       /\ link'[s].state \notin {"none", "asked"}
       /\ link'[s].state = "valid" => link[s].state = "valid"
       /\ InTable(s)' => InTable(s)

LEMMA SInvInit == SInit => SInv
<1> SUFFICES ASSUME SInit PROVE SInv
  OBVIOUS
<1>1. DInv
  BY DInvInit DEF SInit
<1>2. NoLink \in LinkRecord /\ NoVisit \in VisitRecord
  BY SharesAssumption, PathTypes DEF NoLink, LinkRecord, NoVisit, VisitRecord, Path
<1>3. LinkInv
  BY <1>2 DEF SInit, LinkInv, NoLink
<1>4. ASSUME NEW v \in Visitor PROVE VisitInv(v)
  <2>1. visit[v].pc = "idle"
    BY DEF SInit, NoVisit
  <2>2. QED
    BY <2>1 DEF VisitInv, VisitAt, Resolved
<1>5. QED
  BY <1>1, <1>2, <1>3, <1>4 DEF SInv, SInit

\* One link that gets a record.
LEMMA LinkingStep ==
  ASSUME LinkInv, NEW s \in Share, NEW q \in LinkRecord, link' = [link EXCEPT ![s] = q],
         q.state # "none" => q.target \in Target,
         link[s].state # "none" => q.state # "none" /\ q.target = link[s].target,
         link[s].state \notin {"none", "asked"} =>
           /\ q.state \notin {"none", "asked"}
           /\ q.state = "valid" => link[s].state = "valid"
           /\ q.state \in {"valid", "expired", "old"} => InTable(s)
  PROVE  LinkInv' /\ \A t \in Share : Forward(t)
<1>1. link' \in [Share -> LinkRecord]
  BY DEF LinkInv
<1>2. ASSUME NEW t \in Share
      PROVE  (link'[t].state # "none" => link'[t].target \in Target) /\ Forward(t)
  <2>1. CASE t = s
    <3>1. link'[t] = q /\ q.views \in Nat
      BY <2>1, SharesAssumption DEF LinkInv, LinkRecord
    <3>2. QED
      BY <2>1, <3>1 DEF Forward, InTable
  <2>2. CASE t # s
    <3>1. link'[t] = link[t] /\ link[t].views \in Nat
      BY <2>2, SharesAssumption DEF LinkInv, LinkRecord
    <3>2. QED
      BY <3>1 DEF Forward, InTable, LinkInv
  <2>3. QED
    BY <2>1, <2>2
<1>3. QED
  BY <1>1, <1>2 DEF LinkInv

\* Some links that leave the table.
LEMMA LinksLeave ==
  ASSUME LinkInv, link' \in [Share -> LinkRecord],
         \A t \in Share : /\ link'[t].target = link[t].target /\ link'[t].views = link[t].views
                          /\ \/ link'[t].state = link[t].state
                             \/ InTable(t) /\ link'[t].state = "gone"
  PROVE  LinkInv' /\ \A t \in Share : Forward(t) /\ link'[t].views <= link[t].views
<1>1. ASSUME NEW t \in Share
      PROVE  /\ Forward(t) /\ link'[t].views <= link[t].views
             /\ link'[t].state # "none" => link'[t].target \in Target
  <2>1. link[t].views \in Nat
    BY SharesAssumption DEF LinkInv, LinkRecord
  <2>2. QED
    BY <2>1 DEF Forward, InTable, LinkInv
<1>2. QED
  BY <1>1 DEF LinkInv

LEMMA LinksGone ==
  ASSUME LinkInv, NEW L \in SUBSET Share, \A s \in L : InTable(s),
         link' = [s \in Share |-> IF s \in L THEN [link[s] EXCEPT !.state = "gone"] ELSE link[s]]
  PROVE  LinkInv' /\ \A t \in Share : Forward(t) /\ link'[t].views <= link[t].views
<1>1. ASSUME NEW t \in Share
      PROVE  /\ link'[t] \in LinkRecord /\ link'[t].target = link[t].target
             /\ link'[t].views = link[t].views
             /\ \/ link'[t].state = link[t].state
                \/ InTable(t) /\ link'[t].state = "gone"
  <2>1. link[t] \in LinkRecord
    BY DEF LinkInv
  <2>2. link'[t] = IF t \in L THEN [link[t] EXCEPT !.state = "gone"] ELSE link[t]
    OBVIOUS
  <2>3. QED
    BY <2>1, <2>2 DEF LinkRecord
<1>2. link' \in [Share -> LinkRecord]
  <2>1. link' = [t \in Share |-> link'[t]]
    OBVIOUS
  <2>2. QED
    BY <1>1, <2>1
<1>3. QED
  BY <1>1, <1>2, LinksLeave

\* The owner's, the administrator's and the daily task's steps: a link moves
\* forward, no visit is counted, and the folders and files stay sound.
LEMMA OwnStep ==
  ASSUME SInv, Own
  PROVE  /\ DInv' /\ LinkInv' /\ visit' = visit
         /\ \A t \in Share : Forward(t) /\ link'[t].views <= link[t].views
<1> USE DEF SInv
<1>1. UNCHANGED vars => DInv'
  BY DInvStep
<1>2. ASSUME NEW s \in Share, NEW q \in LinkRecord, Linking(s, q),
             q.state # "none" => q.target \in Target,
             link[s].state # "none" => q.state # "none" /\ q.target = link[s].target,
             link[s].state \notin {"none", "asked"} =>
               /\ q.state \notin {"none", "asked"}
               /\ q.state = "valid" => link[s].state = "valid"
               /\ q.state \in {"valid", "expired", "old"} => InTable(s),
             q.views <= link[s].views
      PROVE  /\ DInv' /\ LinkInv' /\ visit' = visit
             /\ \A t \in Share : Forward(t) /\ link'[t].views <= link[t].views
  <2>1. link' = [link EXCEPT ![s] = q] /\ UNCHANGED <<vars, visit>>
    BY <1>2 DEF Linking
  <2>2. LinkInv' /\ \A t \in Share : Forward(t)
    BY <1>2, <2>1, LinkingStep
  <2>3. ASSUME NEW t \in Share PROVE link'[t].views <= link[t].views
    <3>1. link[t].views \in Nat
      BY SharesAssumption DEF LinkInv, LinkRecord
    <3>2. link'[t] = IF t = s THEN q ELSE link[t]
      BY <2>1 DEF LinkInv
    <3>3. QED
      BY <1>2, <3>1, <3>2
  <2>4. QED
    BY <1>1, <2>1, <2>2, <2>3
<1>3. ASSUME NEW s \in Share
      PROVE  link[s] \in LinkRecord /\ link[s].views \in Nat /\ link[s].views <= link[s].views
  BY SharesAssumption DEF LinkInv, LinkRecord
<1>4. ASSUME NEW s \in Share, NEW t \in Target, AskShare(s, t)
      PROVE  /\ DInv' /\ LinkInv' /\ visit' = visit
             /\ \A u \in Share : Forward(u) /\ link'[u].views <= link[u].views
  <2>1. PICK forever \in BOOLEAN :
          Linking(s, [NoLink EXCEPT !.state = "asked", !.target = t, !.forever = forever])
    BY <1>4 DEF AskShare
  <2> DEFINE q == [NoLink EXCEPT !.state = "asked", !.target = t, !.forever = forever]
  <2>2. q \in LinkRecord /\ q.state = "asked" /\ q.target = t /\ q.views = 0
    <3>1. NoLink \in LinkRecord
      BY SharesAssumption DEF NoLink, LinkRecord
    <3>2. NoLink.views = 0
      BY DEF NoLink
    <3>3. q \in LinkRecord
      BY <3>1 DEF LinkRecord
    <3>4. q.state = "asked" /\ q.target = t /\ q.views = NoLink.views
      BY <3>1 DEF LinkRecord
    <3>5. QED
      BY <3>2, <3>3, <3>4
  <2>3. Linking(s, q) /\ link[s].state = "none"
    BY <1>4, <2>1 DEF AskShare
  <2> HIDE DEF q
  <2>4. q.views <= link[s].views
    BY <1>3, <2>2
  <2>5. QED
    BY <1>2, <2>2, <2>3, <2>4
<1>5. ASSUME NEW s \in Share, NEW to \in {"valid", "gone", "expired", "old"},
             Linking(s, [link[s] EXCEPT !.state = to]),
             link[s].state # "none",
             link[s].state = "asked" \/ (InTable(s) /\ to # "valid")
      PROVE  /\ DInv' /\ LinkInv' /\ visit' = visit
             /\ \A u \in Share : Forward(u) /\ link'[u].views <= link[u].views
  <2> DEFINE q == [link[s] EXCEPT !.state = to]
  <2>1. q \in LinkRecord /\ q.state = to /\ q.target = link[s].target /\ q.views = link[s].views
    BY <1>3 DEF LinkRecord
  <2>2. Linking(s, q) /\ link[s].target \in Target
    BY <1>5 DEF LinkInv
  <2> HIDE DEF q
  <2>3. q.views <= link[s].views
    BY <1>3, <2>1
  <2>4. QED
    BY <1>2, <1>5, <2>1, <2>2, <2>3 DEF InTable
<1>6. ASSUME NEW s \in Share, CreateShare(s)
      PROVE  /\ DInv' /\ LinkInv' /\ visit' = visit
             /\ \A u \in Share : Forward(u) /\ link'[u].views <= link[u].views
  BY <1>5, <1>6 DEF CreateShare
<1>7. ASSUME NEW s \in Share, Revoke(s)
      PROVE  /\ DInv' /\ LinkInv' /\ visit' = visit
             /\ \A u \in Share : Forward(u) /\ link'[u].views <= link[u].views
  BY <1>5, <1>7 DEF Revoke, InTable
<1>8. ASSUME NEW s \in Share, Lapse(s)
      PROVE  /\ DInv' /\ LinkInv' /\ visit' = visit
             /\ \A u \in Share : Forward(u) /\ link'[u].views <= link[u].views
  BY <1>5, <1>8 DEF Lapse, InTable
<1>9. ASSUME PurgeExpired
      PROVE  /\ DInv' /\ LinkInv' /\ visit' = visit
             /\ \A u \in Share : Forward(u) /\ link'[u].views <= link[u].views
  <2> DEFINE L == {s \in Share : link[s].state = "old"}
  <2>1. link' = [s \in Share |-> IF s \in L THEN [link[s] EXCEPT !.state = "gone"] ELSE link[s]]
        /\ UNCHANGED <<vars, visit>>
    BY <1>9 DEF PurgeExpired
  <2>2. L \in SUBSET Share /\ \A s \in L : InTable(s)
    BY DEF InTable
  <2> HIDE DEF L
  <2>3. QED
    BY <1>1, <2>1, <2>2, LinksGone
<1>10. UNCHANGED link => LinkInv' /\ \A u \in Share : Forward(u) /\ link'[u].views <= link[u].views
  <2>1. SUFFICES ASSUME UNCHANGED link
                 PROVE  LinkInv' /\ \A u \in Share : Forward(u) /\ link'[u].views <= link[u].views
    OBVIOUS
  <2>2. LinkInv'
    BY <2>1 DEF LinkInv
  <2>3. QED
    BY <1>3, <2>1, <2>2 DEF Forward, InTable
<1>11. ASSUME NEW x \in File, NEW q \in FileRecord,
              file' = [file EXCEPT ![x] = q], UNCHANGED <<tree, dirs, up, req, ops>>,
              Racing(FALSE), q.dir = file[x].dir,
              q.status \in {"active", "trashed"} => HasRow(x) /\ q.disk = file[x].disk
       PROVE  DInv'
  <2>1. TreeInv' /\ ReqInv'
    BY <1>11 DEF DInv, tree, TreeInv, Used, ReqInv
  <2>2. RaceInv'
    BY <1>11, RaceStep DEF DInv
  <2>3. ASSUME NEW y \in File
        PROVE  /\ file'[y].dir = file[y].dir
               /\ HasRow(y)' => HasRow(y) /\ file'[y].disk = file[y].disk
    <3>1. file'[y] = IF y = x THEN q ELSE file[y]
      BY <1>11 DEF DInv, DiskInv
    <3>2. QED
      BY <1>11, <3>1 DEF HasRow
  <2>4. file' \in [File -> FileRecord]
    BY <1>11 DEF DInv, DiskInv
  <2>5. DiskInv'
    BY <1>11, <2>3, <2>4 DEF DInv, DiskInv, BytesAreKept
  <2>6. QED
    BY <2>1, <2>2, <2>5 DEF DInv
<1>12. ASSUME NEW x \in File PROVE file[x] \in FileRecord
  BY DEF DInv, DiskInv
<1>13. ASSUME NEW x \in File, Trash(x)
       PROVE  /\ DInv' /\ LinkInv' /\ visit' = visit
              /\ \A u \in Share : Forward(u) /\ link'[u].views <= link[u].views
  <2> DEFINE q == [file[x] EXCEPT !.status = "trashed"]
  <2>1. /\ q \in FileRecord /\ q.dir = file[x].dir /\ q.disk = file[x].disk
    BY <1>12, PathTypes
  <2>2. file' = [file EXCEPT ![x] = q] /\ UNCHANGED <<tree, dirs, up, req, ops, link, visit>>
        /\ Racing(FALSE) /\ HasRow(x)
    BY <1>13 DEF Trash, HasRow
  <2> HIDE DEF q
  <2>3. DInv'
    BY <1>11, <2>1, <2>2
  <2>4. QED
    BY <1>10, <2>2, <2>3
<1>14. ASSUME NEW x \in File, Restore(x)
       PROVE  /\ DInv' /\ LinkInv' /\ visit' = visit
              /\ \A u \in Share : Forward(u) /\ link'[u].views <= link[u].views
  <2> DEFINE q == [file[x] EXCEPT !.status = "active"]
  <2>1. /\ q \in FileRecord /\ q.dir = file[x].dir /\ q.disk = file[x].disk
    BY <1>12, PathTypes
  <2>2. file' = [file EXCEPT ![x] = q] /\ UNCHANGED <<tree, dirs, up, req, ops, link, visit>>
        /\ Racing(FALSE) /\ HasRow(x)
    BY <1>14 DEF Restore, HasRow
  <2> HIDE DEF q
  <2>3. DInv'
    BY <1>11, <2>1, <2>2
  <2>4. QED
    BY <1>10, <2>2, <2>3
<1>15. ASSUME NEW x \in File, Purge(x)
       PROVE  /\ DInv' /\ LinkInv' /\ visit' = visit
              /\ \A u \in Share : Forward(u) /\ link'[u].views <= link[u].views
  <2> DEFINE k == IF file[x].disk = file[x].rel THEN Lost ELSE file[x].disk
             q == [file[x] EXCEPT !.status = "gone", !.disk = k]
             L == {s \in Share : InTable(s) /\ link[s].target = x}
  <2>1. k \in Path
    BY <1>12, PathTypes DEF Lost
  <2>2. file' = [file EXCEPT ![x] = q] /\ UNCHANGED <<tree, dirs, up, req, ops, visit>>
        /\ Racing(FALSE)
    BY <1>15 DEF Purge, DInv, DiskInv
  <2> HIDE DEF k
  <2>3. q \in FileRecord /\ q.dir = file[x].dir /\ q.status = "gone"
    BY <1>12, <2>1, PathTypes
  <2> HIDE DEF q
  <2>4. DInv'
    BY <1>11, <2>2, <2>3
  <2>5. link' = [s \in Share |-> IF s \in L THEN [link[s] EXCEPT !.state = "gone"] ELSE link[s]]
    BY <1>15 DEF Purge
  <2>6. L \in SUBSET Share /\ \A s \in L : InTable(s)
    OBVIOUS
  <2> HIDE DEF L
  <2>7. LinkInv' /\ \A u \in Share : Forward(u) /\ link'[u].views <= link[u].views
    BY <2>5, <2>6, LinksGone
  <2>8. QED
    BY <2>2, <2>4, <2>7
<1>16. QED
  BY <1>4, <1>6, <1>7, <1>8, <1>9, <1>13, <1>14, <1>15 DEF Own

\* What a visit saw it has seen until it is over.
LEMMA SeenStays ==
  ASSUME Seeing
  PROVE  /\ usable' \subseteq Visitor /\ live' \subseteq Visitor
         /\ \A v \in Visitor : visit'[v] # NoVisit =>
              /\ v \in usable => v \in usable'
              /\ v \in live => v \in live'
              /\ Seen(v)' => v \in usable'
              /\ Seen(v)' /\ link'[visit'[v].share].state = "valid" => v \in live'
  BY Zenon DEF Seeing

\* The visits that do not move.
LEMMA VisitStays ==
  ASSUME SInv, NEW v \in Visitor, visit'[v] = visit[v], Seeing, \A t \in Share : Forward(t)
  PROVE  VisitInv(v)'
<1>1. VisitInv(v) /\ visit[v] \in VisitRecord
  BY DEF SInv
<1>2. CASE visit[v].pc = "idle"
  BY <1>2 DEF VisitInv, VisitAt, Resolved
<1>3. CASE visit[v].pc # "idle"
  <2> DEFINE s == visit[v].share
  <2>1. s \in Share /\ link[s].state # "none" /\ Forward(s) /\ visit'[v].share = s
    BY <1>1, <1>3 DEF VisitInv, VisitAt
  <2>2. visit'[v] # NoVisit
    BY <1>3 DEF NoVisit
  <2>3. (v \in usable => v \in usable') /\ (v \in live => v \in live')
    BY <2>2, SeenStays
  <2>4. link'[s].state # "none" /\ (link[s].state # "asked" => link'[s].state # "asked")
    BY <2>1 DEF Forward
  <2>5. link[s].state # "asked" =>
          /\ link'[s].state = "valid" => link[s].state = "valid"
          /\ InTable(s)' => InTable(s)
    BY <2>1 DEF Forward
  <2>6. VisitAt(v, "count") \/ Resolved(v) => link[s].state # "asked"
    BY <1>1, <1>3 DEF VisitInv, VisitAt, Resolved
  <2>7. InTable(visit[v].share)' = InTable(s)'
    BY <2>1 DEF InTable
  <2>8. QED
    BY <1>1, <2>1, <2>3, <2>4, <2>5, <2>6, <2>7 DEF VisitInv, VisitAt, Resolved
<1>4. QED
  BY <1>2, <1>3

\* The visit that moves, as the links are.
LEMMA VisitMoves ==
  ASSUME SInv, NEW v \in Visitor, Serve(v), Seeing
  PROVE  /\ visit' \in [Visitor -> VisitRecord] /\ VisitInv(v)'
         /\ UNCHANGED vars /\ \A w \in Visitor \ {v} : visit'[w] = visit[w]
<1> DEFINE s == visit[v].share
           t == TargetOf(v)
<1>1. VisitInv(v) /\ visit[v] \in VisitRecord
  BY DEF SInv
<1>2. VisitRecord = [pc : {"idle", "token", "target", "count", "fetch", "list", "send"},
                     share : Share \cup {NoShare}, kind : {"look", "download"},
                     round : {1, 2}, dir : Path, files : SUBSET File]
  BY DEF VisitRecord, Path
<1>3. NoVisit \in VisitRecord /\ NoVisit.pc = "idle"
  BY <1>2, PathTypes DEF NoVisit
<1>4. ASSUME NEW q \in VisitRecord, Visiting(v, q)
      PROVE  /\ visit' \in [Visitor -> VisitRecord] /\ visit'[v] = q /\ UNCHANGED vars
             /\ \A w \in Visitor \ {v} : visit'[w] = visit[w]
  BY <1>4 DEF Visiting, SInv
<1>5. ASSUME Visiting(v, NoVisit)
      PROVE  /\ visit' \in [Visitor -> VisitRecord] /\ VisitInv(v)'
             /\ UNCHANGED vars /\ \A w \in Visitor \ {v} : visit'[w] = visit[w]
  <2>1. /\ visit' \in [Visitor -> VisitRecord] /\ visit'[v] = NoVisit /\ UNCHANGED vars
        /\ \A w \in Visitor \ {v} : visit'[w] = visit[w]
    BY <1>3, <1>4, <1>5
  <2>2. QED
    BY <1>3, <2>1 DEF VisitInv, VisitAt, Resolved
<1>6. ASSUME NEW u \in Share, NEW kind \in {"look", "download"}, Open(v, u, kind)
      PROVE  /\ visit' \in [Visitor -> VisitRecord] /\ VisitInv(v)'
             /\ UNCHANGED vars /\ \A w \in Visitor \ {v} : visit'[w] = visit[w]
  <2> DEFINE q == [NoVisit EXCEPT !.pc = "token", !.share = u, !.kind = kind]
  <2>1. q \in VisitRecord
    BY <1>2, <1>3
  <2>2. q.pc = "token" /\ q.share = u /\ q.round = NoVisit.round
    BY <1>2, <1>3
  <2>3. NoVisit.round = 1
    BY DEF NoVisit
  <2>4. Visiting(v, q) /\ link[u].state # "none" /\ UNCHANGED link
    BY <1>6 DEF Open
  <2> HIDE DEF q
  <2>5. visit'[v] = q
    BY <1>4, <2>1, <2>4
  <2>6. VisitInv(v)'
    BY <2>2, <2>3, <2>4, <2>5 DEF VisitInv, VisitAt, Resolved
  <2>7. QED
    BY <1>4, <2>1, <2>4, <2>6
<1>7. ASSUME visit[v].pc # "idle"
      PROVE  s \in Share /\ link[s].state # "none" /\ t = link[s].target /\ t \in Target
  <2>1. s \in Share /\ link[s].state # "none"
    BY <1>1, <1>7 DEF VisitInv, VisitAt
  <2>2. QED
    BY <2>1 DEF TargetOf, SInv, LinkInv
<1>8. ASSUME NEW step \in {"target", "count", "fetch", "list", "send"},
             visit[v].pc # "idle",
             Visiting(v, [visit[v] EXCEPT !.pc = step])
      PROVE  /\ visit' \in [Visitor -> VisitRecord]
             /\ visit'[v].pc = step /\ visit'[v].share = s /\ visit'[v].round = visit[v].round
             /\ UNCHANGED vars /\ \A w \in Visitor \ {v} : visit'[w] = visit[w]
             /\ v \in live => v \in live'
             /\ v \in usable => v \in usable'
             /\ Seen(v)' => v \in usable'
             /\ Seen(v)' /\ link'[s].state = "valid" => v \in live'
  <2> DEFINE q == [visit[v] EXCEPT !.pc = step]
  <2>1. q \in VisitRecord /\ q.pc = step /\ q.share = s /\ q.round = visit[v].round
    BY <1>1, <1>2
  <2>2. Visiting(v, q)
    BY <1>8
  <2> HIDE DEF q
  <2>3. /\ visit' \in [Visitor -> VisitRecord] /\ visit'[v] = q /\ UNCHANGED vars
        /\ \A w \in Visitor \ {v} : visit'[w] = visit[w]
    BY <1>4, <2>1, <2>2
  <2>4. visit'[v] # NoVisit
    BY <1>3, <2>1, <2>3
  <2>5. QED
    BY <2>1, <2>3, <2>4, SeenStays
<1>9. ASSUME ResolveToken(v)
      PROVE  /\ visit' \in [Visitor -> VisitRecord] /\ VisitInv(v)'
             /\ UNCHANGED vars /\ \A w \in Visitor \ {v} : visit'[w] = visit[w]
  <2>1. visit[v].pc = "token" /\ UNCHANGED link
    BY <1>9 DEF ResolveToken, VisitAt
  <2>2. CASE link[s].state = "valid"
    <3>1. Visiting(v, [visit[v] EXCEPT !.pc = "target"])
      BY <1>9, <2>2 DEF ResolveToken
    <3>2. visit[v].round = 2 => v \in live
      BY <1>1, <2>1, <2>2 DEF VisitInv, VisitAt, Resolved
    <3>3. QED
      BY <1>7, <1>8, <2>1, <2>2, <3>1, <3>2 DEF VisitInv, VisitAt, Resolved
  <2>3. CASE link[s].state # "valid"
    BY <1>5, <1>9, <2>3 DEF ResolveToken
  <2>4. QED
    BY <2>2, <2>3
<1>10. ASSUME ResolveTarget(v)
       PROVE  /\ visit' \in [Visitor -> VisitRecord] /\ VisitInv(v)'
              /\ UNCHANGED vars /\ \A w \in Visitor \ {v} : visit'[w] = visit[w]
  <2> DEFINE found == TargetActive(t) /\ (t \in Folder => FolderDirRel(path[t]))
  <2>1. visit[v].pc = "target" /\ UNCHANGED link
        /\ Visiting(v, IF found THEN [visit[v] EXCEPT !.pc = "count"] ELSE NoVisit)
    BY <1>10 DEF ResolveTarget, VisitAt
  <2>2. CASE ~found
    BY <1>5, <2>1, <2>2
  <2>3. CASE found
    <3>1. Visiting(v, [visit[v] EXCEPT !.pc = "count"])
      BY <2>1, <2>3
    <3>2. visit'[v].share = s /\ UNCHANGED vars /\ visit'[v].pc = "count"
      BY <1>8, <2>1, <3>1
    <3>3. TargetActive(t)
      BY <2>3
    <3>4. TargetActive(TargetOf(v))' <=> TargetActive(t)
      BY <2>1, <3>2 DEF TargetActive, TargetOf, vars
    <3>5. InTable(s) => Seen(v)'
      BY <2>1, <3>2, <3>3, <3>4 DEF Seen, InTable
    <3>6. link[s].state = "valid" => InTable(s)
      BY DEF InTable
    <3>7. link[s].state # "asked" /\ (visit[v].round = 2 => v \in live)
      BY <1>1, <2>1 DEF VisitInv, VisitAt
    <3>8. /\ visit' \in [Visitor -> VisitRecord]
          /\ visit'[v].round = visit[v].round
          /\ \A w \in Visitor \ {v} : visit'[w] = visit[w]
          /\ v \in live => v \in live'
          /\ InTable(s) => v \in usable'
          /\ link'[s].state = "valid" => v \in live'
      BY <1>8, <2>1, <3>1, <3>5, <3>6
    <3>9. InTable(visit[v].share)' <=> InTable(s)
      BY <2>1, <3>2 DEF InTable
    <3>10. VisitInv(v)'
      BY <1>7, <2>1, <3>2, <3>7, <3>8, <3>9 DEF VisitInv, VisitAt, Resolved
    <3>11. QED
      BY <3>2, <3>8, <3>10
  <2>4. QED
    BY <2>2, <2>3
<1>11. ASSUME Count(v)
       PROVE  /\ visit' \in [Visitor -> VisitRecord] /\ VisitInv(v)'
              /\ UNCHANGED vars /\ \A w \in Visitor \ {v} : visit'[w] = visit[w]
  <2>1. /\ visit[v].pc = "count" /\ Visiting(v, AfterCount(v))
        /\ link' = IF InTable(s) /\ link[s].views < MaxViews
                   THEN [link EXCEPT ![s].views = link[s].views + 1] ELSE link
    BY <1>11 DEF Count, VisitAt
  <2>2. link'[s].state = link[s].state
    <3>1. s \in Share /\ link[s] \in LinkRecord
      BY <1>7, <2>1 DEF SInv, LinkInv
    <3>2. QED
      BY <2>1, <3>1 DEF SInv, LinkInv, LinkRecord
  <2>3. link[s].state # "none" /\ link[s].state # "asked" /\ s \in Share
        /\ (link[s].state = "valid" \/ visit[v].round = 2 => v \in live)
    BY <1>1, <2>1 DEF VisitInv, VisitAt, Resolved
  <2>4. CASE visit[v].kind = "look"
    <3>1. Visiting(v, NoVisit)
      BY <2>1, <2>4 DEF AfterCount
    <3>2. QED
      BY <1>5, <3>1
  <2>5. CASE visit[v].kind = "download" /\ visit[v].round = 1
    <3> DEFINE q == [visit[v] EXCEPT !.pc = "token", !.round = 2]
    <3>1. Visiting(v, q)
      BY <2>1, <2>5 DEF AfterCount
    <3>2. q \in VisitRecord /\ q.pc = "token" /\ q.share = s /\ q.round = 2
      BY <1>1, <1>2
    <3> HIDE DEF q
    <3>3. /\ visit' \in [Visitor -> VisitRecord] /\ visit'[v] = q /\ UNCHANGED vars
          /\ \A w \in Visitor \ {v} : visit'[w] = visit[w]
      BY <1>4, <3>1, <3>2
    <3>4. visit'[v] # NoVisit
      BY <1>3, <3>2, <3>3
    <3>5. v \in live => v \in live'
      BY <3>4, SeenStays
    <3>6. VisitInv(v)'
      BY <2>2, <2>3, <3>2, <3>3, <3>5 DEF VisitInv, VisitAt, Resolved
    <3>7. QED
      BY <3>3, <3>6
  <2>6. CASE visit[v].kind = "download" /\ visit[v].round = 2
    <3>1. Visiting(v, [visit[v] EXCEPT !.pc = "fetch"])
      BY <2>1, <2>6 DEF AfterCount
    <3>2. QED
      BY <1>8, <2>1, <2>2, <2>3, <2>6, <3>1 DEF VisitInv, VisitAt, Resolved
  <2>7. QED
    BY <1>1, <1>2, <2>4, <2>5, <2>6
<1>12. ASSUME NEW step \in {"list", "send"}, NEW p \in Path, NEW F \in SUBSET File,
              visit[v].pc \in {"fetch", "list"}, UNCHANGED link,
              Visiting(v, [visit[v] EXCEPT !.pc = step, !.dir = p, !.files = F])
       PROVE  /\ visit' \in [Visitor -> VisitRecord] /\ VisitInv(v)'
              /\ UNCHANGED vars /\ \A w \in Visitor \ {v} : visit'[w] = visit[w]
  <2> DEFINE q == [visit[v] EXCEPT !.pc = step, !.dir = p, !.files = F]
  <2>1. q \in VisitRecord /\ q.pc = step /\ q.share = s /\ q.round = visit[v].round
    BY <1>1, <1>2
  <2>2. Visiting(v, q)
    BY <1>12
  <2> HIDE DEF q
  <2>3. /\ visit' \in [Visitor -> VisitRecord] /\ visit'[v] = q /\ UNCHANGED vars
        /\ \A w \in Visitor \ {v} : visit'[w] = visit[w]
    BY <1>4, <2>1, <2>2
  <2>4. visit'[v] # NoVisit
    BY <1>3, <2>1, <2>3
  <2>5. v \in live => v \in live'
    BY <2>4, SeenStays
  <2>6. s \in Share /\ link[s].state \notin {"none", "asked"} /\ visit[v].round = 2 /\ v \in live
    BY <1>1, <1>12 DEF VisitInv, VisitAt
  <2>7. VisitInv(v)'
    BY <1>12, <2>1, <2>3, <2>5, <2>6 DEF VisitInv, VisitAt, Resolved
  <2>8. QED
    BY <2>3, <2>7
<1>13. visit[v].dir \in Path /\ visit[v].files \in SUBSET File
  BY <1>1, <1>2
<1>14. ASSUME NEW step, NEW p PROVE
         [visit[v] EXCEPT !.pc = step, !.dir = p]
           = [visit[v] EXCEPT !.pc = step, !.dir = p, !.files = visit[v].files]
  BY <1>1, <1>2
<1>15. ASSUME NEW step, NEW F PROVE
         [visit[v] EXCEPT !.pc = step, !.files = F]
           = [visit[v] EXCEPT !.pc = step, !.dir = visit[v].dir, !.files = F]
  BY <1>1, <1>2
<1>16. ASSUME Fetch(v)
       PROVE  /\ visit' \in [Visitor -> VisitRecord] /\ VisitInv(v)'
              /\ UNCHANGED vars /\ \A w \in Visitor \ {v} : visit'[w] = visit[w]
  <2>1. /\ visit[v].pc = "fetch" /\ UNCHANGED link
        /\ Visiting(v,
             IF t \in File
             THEN IF HasRow(t) THEN [visit[v] EXCEPT !.pc = "send", !.dir = file[t].rel, !.files = {t}]
                  ELSE NoVisit
             ELSE IF FolderDirRel(path[t]) THEN [visit[v] EXCEPT !.pc = "list", !.dir = path[t]]
                  ELSE NoVisit)
    BY <1>16 DEF Fetch, VisitAt
  <2>2. t \in Target
    BY <1>7, <2>1
  <2>3. CASE t \in File /\ HasRow(t)
    <3>1. Visiting(v, [visit[v] EXCEPT !.pc = "send", !.dir = file[t].rel, !.files = {t}])
      BY <2>1, <2>3
    <3>2. file[t].rel \in Path /\ {t} \in SUBSET File
      BY <2>3, PathTypes DEF SInv, DInv, DiskInv
    <3>3. QED
      BY <1>12, <2>1, <3>1, <3>2
  <2>4. CASE t \notin File /\ FolderDirRel(path[t])
    <3>1. Visiting(v, [visit[v] EXCEPT !.pc = "list", !.dir = path[t]])
      BY <2>1, <2>4
    <3>2. path[t] \in Path
      BY <2>2, <2>4 DEF Target, SInv, DInv, TreeInv
    <3>3. Visiting(v, [visit[v] EXCEPT !.pc = "list", !.dir = path[t], !.files = visit[v].files])
      BY <1>14, <3>1
    <3>4. QED
      BY <1>12, <1>13, <2>1, <3>2, <3>3
  <2>5. CASE (t \in File /\ ~HasRow(t)) \/ (t \notin File /\ ~FolderDirRel(path[t]))
    <3>1. Visiting(v, NoVisit)
      BY <2>1, <2>5
    <3>2. QED
      BY <1>5, <3>1
  <2>6. QED
    BY <2>3, <2>4, <2>5
<1>17. ASSUME ListFilesInFolder(v)
       PROVE  /\ visit' \in [Visitor -> VisitRecord] /\ VisitInv(v)'
              /\ UNCHANGED vars /\ \A w \in Visitor \ {v} : visit'[w] = visit[w]
  <2> DEFINE F == {x \in File : file[x].status = "active" /\ IsPrefix(visit[v].dir, file[x].rel)}
  <2>1. /\ visit[v].pc = "list" /\ UNCHANGED link
        /\ Visiting(v, [visit[v] EXCEPT !.pc = "send", !.files = F])
    BY <1>17 DEF ListFilesInFolder, VisitAt
  <2>2. F \in SUBSET File
    OBVIOUS
  <2> HIDE DEF F
  <2>3. Visiting(v, [visit[v] EXCEPT !.pc = "send", !.dir = visit[v].dir, !.files = F])
    BY <1>15, <2>1
  <2>4. QED
    BY <1>12, <1>13, <2>1, <2>2, <2>3
<1>18. ASSUME Send(v)
       PROVE  /\ visit' \in [Visitor -> VisitRecord] /\ VisitInv(v)'
              /\ UNCHANGED vars /\ \A w \in Visitor \ {v} : visit'[w] = visit[w]
  BY <1>5, <1>18 DEF Send
<1>19. QED
  BY <1>6, <1>9, <1>10, <1>11, <1>16, <1>17, <1>18 DEF Serve

\* A visit changes no link but by counting itself.
LEMMA ServeLinks ==
  ASSUME SInv, NEW v \in Visitor, Serve(v)
  PROVE  /\ LinkInv' /\ \A t \in Share : Forward(t)
         /\ \A t \in Share : link'[t].views > link[t].views =>
              v \in usable /\ VisitAt(v, "count") /\ visit[v].share = t
<1>1. ASSUME NEW t \in Share
      PROVE  link[t] \in LinkRecord /\ link[t].views \in Nat
  BY SharesAssumption DEF SInv, LinkInv, LinkRecord
<1>2. CASE UNCHANGED link
  <2>1. LinkInv'
    BY <1>2 DEF SInv, LinkInv
  <2>2. \A t \in Share : Forward(t) /\ ~(link'[t].views > link[t].views)
    BY <1>1, <1>2 DEF Forward, InTable
  <2>3. QED
    BY <2>1, <2>2
<1>3. CASE Count(v)
  <2> DEFINE s == visit[v].share
             q == [link[s] EXCEPT !.views = link[s].views + 1]
  <2>1. VisitAt(v, "count") /\ s \in Share /\ (InTable(s) => v \in usable)
    BY <1>3 DEF Count, SInv, VisitInv, VisitAt
  <2>2. CASE InTable(s) /\ link[s].views < MaxViews
    <3>1. link' = [link EXCEPT ![s].views = @ + 1]
      BY <1>3, <2>2 DEF Count
    <3>2. link' = [link EXCEPT ![s] = q]
      BY <3>1
    <3>3. link[s].views + 1 \in 0 .. MaxViews
      BY <1>1, <2>1, <2>2, SharesAssumption
    <3>4. q \in LinkRecord /\ q.state = link[s].state /\ q.target = link[s].target
      BY <1>1, <2>1, <3>3 DEF LinkRecord
    <3>5. q.state # "none" => q.target \in Target
      BY <2>1, <3>4 DEF SInv, LinkInv
    <3> HIDE DEF q
    <3>6. LinkInv' /\ \A t \in Share : Forward(t)
      BY <2>1, <3>2, <3>4, <3>5, LinkingStep DEF SInv, InTable
    <3>7. ASSUME NEW t \in Share, link'[t].views > link[t].views PROVE t = s
      <4>1. t # s => link'[t] = link[t]
        BY <3>2 DEF SInv, LinkInv
      <4>2. QED
        BY <1>1, <3>7, <4>1
    <3>8. QED
      BY <2>1, <2>2, <3>6, <3>7
  <2>3. CASE ~(InTable(s) /\ link[s].views < MaxViews)
    BY <1>2, <1>3, <2>3 DEF Count
  <2>4. QED
    BY <2>2, <2>3
<1>4. QED
  BY <1>2, <1>3 DEF Serve, Open, ResolveToken, ResolveTarget, Fetch, ListFilesInFolder, Send

LEMMA SInvStep == SInv /\ [SNext]_svars => SInv'
<1> SUFFICES ASSUME SInv, [SNext]_svars PROVE SInv'
  OBVIOUS
<1>1. ASSUME DInv', LinkInv', UNCHANGED visit, Seeing, \A t \in Share : Forward(t)
      PROVE  SInv'
  <2>1. \A v \in Visitor : VisitInv(v)'
    BY <1>1, VisitStays
  <2>2. usable' \subseteq Visitor /\ live' \subseteq Visitor
    BY <1>1, SeenStays
  <2>3. QED
    BY <1>1, <2>1, <2>2 DEF SInv
<1>2. ASSUME DNext, UNCHANGED <<link, visit>>, Seeing PROVE SInv'
  <2>1. DInv'
    BY <1>2, DInvStep DEF SInv
  <2>2. LinkInv'
    BY <1>2 DEF SInv, LinkInv
  <2>3. ASSUME NEW t \in Share PROVE Forward(t)
    <3>1. link[t].views \in Nat
      BY SharesAssumption DEF SInv, LinkInv, LinkRecord
    <3>2. QED
      BY <1>2, <3>1 DEF Forward, InTable
  <2>4. QED
    BY <1>1, <1>2, <2>1, <2>2, <2>3
<1>3. ASSUME Own, Seeing PROVE SInv'
  BY <1>1, <1>3, OwnStep
<1>4. ASSUME NEW v \in Visitor, Serve(v), Seeing PROVE SInv'
  <2>1. /\ visit' \in [Visitor -> VisitRecord] /\ VisitInv(v)'
        /\ UNCHANGED vars /\ \A w \in Visitor \ {v} : visit'[w] = visit[w]
    BY <1>4, VisitMoves
  <2>2. LinkInv' /\ \A t \in Share : Forward(t)
    BY <1>4, ServeLinks
  <2>3. DInv'
    BY <2>1, DInvStep DEF SInv
  <2>4. \A w \in Visitor : VisitInv(w)'
    BY <1>4, <2>1, <2>2, VisitStays
  <2>5. usable' \subseteq Visitor /\ live' \subseteq Visitor
    BY <1>4, SeenStays
  <2>6. QED
    BY <2>1, <2>2, <2>3, <2>4, <2>5 DEF SInv
<1>5. CASE UNCHANGED svars
  <2>1. DInv'
    BY <1>5, DInvStep DEF SInv, svars
  <2>2. QED
    BY <1>5, <2>1 DEF svars, SInv, LinkInv, VisitInv, VisitAt, Resolved, InTable
<1>6. QED
  BY <1>2, <1>3, <1>4, <1>5 DEF SNext

LEMMA SharesInvariant == SSpec => []SInv
  BY SInvInit, SInvStep, PTL DEF SSpec

\* The types of links and visits, over those of the folders.
THEOREM SharesTypeCorrect == SSpec => []STypeOK
<1>1. SInv => STypeOK
  BY DInvTypes DEF SInv, LinkInv, STypeOK
<1>2. QED
  BY <1>1, SharesInvariant, PTL

\* The owner's trash, restores and purges and the visits lose no bytes either.
THEOREM SharedBytesKept == SSpec => []BytesAreKept
<1>1. SInv => BytesAreKept
  BY DEF SInv, DInv, DiskInv
<1>2. QED
  BY <1>1, SharesInvariant, PTL

\* Whatever owners, administrators and the daily task do between the statements of
\* a download, what it serves was shared: at one moment of the visit its link was
\* in the table and unexpired and its target was active.
THEOREM ServedLive == SSpec => []ServedWasLive
<1>1. SInv => ServedWasLive
  BY DEF SInv, VisitInv, ServedWasLive, VisitAt
<1>2. QED
  BY <1>1, SharesInvariant, PTL

\* A visit that is counted was possible at one moment.
THEOREM CountedUsable == SSpec => CountedWasUsable
<1> DEFINE Counted == \A s \in Share : link'[s].views > link[s].views =>
                        \E v \in usable : VisitAt(v, "count") /\ visit[v].share = s
<1>1. SInv /\ [SNext]_svars => [Counted]_svars
  <2> SUFFICES ASSUME SInv, SNext PROVE Counted
    OBVIOUS
  <2>1. ASSUME NEW s \in Share
        PROVE  link[s].views \in Nat
    BY SharesAssumption DEF SInv, LinkInv, LinkRecord
  <2>2. CASE UNCHANGED link
    BY <2>1, <2>2
  <2>3. CASE Own
    <3>1. ASSUME NEW s \in Share PROVE ~(link'[s].views > link[s].views)
      <4>1. link'[s].views <= link[s].views /\ link'[s].views \in Nat
        BY <2>3, OwnStep DEF Forward
      <4>2. QED
        BY <2>1, <4>1
    <3>2. QED
      BY <3>1
  <2>4. CASE \E v \in Visitor : Serve(v)
    BY <2>4, ServeLinks
  <2>5. QED
    BY <2>2, <2>3, <2>4 DEF SNext
<1>2. QED
  BY <1>1, SharesInvariant, PTL DEF SSpec, CountedWasUsable

(***************************************************************************)
(* Folders: the tree.                                                      *)
(*                                                                         *)
(* The tables are in order whenever nothing has gone wrong, not only at    *)
(* rest: while a folder is being made its row may hang under a deleted     *)
(* parent, and while one is being moved the files' rows are behind by that *)
(* one move.  At such a time nobody else acts without being raced (Alone), *)
(* and what an unraced request or upload has read is still so.             *)
(***************************************************************************)
Active(d) == fstat[d] = "active"

\* Requests that have changed the tables and are not through with it.
Middle == {"makeDir", "renameFiles", "renameDir"}

LiesInParent(d) ==
  /\ fname[d] \in Name
  /\ parent[d] # NoFolder => Active(parent[d])
  /\ path[d] = Append(PathOf(parent[d]), Live(fname[d]))

\* The mark of a path is its folder's if the folder is deleted.
MarksTell ==
  \A d \in Folder : Used(d) => LastMark(path[d]) = IF fstat[d] = "deleted" THEN d ELSE NoFolder

TreeSound ==
  \A d \in Folder : Active(d) /\ FolderDirRel(path[d]) =>
    /\ LiesInParent(d)
    /\ \A q \in Prefixes(path[d]) \ {<<>>} : \E e \in Folder : Active(e) /\ path[e] = q

HalfMade ==
  \A d \in Folder : Active(d) /\ ~FolderDirRel(path[d]) =>
    \E r \in Request : At(r, "makeDir") /\ req[r].new = path[d]

RowsSound ==
  \A x \in File : HasRow(x) /\ Active(file[x].folder) =>
    /\ (\A r \in Request : ~At(r, "renameFiles")) => file[x].rel = path[file[x].folder]
    /\ \A r \in Request : At(r, "renameFiles") =>
         path[file[x].folder] = Moved(file[x].rel, req[r].old, req[r].new)

Alone ==
  \A r \in Request : req[r].pc \in Middle =>
    /\ \A s \in Request \ {r} : req[s] # NoReq => s \in raced
    /\ \A x \in File : Uploading(x) => x \in raced

NameIsFree(q, except) == ~FolderNameExists(q.parent, q.name, except)

Asked(q) ==
  /\ q.name \in Name
  /\ q.parent # NoFolder => Used(q.parent)
  /\ q.new = Append(PathOf(q.parent), Live(q.name))

ReqKnows(r) ==
  LET q == req[r]
  IN /\ At(r, "insert") => Asked(q) /\ NameIsFree(q, NoFolder)
     /\ At(r, "renameRows") =>
          /\ Asked(q) /\ NameIsFree(q, q.id)
          /\ Used(q.id) /\ q.old = path[q.id] /\ FolderDirRel(q.old) /\ q.new # q.old
          /\ q.parent # NoFolder => q.parent # q.id /\ ~IsPrefix(q.old, path[q.parent])
     /\ At(r, "trashTree") =>
          \A x \in File : ~(file[x].status = "active" /\ IsPrefix(q.old, file[x].rel))

FileKnows(x) == Uploading(x) => file[x].dir = path[file[x].folder]

FileInv ==
  \A x \in File :
    /\ up[x] # "none" => file[x].folder \in Folder /\ Used(file[x].folder)
    /\ up[x] \in {"none", "open"} => ~HasRow(x)
    /\ HasRow(x) => FolderDirRel(file[x].rel)

RacedInv ==
  /\ \A r \in Request : r \in raced => req[r] # NoReq
  /\ \A x \in File : x \in raced => Uploading(x)

FoldersSound == MarksTell /\ KeyHolds(path) /\ TreeSound

Unraced ==
  /\ \A r \in Request : r \notin raced => ReqKnows(r)
  /\ \A x \in File : x \notin raced => FileKnows(x)

Sound == FoldersSound /\ HalfMade /\ RowsSound /\ Alone /\ Unraced

TablesInv == FileInv /\ RacedInv /\ (~spoiled => Sound)

\* A step of the requests and uploads in A: all others stay where they are, and
\* those that were raced, or are by this step, are held to be so.
Others(A) ==
  /\ \A s \in Request \ A : /\ req'[s] = req[s]
                            /\ req[s] # NoReq /\ (s \in raced \/ Tables' # Tables) => s \in raced'
  /\ \A x \in File \ A : /\ up'[x] = up[x]
                         /\ Uploading(x) /\ (x \in raced \/ Tables' # Tables) => x \in raced'

LEMMA RacedStep ==
  ASSUME NEW b \in BOOLEAN, Racing(b)
  PROVE  RacedInv' /\ (~spoiled' => ~spoiled)
<1> DEFINE busy == {r \in Request : req'[r] # NoReq} \cup {x \in File : Uploading(x)'}
<1>1. raced' \subseteq busy /\ (~spoiled' => ~spoiled)
  BY DEF Racing
<1>2. \A s \in Request : s \notin File
  BY FoldersAssumption
<1>3. QED
  BY <1>1, <1>2 DEF RacedInv

LEMMA RaceOthers ==
  ASSUME RaceInv, NEW b \in BOOLEAN, Racing(b), NEW A, A \subseteq Request \cup File,
         \A s \in Request : s \in A <=> req'[s] # req[s],
         \A x \in File : x \in A <=> up'[x] # up[x]
  PROVE  /\ Others(A)
         /\ ~spoiled' => ~spoiled /\ ~b /\ A \cap raced = {}
         /\ \A r \in A \cap Request :
              req[r] = NoReq /\ req'[r] # NoReq /\ (\E s \in Request : Halfway(s)) => r \in raced'
         /\ \A x \in A \cap File :
              up[x] = "none" /\ Uploading(x)' /\ (\E s \in Request : Halfway(s)) => x \in raced'
<1> DEFINE changed == Tables' # Tables
           acting == {r \in Request : req'[r] # req[r]} \cup {x \in File : up'[x] # up[x]}
           busy == {r \in Request : req'[r] # NoReq} \cup {x \in File : Uploading(x)'}
           starting == {r \in Request : req[r] = NoReq} \cup {x \in File : up[x] = "none"}
           split == \E r \in Request : Halfway(r)
<1>1. /\ raced' = {a \in busy : \/ a \in raced
                                \/ changed /\ a \notin acting
                                \/ split /\ a \in acting \cap starting}
      /\ spoiled' = (spoiled \/ b \/ acting \cap raced # {})
  BY DEF Racing
<1>2. acting = A
  OBVIOUS
<1>3. \A s \in Request : s \notin File
  BY FoldersAssumption
<1>4. \A s \in Request : s \in busy <=> req'[s] # NoReq
  BY <1>3
<1>5. \A x \in File : x \in busy <=> Uploading(x)'
  BY <1>3
<1>6. \A x \in File \ A : Uploading(x)' <=> Uploading(x)
  BY DEF Uploading
<1> HIDE DEF changed, acting, busy, split
<1>7. \A a \in busy : a \in raced' <=> \/ a \in raced
                                       \/ changed /\ a \notin A
                                       \/ split /\ a \in A \cap starting
  BY <1>1, <1>2
<1>9. Others(A)
  <2>1. ASSUME NEW s \in Request \ A
        PROVE  /\ req'[s] = req[s]
               /\ req[s] # NoReq /\ (s \in raced \/ Tables' # Tables) => s \in raced'
    BY <1>4, <1>7 DEF changed
  <2>2. ASSUME NEW x \in File \ A
        PROVE  /\ up'[x] = up[x]
               /\ Uploading(x) /\ (x \in raced \/ Tables' # Tables) => x \in raced'
    BY <1>5, <1>6, <1>7 DEF changed
  <2>3. QED
    BY <2>1, <2>2 DEF Others
<1>10. ASSUME ~spoiled' PROVE ~spoiled /\ ~b /\ A \cap raced = {}
  BY <1>1, <1>2, <1>10
<1>11. ASSUME NEW r \in A \cap Request, req[r] = NoReq, req'[r] # NoReq, split PROVE r \in raced'
  BY <1>4, <1>7, <1>11
<1>12. ASSUME NEW x \in A \cap File, up[x] = "none", Uploading(x)', split PROVE x \in raced'
  BY <1>5, <1>7, <1>12
<1>13. QED
  BY <1>9, <1>10, <1>11, <1>12 DEF split

\* What an unraced bystander has read is still so.
LEMMA UnracedStay ==
  ASSUME Unraced, NEW A, Others(A),
         \A x \in File \ A : file'[x].dir = file[x].dir /\ file'[x].folder = file[x].folder
  PROVE  /\ \A s \in Request \ A : s \notin raced' => ReqKnows(s)'
         /\ \A x \in File \ A : x \notin raced' => FileKnows(x)'
<1>1. ASSUME Tables' = Tables
      PROVE  /\ fstat' = fstat /\ parent' = parent /\ fname' = fname /\ path' = path
             /\ \A x \in File : file'[x].rel = file[x].rel /\ file'[x].status = file[x].status
  <2> DEFINE F == [x \in File |-> <<file[x].rel, file[x].status>>]
  <2>1. tree' = tree /\ F' = F
    BY <1>1 DEF Tables
  <2>2. \A x \in File : F'[x] = F[x] /\ F'[x] = <<file'[x].rel, file'[x].status>>
                        /\ F[x] = <<file[x].rel, file[x].status>>
    BY <2>1
  <2>3. QED
    BY <2>1, <2>2 DEF tree
<1>2. ASSUME NEW s \in Request \ A, s \notin raced' PROVE ReqKnows(s)'
  <2>1. req'[s] = req[s]
    BY DEF Others
  <2>2. CASE req[s] = NoReq
    BY <2>1, <2>2 DEF ReqKnows, At, NoReq
  <2>3. CASE req[s] # NoReq
    <3>1. s \notin raced /\ Tables' = Tables
      BY <1>2, <2>3 DEF Others
    <3>2. ReqKnows(s)
      BY <3>1 DEF Unraced
    <3>3. /\ fstat' = fstat /\ parent' = parent /\ fname' = fname /\ path' = path
          /\ \A x \in File : file'[x].rel = file[x].rel /\ file'[x].status = file[x].status
      BY <1>1, <3>1
    <3>4. QED
      BY <2>1, <3>2, <3>3 DEF ReqKnows, At, Asked, NameIsFree, FolderNameExists, Used, PathOf
  <2>4. QED
    BY <2>2, <2>3
<1>3. ASSUME NEW x \in File \ A, x \notin raced' PROVE FileKnows(x)'
  <2>1. up'[x] = up[x]
    BY DEF Others
  <2>2. ASSUME Uploading(x) PROVE FileKnows(x)'
    <3>1. x \notin raced /\ Tables' = Tables
      BY <1>3, <2>2 DEF Others
    <3>2. FileKnows(x)
      BY <3>1 DEF Unraced
    <3>3. QED
      BY <1>1, <2>1, <3>1, <3>2 DEF FileKnows, Uploading
  <2>3. QED
    BY <2>1, <2>2 DEF FileKnows, Uploading
<1>4. QED
  BY <1>2, <1>3

\* Who is in the middle of a request stays alone.
LEMMA AloneStay ==
  ASSUME Alone, NEW A, A \subseteq Request \cup File, Others(A),
         \A r \in A \cap Request : req'[r].pc \in Middle =>
           (req[r].pc \in Middle \/ Tables' # Tables) /\ A = {r},
         \A r \in A \cap Request :
           req'[r] # NoReq /\ (\E s \in Request \ {r} : req[s].pc \in Middle) => r \in raced',
         \A x \in A \cap File :
           Uploading(x)' /\ (\E s \in Request : req[s].pc \in Middle) => x \in raced'
  PROVE  Alone'
<1>1. ASSUME NEW r \in Request, req'[r].pc \in Middle, NEW s \in Request \ {r}, req'[s] # NoReq
      PROVE  s \in raced'
  <2>1. CASE r \in A
    <3>1. s \notin A /\ (req[r].pc \in Middle \/ Tables' # Tables)
      BY <1>1, <2>1
    <3>2. req[s] # NoReq
      BY <1>1, <3>1 DEF Others
    <3>3. QED
      BY <3>1, <3>2 DEF Others, Alone
  <2>2. CASE r \notin A
    <3>1. req[r].pc \in Middle
      BY <1>1, <2>2 DEF Others
    <3>2. CASE s \in A
      BY <1>1, <3>1, <3>2
    <3>3. CASE s \notin A
      BY <1>1, <3>1, <3>3 DEF Others, Alone
    <3>4. QED
      BY <3>2, <3>3
  <2>3. QED
    BY <2>1, <2>2
<1>2. ASSUME NEW r \in Request, req'[r].pc \in Middle, NEW x \in File, Uploading(x)'
      PROVE  x \in raced'
  <2>1. x \notin Request
    BY FoldersAssumption
  <2>2. CASE x \in A
    <3>1. r \notin A
      BY <1>2, <2>1, <2>2
    <3>2. req[r].pc \in Middle
      BY <1>2, <3>1 DEF Others
    <3>3. QED
      BY <1>2, <2>2, <3>2
  <2>3. CASE x \notin A
    <3>1. Uploading(x)
      BY <1>2, <2>3 DEF Others, Uploading
    <3>2. CASE r \in A
      BY <1>2, <2>3, <3>1, <3>2 DEF Others, Alone
    <3>3. CASE r \notin A
      BY <1>2, <2>3, <3>1, <3>3 DEF Others, Alone
    <3>4. QED
      BY <3>2, <3>3
  <2>4. QED
    BY <2>2, <2>3
<1>3. QED
  BY <1>1, <1>2 DEF Alone

LEMMA ConcatAssoc ==
  ASSUME NEW a \in Path, NEW b \in Path, NEW c \in Path
  PROVE  a \o (b \o c) = (a \o b) \o c
  BY ConcatAssociative DEF Path

LEMMA MovedOf ==
  ASSUME NEW old \in Path, NEW new \in Path, NEW t \in Path
  PROVE  Moved(old \o t, old, new) = new \o t
<1>1. old \o t \in Path
  BY ConcatPath
<1>2. QED
  BY <1>1, MovedIs

LEMMA PrefixOfAppend ==
  ASSUME NEW p \in Path, NEW s \in Segment, NEW z \in Path
  PROVE  IsPrefix(z, Append(p, s)) <=> z = Append(p, s) \/ IsPrefix(z, p)
<1>1. /\ Append(p, s) = p \o <<s>> /\ <<s>> \in Path /\ Append(p, s) \in Path
  BY AppendIs
<1>2. ASSUME IsPrefix(z, Append(p, s)), z # Append(p, s) PROVE IsPrefix(z, p)
  <2>1. PICK u \in Path : z \o u = Append(p, s)
    BY <1>1, <1>2, PrefixIff
  <2>2. u # <<>>
    BY <1>2, <2>1, ConcatPath
  <2>3. \E v \in Path : u = Append(v, s) /\ p = z \o v
    BY <2>1, <2>2, SplitAppend
  <2>4. QED
    BY <2>3, PrefixIff
<1>3. IsPrefix(Append(p, s), Append(p, s))
  BY <1>1, PrefixPath, PrefixesIff
<1>4. ASSUME IsPrefix(z, p) PROVE IsPrefix(z, Append(p, s))
  <2>1. PICK u \in Path : p = z \o u
    BY <1>4, PrefixIff
  <2>2. Append(p, s) = z \o Append(u, s) /\ Append(u, s) \in Path
    BY <2>1, AppendConcat, AppendIs
  <2>3. QED
    BY <1>1, <2>2, PrefixIff
<1>5. QED
  BY <1>2, <1>3, <1>4

LEMMA PrefixTrans ==
  ASSUME NEW a \in Path, NEW b \in Path, NEW c \in Path, IsPrefix(a, b), IsPrefix(b, c)
  PROVE  IsPrefix(a, c)
<1>1. PICK u \in Path : b = a \o u
  BY PrefixIff
<1>2. PICK v \in Path : c = b \o v
  BY PrefixIff
<1>3. (a \o u) \o v = a \o (u \o v)
  BY ConcatAssociative DEF Path
<1>4. u \o v \in Path
  BY ConcatPath
<1>5. QED
  BY <1>1, <1>2, <1>3, <1>4, PrefixIff

LEMMA PrefixDirRel ==
  ASSUME NEW a \in Path, NEW b \in Path, IsPrefix(a, b), FolderDirRel(b)
  PROVE  FolderDirRel(a)
<1>1. PICK t \in Path : b = a \o t
  BY PrefixIff
<1>2. QED
  BY <1>1, FolderDirRelConcat

\* A prefix of a path that has moved: one of the new place, or it has moved too.
LEMMA PrefixOfMoved ==
  ASSUME NEW old \in Path, NEW new \in Path, NEW t \in Path, NEW z \in Path,
         IsPrefix(z, new \o t)
  PROVE  \/ IsPrefix(z, new)
         \/ \E v \in Path : z = new \o v /\ IsPrefix(old \o v, old \o t)
<1>1. new \o t \in Path /\ old \o t \in Path /\ IsPrefix(new, new \o t)
  BY ConcatPath, PrefixIff
<1>2. IsPrefix(z, new) \/ IsPrefix(new, z)
  BY <1>1, Comparable
<1>3. ASSUME IsPrefix(new, z)
      PROVE  \E v \in Path : z = new \o v /\ IsPrefix(old \o v, old \o t)
  <2>1. PICK v \in Path : z = new \o v
    BY <1>3, PrefixIff
  <2>2. PICK u \in Path : new \o t = z \o u
    BY <1>1, PrefixIff
  <2>3. new \o (v \o u) = (new \o v) \o u
    BY ConcatAssoc
  <2>4. v \o u \in Path /\ new \o (v \o u) = new \o t
    BY <2>1, <2>2, <2>3, ConcatPath
  <2>5. t = v \o u
    BY <2>4, ConcatSimplifications DEF Path
  <2>6. old \o (v \o u) = (old \o v) \o u
    BY ConcatAssoc
  <2>7. old \o v \in Path
    BY ConcatPath
  <2>8. IsPrefix(old \o v, old \o t)
    BY <1>1, <2>5, <2>6, <2>7, PrefixIff
  <2>9. QED
    BY <2>1, <2>8
<1>4. QED
  BY <1>2, <1>3

LEMMA MovedAppend ==
  ASSUME NEW p \in Path, NEW old \in Path, NEW new \in Path, NEW s \in Segment,
         Append(p, s) # old
  PROVE  Moved(Append(p, s), old, new) = Append(Moved(p, old, new), s)
<1>1. Append(p, s) \in Path
  BY AppendIs
<1>2. CASE IsPrefix(old, p)
  <2>1. PICK u \in Path : p = old \o u
    BY <1>2, PrefixIff
  <2>2. Append(p, s) = old \o Append(u, s) /\ Append(u, s) \in Path
    BY <2>1, AppendConcat, AppendIs
  <2>3. Moved(p, old, new) = new \o u
    BY <2>1, MovedOf
  <2>4. \A w \in Path : Moved(old \o w, old, new) = new \o w
    BY MovedOf
  <2>5. Moved(Append(p, s), old, new) = new \o Append(u, s)
    BY <2>2, <2>4
  <2>6. QED
    BY <2>3, <2>5, AppendConcat
<1>3. CASE ~IsPrefix(old, p)
  <2>1. ~IsPrefix(old, Append(p, s))
    BY <1>3, PrefixOfAppend
  <2>2. QED
    BY <1>1, <1>3, <2>1, MovedIs
<1>4. QED
  BY <1>2, <1>3

LEMMA MovedMark ==
  ASSUME NEW p \in Path, NEW old \in Path, NEW new \in Path,
         old # <<>>, new # <<>>, FolderDirRel(old), FolderDirRel(new)
  PROVE  LastMark(Moved(p, old, new)) = LastMark(p)
<1>1. CASE IsPrefix(old, p)
  <2>1. PICK t \in Path : p = old \o t
    BY <1>1, PrefixIff
  <2>2. Moved(p, old, new) = new \o t
    BY <2>1, MovedOf
  <2>3. CASE t = <<>>
    <3>1. p = old /\ Moved(p, old, new) = new
      BY <2>1, <2>2, <2>3, ConcatPath
    <3>2. QED
      BY <3>1, LastMarks
  <2>4. CASE t # <<>>
    BY <2>1, <2>2, <2>4, LastMarks
  <2>5. QED
    BY <2>3, <2>4
<1>2. CASE ~IsPrefix(old, p)
  BY <1>2, MovedIs
<1>3. QED
  BY <1>1, <1>2

\* A path that names no deleted folder is an active folder's.
LEMMA UnmarkedIsActive ==
  ASSUME TreeInv, MarksTell, NEW d \in Folder, Used(d), FolderDirRel(path[d])
  PROVE  Active(d)
<1>1. path[d] \in Path /\ path[d] # <<>>
  BY DEF TreeInv
<1>2. LastMark(path[d]) = NoFolder
  BY <1>1, LastMarks
<1>3. fstat[d] # "deleted"
  BY <1>2, FoldersAssumption DEF MarksTell
<1>4. QED
  BY <1>3 DEF TreeInv, Used, Active

LEMMA LiveSegment ==
  ASSUME NEW n \in Name
  PROVE  Live(n) \in Segment /\ Live(n).mark = NoFolder
  BY DEF Live, Segment

\* The folder a new path is to lie in is active, and its path names no deleted one.
LEMMA AskedParent ==
  ASSUME TreeInv, MarksTell, NEW q \in ReqRecord, Asked(q), FolderDirRel(q.new)
  PROVE  /\ PathOf(q.parent) \in Path /\ FolderDirRel(PathOf(q.parent))
         /\ q.parent # NoFolder => q.parent \in Folder /\ Active(q.parent)
<1>1. q.parent \in Parents /\ Live(q.name) \in Segment
  BY PathTypes, LiveSegment DEF Asked
<1>2. PathOf(q.parent) \in Path
  BY <1>1, PathTypes DEF PathOf, TreeInv, Parents
<1>3. q.new = Append(PathOf(q.parent), Live(q.name)) /\ q.new \in Path
  BY PathTypes DEF Asked
<1>4. FolderDirRel(PathOf(q.parent))
  <2>1. IsPrefix(PathOf(q.parent), Append(PathOf(q.parent), Live(q.name)))
    BY <1>1, <1>2, PrefixOfAppend, PrefixPath, PrefixesIff
  <2>2. QED
    BY <1>2, <1>3, <2>1, PrefixDirRel
<1>5. ASSUME q.parent # NoFolder PROVE q.parent \in Folder /\ Active(q.parent)
  BY <1>1, <1>4, <1>5, UnmarkedIsActive DEF Parents, PathOf, Asked
<1>6. QED
  BY <1>2, <1>4, <1>5

\* A row is inserted.
LEMMA InsertSound ==
  ASSUME TreeInv, TreeInv', FoldersSound,
         \A e \in Folder : Active(e) => FolderDirRel(path[e]),
         NEW d \in Folder, fstat[d] = "unused",
         NEW q \in ReqRecord, Asked(q), \A e \in Folder : Used(e) => path[e] # q.new,
         fstat' = [fstat EXCEPT ![d] = "active"], parent' = [parent EXCEPT ![d] = q.parent],
         fname' = [fname EXCEPT ![d] = q.name], path' = [path EXCEPT ![d] = q.new]
  PROVE  /\ FoldersSound'
         /\ \A e \in Folder \ {d} : path'[e] = path[e] /\ fstat'[e] = fstat[e]
         /\ fstat'[d] = "active" /\ path'[d] = q.new
<1>1. /\ fstat'[d] = "active" /\ parent'[d] = q.parent /\ fname'[d] = q.name /\ path'[d] = q.new
      /\ \A e \in Folder \ {d} : /\ fstat'[e] = fstat[e] /\ parent'[e] = parent[e]
                                 /\ fname'[e] = fname[e] /\ path'[e] = path[e]
  BY DEF TreeInv
<1>2. Live(q.name) \in Segment /\ Live(q.name).mark = NoFolder /\ q.parent \in Parents
      /\ q.new \in Path /\ q.new = Append(PathOf(q.parent), Live(q.name))
  BY LiveSegment, PathTypes DEF Asked
<1>3. PathOf(q.parent) \in Path
  BY <1>2, PathTypes DEF PathOf, TreeInv, Parents
<1>4. MarksTell'
  <2>1. LastMark(q.new) = NoFolder
    BY <1>2, <1>3, LastMarks
  <2>2. QED
    BY <1>1, <2>1 DEF FoldersSound, MarksTell, Used
<1>5. KeyHolds(path)'
  BY <1>1 DEF FoldersSound, KeyHolds, Used
<1>6. ASSUME NEW e \in Folder, Active(e)', FolderDirRel(path'[e])
      PROVE  /\ LiesInParent(e)'
             /\ \A z \in Prefixes(path'[e]) \ {<<>>} : \E w \in Folder : Active(w)' /\ path'[w] = z
  <2>1. CASE e # d
    <3>1. Active(e) /\ path[e] = path'[e] /\ path[e] \in Path
      BY <1>1, <1>6, <2>1 DEF Active, TreeInv
    <3>2. LiesInParent(e)
          /\ \A z \in Prefixes(path[e]) \ {<<>>} : \E w \in Folder : Active(w) /\ path[w] = z
      BY <1>6, <3>1 DEF FoldersSound, TreeSound
    <3>3. parent[e] # d
      BY <3>2, FoldersAssumption DEF LiesInParent, Active
    <3>4. parent[e] \in Parents
      BY DEF TreeInv
    <3>5. LiesInParent(e)'
      BY <1>1, <2>1, <3>2, <3>3, <3>4 DEF LiesInParent, Active, PathOf, Parents
    <3>6. \A w \in Folder : Active(w) => Active(w)' /\ path'[w] = path[w]
      BY <1>1 DEF Active
    <3>7. QED
      BY <3>1, <3>2, <3>5, <3>6
  <2>2. CASE e = d
    <3>1. /\ FolderDirRel(PathOf(q.parent))
          /\ q.parent # NoFolder => q.parent \in Folder /\ Active(q.parent)
      BY <1>1, <1>6, <2>2, AskedParent DEF FoldersSound
    <3>2. q.parent # NoFolder => Active(q.parent)' /\ path'[q.parent] = path[q.parent]
      BY <1>1, <3>1 DEF Active
    <3>3. LiesInParent(e)'
      <4>1. parent'[e] = q.parent /\ fname'[e] = q.name /\ path'[e] = q.new /\ q.name \in Name
        BY <1>1, <2>2 DEF Asked
      <4>2. PathOf(q.parent)' = PathOf(q.parent)
        BY <3>2 DEF PathOf
      <4>3. PathOf(parent[e])' = PathOf(q.parent)
        BY <4>1, <4>2 DEF PathOf
      <4>4. QED
        BY <1>2, <3>2, <4>1, <4>3 DEF LiesInParent
    <3>4. ASSUME NEW z \in Prefixes(path'[e]) \ {<<>>}
          PROVE  \E w \in Folder : Active(w)' /\ path'[w] = z
      <4>1. z \in Path /\ IsPrefix(z, q.new)
        BY <1>1, <1>2, <2>2, PrefixesIff
      <4>2. CASE z = q.new
        BY <1>1, <4>2 DEF Active
      <4>3. CASE z # q.new
        <5>1. IsPrefix(z, PathOf(q.parent))
          BY <1>2, <1>3, <4>1, <4>3, PrefixOfAppend
        <5>2. q.parent # NoFolder
          <6>1. PathOf(q.parent) # <<>>
            BY <1>3, <3>4, <4>1, <5>1, PrefixesIff DEF Prefixes, IsPrefix
          <6>2. QED
            BY <6>1 DEF PathOf
        <5>3. PathOf(q.parent) = path[q.parent] /\ q.parent \in Folder /\ Active(q.parent)
          BY <3>1, <5>2 DEF PathOf
        <5>4. z \in Prefixes(path[q.parent]) \ {<<>>}
          BY <1>3, <3>4, <4>1, <5>1, <5>3, PrefixesIff
        <5>5. PICK w \in Folder : Active(w) /\ path[w] = z
          BY <3>1, <5>3, <5>4 DEF FoldersSound, TreeSound
        <5>6. QED
          BY <1>1, <5>5 DEF Active
      <4>4. QED
        BY <4>2, <4>3
    <3>5. QED
      BY <3>3, <3>4
  <2>3. QED
    BY <2>1, <2>2
<1>7. QED
  BY <1>1, <1>4, <1>5, <1>6 DEF FoldersSound, TreeSound

\* A tree is deleted, and what stays names no deleted folder.
LEMMA DeleteSound ==
  ASSUME TreeInv, FoldersSound, NEW p \in Path, SoftDeleteFolderTree(p),
         \A e \in Folder : Active(e) /\ ~IsPrefix(p, path[e]) => FolderDirRel(path[e])
  PROVE  /\ FoldersSound'
         /\ \A e \in Folder : Active(e)' => Active(e) /\ FolderDirRel(path[e]) /\ path'[e] = path[e]
         /\ \A e \in Folder : Used(e)' <=> Used(e)
<1> DEFINE Marked(e) == [path[e] EXCEPT ![Len(path[e])].mark = e]
<1>1. ASSUME NEW e \in Folder
      PROVE  /\ path[e] \in Path /\ parent'[e] = parent[e] /\ fname'[e] = fname[e]
             /\ path'[e] = IF e \in InTree(p) THEN Marked(e) ELSE path[e]
             /\ fstat'[e] = IF e \in InTree(p) THEN "deleted" ELSE fstat[e]
             /\ e \in InTree(p) <=> Active(e) /\ IsPrefix(p, path[e])
             /\ Used(e)' <=> Used(e)
             /\ e \in InTree(p) => LastMark(Marked(e)) = e
  <2>1. path[e] \in Path /\ (Used(e) => path[e] # <<>>)
    BY DEF TreeInv
  <2>2. /\ parent' = parent /\ fname' = fname
        /\ path'[e] = IF e \in InTree(p) THEN Marked(e) ELSE path[e]
        /\ fstat'[e] = IF e \in InTree(p) THEN "deleted" ELSE fstat[e]
        /\ e \in InTree(p) <=> Active(e) /\ IsPrefix(p, path[e])
    BY DEF SoftDeleteFolderTree, InTree, Active
  <2>3. e \in InTree(p) => Used(e)
    BY <2>2 DEF Used, Active
  <2>4. LastMark(Marked(e)) = e \/ path[e] = <<>>
    BY <2>1, MarkedLast
  <2> HIDE DEF Marked
  <2>5. Used(e)' <=> Used(e)
    BY <2>2, <2>3 DEF Used
  <2>6. QED
    BY <2>1, <2>2, <2>3, <2>4, <2>5
<1> HIDE DEF Marked
<1>2. ASSUME NEW e \in Folder, Active(e)'
      PROVE  Active(e) /\ e \notin InTree(p) /\ ~IsPrefix(p, path[e]) /\ path'[e] = path[e]
             /\ FolderDirRel(path[e])
  <2>1. e \notin InTree(p)
    BY <1>1, <1>2 DEF Active
  <2>2. QED
    BY <1>1, <1>2, <2>1 DEF Active
<1>3. MarksTell'
  <2>1. ASSUME NEW e \in Folder, Used(e)'
        PROVE  LastMark(path'[e]) = IF fstat'[e] = "deleted" THEN e ELSE NoFolder
    BY <1>1, <2>1 DEF FoldersSound, MarksTell
  <2>2. QED
    BY <2>1 DEF MarksTell
<1>4. KeyHolds(path)'
  <2>1. ASSUME NEW d \in Folder, NEW e \in Folder, d # e, Used(d)', Used(e)', path'[d] = path'[e]
        PROVE  FALSE
    <3>1. /\ LastMark(path'[d]) = IF fstat'[d] = "deleted" THEN d ELSE NoFolder
          /\ LastMark(path'[e]) = IF fstat'[e] = "deleted" THEN e ELSE NoFolder
      BY <1>3, <2>1 DEF MarksTell
    <3>2. fstat'[d] # "deleted" /\ fstat'[e] # "deleted"
      BY <2>1, <3>1, FoldersAssumption
    <3>3. path'[d] = path[d] /\ path'[e] = path[e]
      BY <1>1, <3>2
    <3>4. QED
      BY <1>1, <2>1, <3>3 DEF FoldersSound, KeyHolds
  <2>2. QED
    BY <2>1 DEF KeyHolds
<1>5. ASSUME NEW e \in Folder, Active(e)'
      PROVE  /\ LiesInParent(e)'
             /\ \A z \in Prefixes(path'[e]) \ {<<>>} : \E w \in Folder : Active(w)' /\ path'[w] = z
  <2>1. /\ LiesInParent(e)
        /\ \A z \in Prefixes(path[e]) \ {<<>>} : \E w \in Folder : Active(w) /\ path[w] = z
    BY <1>2, <1>5 DEF FoldersSound, TreeSound
  <2>2. ASSUME NEW w \in Folder, Active(w), IsPrefix(path[w], path[e])
        PROVE  Active(w)' /\ path'[w] = path[w]
    <3>1. ~IsPrefix(p, path[w])
      BY <1>1, <1>2, <1>5, <2>2, PrefixTrans
    <3>2. w \notin InTree(p)
      BY <1>1, <3>1
    <3>3. QED
      BY <1>1, <2>2, <3>2 DEF Active
  <2>3. ASSUME NEW f \in Folder, parent[e] = f
        PROVE  Active(f)' /\ path'[f] = path[f]
    <3>1. Active(f) /\ fname[e] \in Name /\ path[e] = Append(path[f], Live(fname[e]))
      BY <2>1, <2>3, FoldersAssumption DEF LiesInParent, PathOf
    <3>2. path[f] \in Path /\ path[e] \in Path /\ Live(fname[e]) \in Segment
      BY <1>1, <3>1, LiveSegment
    <3>3. IsPrefix(path[f], path[f])
      BY <3>2, PrefixPath, PrefixesIff
    <3>4. IsPrefix(path[f], Append(path[f], Live(fname[e])))
      BY <3>2, <3>3, PrefixOfAppend
    <3>5. QED
      BY <2>2, <3>1, <3>4
  <2>4. LiesInParent(e)'
    <3>1. parent'[e] = parent[e] /\ fname'[e] = fname[e] /\ path'[e] = path[e]
      BY <1>1, <1>2, <1>5
    <3>2. PICK f \in Parents : parent[e] = f
      BY DEF TreeInv
    <3>3. f # NoFolder => f \in Folder /\ Active(f)' /\ path'[f] = path[f]
      BY <2>3, <3>2 DEF Parents
    <3>4. PathOf(parent[e])' = PathOf(parent[e])
      BY <3>1, <3>2, <3>3 DEF PathOf
    <3>5. parent'[e] # NoFolder => Active(parent[e])'
      BY <3>1, <3>2, <3>3 DEF Active
    <3>6. QED
      BY <2>1, <3>1, <3>4, <3>5 DEF LiesInParent
  <2>5. ASSUME NEW z \in Prefixes(path'[e]) \ {<<>>}
        PROVE  \E w \in Folder : Active(w)' /\ path'[w] = z
    <3>1. path'[e] = path[e] /\ path[e] \in Path
      BY <1>1, <1>2, <1>5
    <3>2. PICK w \in Folder : Active(w) /\ path[w] = z
      BY <2>1, <3>1
    <3>3. IsPrefix(path[w], path[e])
      BY <3>1, <3>2, PrefixesIff
    <3>4. QED
      BY <2>2, <3>2, <3>3
  <2>6. QED
    BY <2>4, <2>5
<1>6. QED
  BY <1>1, <1>2, <1>3, <1>4, <1>5 DEF FoldersSound, TreeSound

FromTo(d, q, old, new) == old = path[d] /\ new = q.new

\* A folder is moved, and all that is below it.
LEMMA RenameSound ==
  ASSUME TreeInv, FoldersSound,
         \A e \in Folder : Active(e) => FolderDirRel(path[e]),
         NEW d \in Folder, NEW q \in ReqRecord, NEW old \in Path, NEW new \in Path,
         FromTo(d, q, old, new),
         Asked(q), new # <<>>, FolderDirRel(new), Used(d), FolderDirRel(old),
         q.parent # NoFolder => ~IsPrefix(old, path[q.parent]),
         KeyHolds(RenamedPaths(d, new)),
         RenameFolderPathWithParent(d, q.parent, q.name, new)
  PROVE  /\ FoldersSound'
         /\ \A e \in Folder : Used(e) => path'[e] = Moved(path[e], old, new)
         /\ \A e \in Folder : Active(e) => FolderDirRel(path'[e])
<1>1. /\ old \in Path /\ old # <<>> /\ new \in Path /\ new # <<>>
      /\ FolderDirRel(old) /\ FolderDirRel(new)
      /\ \A e \in Folder : path[e] \in Path
  BY DEF TreeInv, FromTo
<1>2. Active(d) /\ fstat' = fstat
  BY UnmarkedIsActive DEF FoldersSound, RenameFolderPathWithParent, FromTo
<1>3. path'[d] = new /\ fname'[d] = q.name /\ parent'[d] = q.parent
  BY DEF RenameFolderPathWithParent, RenamedPaths, TreeInv
<1>4. \A e \in Folder \ {d} : fname'[e] = fname[e] /\ parent'[e] = parent[e]
  BY DEF RenameFolderPathWithParent, TreeInv
<1>5. ASSUME NEW e \in Folder, Used(e) PROVE path'[e] = Moved(path[e], old, new)
  <2>1. CASE e = d
    <3>1. old \o <<>> = old /\ new \o <<>> = new /\ <<>> \in Path
      BY <1>1, ConcatPath
    <3>2. Moved(old \o <<>>, old, new) = new \o <<>>
      BY <1>1, <3>1, MovedOf
    <3>3. QED
      BY <1>3, <2>1, <3>1, <3>2 DEF FromTo
  <2>2. CASE e # d
    <3>1. path[e] # old
      BY <1>5, <2>2 DEF FoldersSound, KeyHolds, FromTo
    <3>2. QED
      BY <2>2, <3>1 DEF RenameFolderPathWithParent, RenamedPaths, Moved, FromTo
  <2>3. QED
    BY <2>1, <2>2
<1>6. ASSUME NEW e \in Folder, Active(e)
      PROVE  /\ Used(e) /\ Used(e)' /\ Active(e)' /\ FolderDirRel(path[e])
             /\ path'[e] = Moved(path[e], old, new) /\ FolderDirRel(path'[e])
  <2>1. Used(e) /\ Used(e)' /\ Active(e)' /\ FolderDirRel(path[e])
    BY <1>2, <1>6 DEF Used, Active
  <2>2. QED
    BY <1>1, <1>5, <2>1, MovedPath
<1>7. MarksTell'
  <2>1. ASSUME NEW e \in Folder, Used(e) PROVE LastMark(path'[e]) = LastMark(path[e])
    BY <1>1, <1>5, <2>1, MovedMark
  <2>2. QED
    BY <1>2, <2>1 DEF FoldersSound, MarksTell, Used
<1>8. KeyHolds(path)'
  BY <1>2 DEF KeyHolds, Used, RenameFolderPathWithParent
<1>9. /\ PathOf(q.parent) \in Path /\ q.name \in Name /\ Live(q.name) \in Segment
      /\ new = Append(PathOf(q.parent), Live(q.name))
      /\ q.parent # NoFolder => q.parent \in Folder /\ Active(q.parent)
      /\ ~IsPrefix(old, PathOf(q.parent))
  <2>1. /\ PathOf(q.parent) \in Path
        /\ q.parent # NoFolder => q.parent \in Folder /\ Active(q.parent)
    BY AskedParent DEF FoldersSound, FromTo
  <2>2. q.name \in Name /\ new = Append(PathOf(q.parent), Live(q.name))
    BY DEF Asked, FromTo
  <2>3. ~IsPrefix(old, <<>>)
    <3>1. Len(<<>>) = 0 /\ Len(old) # 0 /\ Len(old) \in Nat
      BY <1>1, ConcatPath, EmptySeq
    <3>2. QED
      BY <3>1 DEF IsPrefix
  <2>4. ~IsPrefix(old, PathOf(q.parent))
    BY <2>3 DEF PathOf
  <2>5. QED
    BY <2>1, <2>2, <2>4, LiveSegment
<1>10. PathOf(q.parent)' = PathOf(q.parent)
  <2>1. CASE q.parent = NoFolder
    BY <2>1 DEF PathOf
  <2>2. CASE q.parent # NoFolder
    <3>1. path'[q.parent] = Moved(path[q.parent], old, new) /\ ~IsPrefix(old, path[q.parent])
      BY <1>6, <1>9, <2>2 DEF PathOf
    <3>2. path'[q.parent] = path[q.parent]
      BY <1>1, <1>9, <2>2, <3>1, MovedIs
    <3>3. QED
      BY <2>2, <3>2 DEF PathOf
  <2>3. QED
    BY <2>1, <2>2
<1>11. ASSUME NEW e \in Folder, Active(e) PROVE LiesInParent(e)'
  <2>1. LiesInParent(e)
    BY <1>6, <1>11 DEF FoldersSound, TreeSound
  <2>2. CASE e = d
    <3>1. parent'[e] = q.parent /\ fname'[e] = q.name /\ path'[e] = new
      BY <1>3, <2>2
    <3>2. PathOf(parent[e])' = PathOf(q.parent)
      BY <1>10, <3>1 DEF PathOf
    <3>3. q.parent # NoFolder => Active(q.parent)'
      BY <1>6, <1>9
    <3>4. QED
      BY <1>9, <3>1, <3>2, <3>3 DEF LiesInParent
  <2>3. CASE e # d
    <3>0. PICK f \in Parents, s \in {Live(fname[e])} : f = parent[e] /\ s = Live(fname[e])
      BY DEF TreeInv
    <3>1. /\ parent'[e] = f /\ fname'[e] = fname[e] /\ fname[e] \in Name /\ s \in Segment
          /\ path[e] = Append(PathOf(f), s) /\ f \in Parents
          /\ f # NoFolder => f \in Folder /\ Active(f)
      BY <1>4, <2>1, <2>3, <3>0, LiveSegment DEF LiesInParent, Parents
    <3>2. PathOf(f) \in Path
      BY <1>1, <3>1, PathTypes DEF PathOf
    <3>3. path[e] # old
      <4>1. Used(e)
        BY <1>6, <1>11
      <4>2. QED
        BY <2>3, <4>1 DEF FoldersSound, KeyHolds, FromTo
    <3>4. path'[e] = Append(Moved(PathOf(f), old, new), s)
      <4>1. path'[e] = Moved(Append(PathOf(f), s), old, new)
        BY <1>6, <1>11, <3>1
      <4>2. Append(PathOf(f), s) # old
        BY <3>1, <3>3
      <4>3. QED
        <5>1. PICK g \in Path : g = PathOf(f)
          BY <3>2
        <5>2. s \in Segment /\ old \in Path /\ new \in Path /\ Append(g, s) # old
          BY <3>1, <4>2, <5>1
        <5>3. Moved(Append(g, s), old, new) = Append(Moved(g, old, new), s)
          BY <5>2, MovedAppend, ZenonT(60)
        <5>4. QED
          BY <4>1, <5>1, <5>3
    <3>5. Moved(PathOf(f), old, new) = PathOf(f)'
      <4>1. CASE f = NoFolder
        <5>1. PathOf(f) = <<>> /\ PathOf(f)' = <<>> /\ <<>> \in Path
          BY <4>1, PathTypes DEF PathOf
        <5>2. ~IsPrefix(old, <<>>)
          <6>1. Len(<<>>) = 0 /\ Len(old) # 0 /\ Len(old) \in Nat
            BY <1>1, ConcatPath, EmptySeq
          <6>2. QED
            BY <6>1 DEF IsPrefix
        <5>3. Moved(<<>>, old, new) = <<>>
          BY <1>1, <5>1, <5>2, MovedIs
        <5>4. QED
          BY <5>1, <5>3
      <4>2. CASE f # NoFolder
        BY <1>6, <3>1, <4>2 DEF PathOf
      <4>3. QED
        BY <4>1, <4>2
    <3>6. f # NoFolder => Active(f)'
      BY <1>6, <3>1
    <3>7. PathOf(parent[e])' = PathOf(f)'
      BY <3>1 DEF PathOf
    <3>8. QED
      BY <3>0, <3>1, <3>4, <3>5, <3>6, <3>7 DEF LiesInParent
  <2>4. QED
    BY <2>2, <2>3
<1>a. \A t \in Path : Moved(old \o t, old, new) = new \o t
  BY <1>1, MovedOf
<1>12. ASSUME NEW e \in Folder, Active(e), NEW z \in Prefixes(path'[e]) \ {<<>>}
       PROVE  \E w \in Folder : Active(w)' /\ path'[w] = z
  <2>1. \A y \in Prefixes(path[e]) \ {<<>>} : \E w \in Folder : Active(w) /\ path[w] = y
    BY <1>6, <1>12 DEF FoldersSound, TreeSound
  <2>2. path[e] \in Path /\ path'[e] = Moved(path[e], old, new)
    BY <1>1, <1>6, <1>12
  <2>3. path'[e] \in Path
    BY <1>1, <2>2, MovedPath
  <2>4. z \in Path /\ z # <<>> /\ IsPrefix(z, path'[e])
    BY <1>12, <2>3, PrefixesIff
  <2>5. ASSUME NEW y \in Path, y # <<>>, IsPrefix(y, path[e])
        PROVE  \E w \in Folder : Active(w)' /\ path'[w] = Moved(y, old, new)
    <3>1. PICK w \in Folder : Active(w) /\ path[w] = y
      BY <2>1, <2>2, <2>5, PrefixesIff
    <3>2. QED
      BY <1>6, <3>1
  <2>6. CASE IsPrefix(old, path[e])
    <3>1. PICK t \in Path : path[e] = old \o t
      BY <1>1, <2>2, <2>6, PrefixIff
    <3>2. path'[e] = new \o t
      BY <1>a, <2>2, <3>1
    <3>3. \/ IsPrefix(z, new)
          \/ \E v \in Path : z = new \o v /\ IsPrefix(old \o v, old \o t)
      <4>1. IsPrefix(z, new \o t)
        BY <2>4, <3>2
      <4>2. new \in Path /\ old \in Path /\ z \in Path
        BY <1>1, <2>4
      <4>3. QED
        BY <4>1, <4>2, PrefixOfMoved, Zenon
    <3>4. ASSUME NEW v \in Path, z = new \o v, IsPrefix(old \o v, old \o t)
          PROVE  \E w \in Folder : Active(w)' /\ path'[w] = z
      <4>1. old \o v \in Path /\ IsPrefix(old \o v, path[e])
        BY <1>1, <3>1, <3>4, ConcatPath
      <4>2. old \o v # <<>>
        BY <1>1, ConcatEqualIffEmpty, ConcatPath DEF Path
      <4>3. Moved(old \o v, old, new) = z
        BY <1>a, <3>4
      <4>4. QED
        BY <2>5, <4>1, <4>2, <4>3
    <3>5. ASSUME IsPrefix(z, new)
          PROVE  \E w \in Folder : Active(w)' /\ path'[w] = z
      <4>2. CASE z = new
        BY <1>2, <1>3, <1>6, <4>2
      <4>3. CASE z # new
        <5>1. IsPrefix(z, PathOf(q.parent))
          BY <1>9, <2>4, <3>5, <4>3, PrefixOfAppend
        <5>2. PathOf(q.parent) # <<>>
          <6>1. Len(z) # 0 /\ Len(z) \in Nat /\ Len(<<>>) = 0
            BY <2>4, ConcatPath, EmptySeq
          <6>2. QED
            BY <5>1, <6>1 DEF IsPrefix
        <5>3. PathOf(q.parent) = path[q.parent] /\ q.parent \in Folder /\ Active(q.parent)
          BY <1>9, <5>2 DEF PathOf
        <5>4. z \in Prefixes(path[q.parent]) \ {<<>>}
          BY <1>9, <2>4, <5>1, <5>3, PrefixesIff
        <5>5. PICK w \in Folder : Active(w) /\ path[w] = z
          BY <1>6, <5>3, <5>4 DEF FoldersSound, TreeSound
        <5>6. ~IsPrefix(old, z)
          BY <1>1, <1>9, <2>4, <5>1, PrefixTrans
        <5>7. Moved(z, old, new) = z
          BY <1>1, <2>4, <5>6, MovedIs
        <5>8. QED
          BY <1>6, <5>5, <5>7
      <4>4. QED
        BY <4>2, <4>3
    <3>6. QED
      BY <3>3, <3>4, <3>5
  <2>7. CASE ~IsPrefix(old, path[e])
    <3>1. path'[e] = path[e]
      BY <1>1, <2>2, <2>7, MovedIs
    <3>2. ~IsPrefix(old, z)
      BY <1>1, <2>2, <2>4, <2>7, <3>1, PrefixTrans
    <3>3. Moved(z, old, new) = z
      BY <1>1, <2>4, <3>2, MovedIs
    <3>4. QED
      BY <2>4, <2>5, <3>1, <3>3
  <2>8. QED
    BY <2>6, <2>7
<1>13. TreeSound'
  <2>1. \A e \in Folder : Active(e)' => Active(e)
    BY <1>2 DEF Active
  <2>2. QED
    BY <1>11, <1>12, <2>1 DEF TreeSound
<1>14. QED
  BY <1>5, <1>6, <1>7, <1>8, <1>13 DEF FoldersSound

LEMMA TreeStays ==
  ASSUME FoldersSound, UNCHANGED tree
  PROVE  FoldersSound'
  BY DEF FoldersSound, tree, MarksTell, KeyHolds, TreeSound, LiesInParent, Active, Used, PathOf

LEMMA HalfMadeStays ==
  ASSUME HalfMade, UNCHANGED tree,
         \A s \in Request : At(s, "makeDir") =>
           FolderDirRel(req[s].new) \/ (At(s, "makeDir")' /\ req'[s].new = req[s].new)
  PROVE  HalfMade'
  BY DEF HalfMade, tree, Active

\* The rows of files that stay where they are.
LEMMA RowsStay ==
  ASSUME RowsSound, FileInv,
         \A d \in Folder : Active(d)' /\ Used(d) => Active(d) /\ path'[d] = path[d],
         \A x \in File : HasRow(x)' => /\ HasRow(x) /\ file'[x].rel = file[x].rel
                                       /\ file'[x].folder = file[x].folder,
         \A s \in Request : At(s, "renameFiles") \/ At(s, "renameFiles")' => req'[s] = req[s]
  PROVE  RowsSound'
<1> SUFFICES ASSUME NEW x \in File, HasRow(x)', Active(file[x].folder)'
             PROVE  /\ (\A r \in Request : ~At(r, "renameFiles")')
                         => file'[x].rel = path'[file'[x].folder]
                    /\ \A r \in Request : At(r, "renameFiles")' =>
                         path'[file'[x].folder] = Moved(file'[x].rel, req'[r].old, req'[r].new)
  BY DEF RowsSound
<1>1. HasRow(x) /\ file'[x].rel = file[x].rel /\ file'[x].folder = file[x].folder
  OBVIOUS
<1>2. up[x] # "none" /\ file[x].folder \in Folder /\ Used(file[x].folder)
  BY <1>1 DEF FileInv
<1>3. Active(file[x].folder) /\ path'[file'[x].folder] = path[file[x].folder]
  BY <1>1, <1>2 DEF Active
<1>4. \A s \in Request : At(s, "renameFiles")' <=> At(s, "renameFiles")
  BY DEF At
<1>5. QED
  BY <1>1, <1>3, <1>4 DEF RowsSound

\* A request acts that nothing has raced.
Unspoiled(r) ==
  /\ Sound /\ r \notin raced
  /\ req[r] # NoReq => \A s \in Request \ {r} : req[s].pc \notin Middle

LEMMA RequestRace ==
  ASSUME DInv, TablesInv, NEW r \in Request, NEW q \in ReqRecord, q # req[r],
         req' = [req EXCEPT ![r] = q], UNCHANGED up, NEW b \in BOOLEAN, Racing(b)
  PROVE  /\ Others({r})
         /\ ~spoiled' => /\ Unspoiled(r) /\ ~b
                         /\ q # NoReq /\ (\E s \in Request \ {r} : req[s].pc \in Middle) => r \in raced'
<1>1. req'[r] = q /\ \A s \in Request \ {r} : req'[s] = req[s]
  BY DEF DInv, ReqInv
<1>2. \A s \in Request : s \in {r} <=> req'[s] # req[s]
  BY <1>1
<1>3. \A x \in File : x \in {r} <=> up'[x] # up[x]
  BY FoldersAssumption
<1>4. {r} \subseteq Request \cup File
  OBVIOUS
<1>5. /\ Others({r})
      /\ ~spoiled' => ~spoiled /\ ~b /\ {r} \cap raced = {}
      /\ \A a \in {r} \cap Request :
           req[a] = NoReq /\ req'[a] # NoReq /\ (\E s \in Request : Halfway(s)) => a \in raced'
  BY <1>2, <1>3, <1>4, RaceOthers DEF DInv
<1>6. \A s \in Request : req[s].pc \in Middle => Halfway(s)
  BY DEF Middle, Halfway
<1>7. ASSUME ~spoiled' PROVE Sound /\ r \notin raced /\ ~b
  BY <1>5, <1>7 DEF TablesInv
<1>8. ASSUME ~spoiled', req[r] # NoReq, NEW s \in Request \ {r} PROVE req[s].pc \notin Middle
  BY <1>7, <1>8 DEF Sound, Alone
<1>9. QED
  BY <1>1, <1>5, <1>6, <1>7, <1>8 DEF Unspoiled

\* What is left to show of a step of a request.
LEMMA RequestSound ==
  ASSUME NEW r \in Request, NEW q \in ReqRecord, DInv, req' = [req EXCEPT ![r] = q],
         Unspoiled(r), Others({r}),
         q # NoReq /\ (\E s \in Request \ {r} : req[s].pc \in Middle) => r \in raced',
         FoldersSound', HalfMade', RowsSound', r \notin raced' => ReqKnows(r)',
         q.pc \in Middle => req[r].pc \in Middle \/ Tables' # Tables,
         \A x \in File : file'[x].dir = file[x].dir /\ file'[x].folder = file[x].folder
  PROVE  Sound'
<1>1. req'[r] = q
  BY DEF DInv, ReqInv
<1>2. r \notin File
  BY FoldersAssumption
<1>3. Alone'
  <2>1. Alone /\ {r} \subseteq Request \cup File
    BY DEF Unspoiled, Sound
  <2>2. \A a \in {r} \cap Request : req'[a].pc \in Middle =>
          (req[a].pc \in Middle \/ Tables' # Tables) /\ {r} = {a}
    BY <1>1
  <2>3. \A a \in {r} \cap Request :
          req'[a] # NoReq /\ (\E s \in Request \ {a} : req[s].pc \in Middle) => a \in raced'
    BY <1>1
  <2>4. \A x \in {r} \cap File :
          Uploading(x)' /\ (\E s \in Request : req[s].pc \in Middle) => x \in raced'
    BY <1>2
  <2>5. QED
    BY <2>1, <2>2, <2>3, <2>4, AloneStay
<1>4. Unraced'
  <2>1. /\ \A s \in Request \ {r} : s \notin raced' => ReqKnows(s)'
        /\ \A x \in File \ {r} : x \notin raced' => FileKnows(x)'
    BY UnracedStay DEF Unspoiled, Sound
  <2>2. QED
    BY <1>2, <2>1 DEF Unraced
<1>5. QED
  BY <1>3, <1>4 DEF Sound

\* Between requests the folders' rows are whole, and the files' rows name them.
LEMMA AtRest ==
  ASSUME Sound, FileInv, \A s \in Request : req[s].pc \notin {"makeDir", "renameFiles"}
  PROVE  /\ \A d \in Folder : Active(d) => FolderDirRel(path[d])
         /\ \A x \in File : HasRow(x) /\ Active(file[x].folder) => file[x].rel = path[file[x].folder]
  BY DEF Sound, HalfMade, RowsSound, At

\* What the statements on files and the directory operations leave alone.
LEMMA MoveFilesRows ==
  ASSUME DiskInv, NEW old \in Path, NEW new \in Path, MoveFilesPathPrefix(old, new), NEW x \in File
  PROVE  /\ file'[x].dir = file[x].dir /\ file'[x].folder = file[x].folder
         /\ file'[x].status = file[x].status
         /\ HasRow(x) => file'[x].rel = Moved(file[x].rel, old, new)
<1>1. file[x] \in FileRecord /\ file[x].rel \in Path
  BY PathTypes DEF DiskInv
<1>2. Moved(file[x].rel, old, new) \in Path
  BY <1>1, MovedPath
<1>3. file'[x] = IF HasRow(x) THEN [file[x] EXCEPT !.rel = Moved(file[x].rel, old, new)]
                 ELSE file[x]
  BY DEF MoveFilesPathPrefix
<1>4. QED
  BY <1>1, <1>2, <1>3, PathTypes

LEMMA SoftDeleteRows ==
  ASSUME DiskInv, NEW p \in Path, SoftDeleteFilesUnderPath(p), NEW x \in File
  PROVE  /\ file'[x].dir = file[x].dir /\ file'[x].folder = file[x].folder
         /\ file'[x].rel = file[x].rel /\ (HasRow(x)' => HasRow(x))
         /\ file'[x].status = "active" => file[x].status = "active" /\ ~IsPrefix(p, file[x].rel)
<1>1. file[x] \in FileRecord
  BY DEF DiskInv
<1>2. file'[x] = IF file[x].status = "active" /\ IsPrefix(p, file[x].rel)
                 THEN [file[x] EXCEPT !.status = "trashed"] ELSE file[x]
  BY DEF SoftDeleteFilesUnderPath
<1>3. QED
  BY <1>1, <1>2, PathTypes DEF HasRow

LEMMA RenameDirRows ==
  ASSUME DiskInv, NEW old \in Path, NEW new \in Path, RenameDir(old, new), NEW x \in File
  PROVE  /\ file'[x].dir = file[x].dir /\ file'[x].folder = file[x].folder
         /\ file'[x].rel = file[x].rel /\ file'[x].status = file[x].status
<1>1. file[x] \in FileRecord
  BY DEF DiskInv
<1>2. CASE UNCHANGED file
  BY <1>2
<1>3. CASE file' = Carry(old, new)
  <2> DEFINE m == IF file[x].disk = Lost THEN Lost ELSE Moved(file[x].disk, old, new)
  <2>1. file'[x] = [file[x] EXCEPT !.disk = m]
    BY <1>3 DEF Carry
  <2> HIDE DEF m
  <2>2. QED
    BY <1>1, <2>1, PathTypes
<1>4. QED
  BY <1>2, <1>3 DEF RenameDir

\* Steps of a request that change no folder and no file's path.
LEMMA PlainSound ==
  ASSUME DInv, Sound, FileInv, NEW r \in Request, NEW q \in ReqRecord,
         req' = [req EXCEPT ![r] = q], UNCHANGED tree,
         req[r].pc # "renameFiles", q.pc \notin {"makeDir", "renameFiles"},
         req[r].pc = "makeDir" => FolderDirRel(req[r].new),
         \A x \in File : HasRow(x)' => /\ HasRow(x) /\ file'[x].rel = file[x].rel
                                       /\ file'[x].folder = file[x].folder
  PROVE  FoldersSound' /\ HalfMade' /\ RowsSound'
<1>1. req'[r] = q /\ \A s \in Request \ {r} : req'[s] = req[s]
  BY DEF DInv, ReqInv
<1>2. FoldersSound'
  BY TreeStays DEF Sound
<1>3. HalfMade'
  <2>1. \A s \in Request : At(s, "makeDir") =>
          FolderDirRel(req[s].new) \/ (At(s, "makeDir")' /\ req'[s].new = req[s].new)
    BY <1>1 DEF At
  <2>2. QED
    BY <2>1, HalfMadeStays DEF Sound
<1>4. RowsSound'
  <2>1. \A s \in Request : At(s, "renameFiles") \/ At(s, "renameFiles")' => req'[s] = req[s]
    BY <1>1 DEF At
  <2>2. \A d \in Folder : Active(d)' /\ Used(d) => Active(d) /\ path'[d] = path[d]
    BY DEF tree, Active
  <2>3. QED
    BY <2>1, <2>2, RowsStay DEF Sound
<1>5. QED
  BY <1>2, <1>3, <1>4

\* Nothing races the end of a request, and its name is forgotten.
LEMMA IdleKnows ==
  ASSUME NEW r \in Request, req'[r] = NoReq
  PROVE  ReqKnows(r)'
  BY DEF ReqKnows, At, NoReq

LEMMA ToIdle ==
  ASSUME NEW r \in Request, Goto(r, "idle")
  PROVE  req' = [req EXCEPT ![r] = NoReq] /\ UNCHANGED up
  BY DEF Goto

LEMMA ToStep ==
  ASSUME ReqInv, NEW r \in Request, NEW step \in Steps \ {"idle"}, Goto(r, step)
  PROVE  \E q \in ReqRecord : /\ req' = [req EXCEPT ![r] = q] /\ UNCHANGED up
                              /\ q.pc = step /\ q.id = req[r].id /\ q.parent = req[r].parent
                              /\ q.name = req[r].name /\ q.old = req[r].old /\ q.new = req[r].new
<1> DEFINE q == [req[r] EXCEPT !.pc = step]
<1>1. req[r] \in ReqRecord
  BY DEF ReqInv
<1>2. /\ q \in ReqRecord
      /\ q.pc = step /\ q.id = req[r].id /\ q.parent = req[r].parent
      /\ q.name = req[r].name /\ q.old = req[r].old /\ q.new = req[r].new
  BY <1>1, PathTypes
<1>3. req' = [req EXCEPT ![r] = q] /\ UNCHANGED up
  BY DEF Goto
<1> HIDE DEF q
<1>4. QED
  BY <1>2, <1>3

\* What a step of request r has to establish.
Kept(r) ==
  /\ FoldersSound' /\ HalfMade' /\ RowsSound' /\ ReqKnows(r)'
  /\ \A x \in File : file'[x].dir = file[x].dir /\ file'[x].folder = file[x].folder

\* The request is at q after the step.
Turn(r, q) ==
  /\ q # req[r] /\ req' = [req EXCEPT ![r] = q] /\ UNCHANGED up
  /\ q.pc \in Middle => req[r].pc \in Middle \/ Tables' # Tables

LEMMA DropKept ==
  ASSUME DInv, Sound, FileInv, NEW r \in Request, Goto(r, "idle"), UNCHANGED tree,
         req[r] # NoReq, req[r].pc # "renameFiles",
         req[r].pc = "makeDir" => FolderDirRel(req[r].new),
         \A x \in File : /\ file'[x].dir = file[x].dir /\ file'[x].folder = file[x].folder
                         /\ file'[x].rel = file[x].rel /\ file'[x].status = file[x].status
  PROVE  Kept(r) /\ Turn(r, NoReq)
<1>1. NoReq \in ReqRecord /\ NoReq.pc \notin {"makeDir", "renameFiles"}
  BY PathTypes DEF NoReq
<1>2. req' = [req EXCEPT ![r] = NoReq] /\ req'[r] = NoReq
  BY ToIdle DEF DInv, ReqInv
<1>a. Turn(r, NoReq)
  BY <1>2, ToIdle DEF Turn, Middle, NoReq
<1>3. \A x \in File : HasRow(x)' => HasRow(x)
  BY DEF HasRow
<1>4. FoldersSound' /\ HalfMade' /\ RowsSound'
  BY <1>1, <1>2, <1>3, PlainSound
<1>5. QED
  BY <1>2, <1>4, <1>a, IdleKnows DEF Kept

LEMMA CreateKept ==
  ASSUME DInv, Sound, FileInv, NEW r \in Request, NEW p \in Parents, NEW n \in Name,
         Create(r, p, n)
  PROVE  /\ Kept(r)
         /\ \E q \in ReqRecord : Turn(r, q)
<1> DEFINE new == Append(PathOf(p), Live(n))
           k == [NoReq EXCEPT !.pc = "insert", !.parent = p, !.name = n, !.new = new]
<1>1. new \in Path
  BY PathTypes, AppendPath DEF PathOf, DInv, TreeInv, Parents
<1>2. Ask(r, k) /\ (p # NoFolder => Used(p)) /\ ~FolderNameExists(p, n, NoFolder)
  BY DEF Create
<1> HIDE DEF new
<1>3. k \in ReqRecord /\ k.pc = "insert" /\ k.parent = p /\ k.name = n /\ k.new = new
  BY <1>1, PathTypes DEF NoReq, Steps
<1> HIDE DEF k
<1>4. PICK q \in ReqRecord : /\ Ask(r, q) /\ q.pc = "insert" /\ q.parent = p /\ q.name = n
                             /\ q.new = Append(PathOf(p), Live(n))
  BY <1>2, <1>3 DEF new
<1>5. req' = [req EXCEPT ![r] = q] /\ UNCHANGED <<tree, up, file>> /\ req[r] = NoReq
  BY <1>4 DEF Ask
<1>6. req'[r] = q
  BY <1>5 DEF DInv, ReqInv
<1>7. FoldersSound' /\ HalfMade' /\ RowsSound'
  <2>1. q.pc \notin {"makeDir", "renameFiles"} /\ req[r].pc \notin {"makeDir", "renameFiles"}
    BY <1>4, <1>5 DEF NoReq
  <2>2. \A x \in File : HasRow(x)' => HasRow(x) /\ file'[x].rel = file[x].rel
                                      /\ file'[x].folder = file[x].folder
    BY <1>5 DEF HasRow
  <2>3. QED
    BY <1>4, <1>5, <2>1, <2>2, PlainSound
<1>8. ReqKnows(r)'
  <2>1. Asked(q)'
    BY <1>2, <1>4, <1>5 DEF Asked, tree, Used, PathOf
  <2>2. NameIsFree(q, NoFolder)'
    BY <1>2, <1>4, <1>5 DEF NameIsFree, FolderNameExists, tree
  <2>3. QED
    BY <1>4, <1>6, <2>1, <2>2 DEF ReqKnows, At
<1>9. q # req[r] /\ q.pc \notin Middle
  BY <1>4, <1>5 DEF NoReq, Middle
<1>10. QED
  BY <1>4, <1>5, <1>7, <1>8, <1>9 DEF Kept, Turn

LEMMA RenameKept ==
  ASSUME DInv, Sound, FileInv, NEW r \in Request, NEW p \in Parents, NEW n \in Name,
         NEW d \in Folder, Rename(r, d, p, n)
  PROVE  /\ Kept(r)
         /\ \E q \in ReqRecord : Turn(r, q)
<1> DEFINE new == Append(PathOf(p), Live(n))
           k == [NoReq EXCEPT !.pc = "renameRows", !.id = d, !.parent = p, !.name = n,
                              !.old = path[d], !.new = new]
<1>1. new \in Path /\ path[d] \in Path
  BY PathTypes, AppendPath DEF PathOf, DInv, TreeInv, Parents
<1>2. /\ Ask(r, k) /\ Used(d) /\ FolderDirRel(path[d]) /\ new # path[d]
      /\ p # NoFolder => Used(p) /\ p # d /\ ~IsPrefix(path[d], path[p])
      /\ ~FolderNameExists(p, n, d)
  BY DEF Rename
<1> HIDE DEF new
<1>3. /\ k \in ReqRecord /\ k.pc = "renameRows" /\ k.id = d /\ k.parent = p /\ k.name = n
      /\ k.old = path[d] /\ k.new = new
  BY <1>1, PathTypes DEF NoReq, Steps, Parents
<1> HIDE DEF k
<1>4. PICK q \in ReqRecord : /\ Ask(r, q) /\ q.pc = "renameRows" /\ q.id = d /\ q.parent = p
                             /\ q.name = n /\ q.old = path[d] /\ q.new # path[d]
                             /\ q.new = Append(PathOf(p), Live(n))
  BY <1>2, <1>3 DEF new
<1>5. req' = [req EXCEPT ![r] = q] /\ UNCHANGED <<tree, up, file>> /\ req[r] = NoReq
  BY <1>4 DEF Ask
<1>6. req'[r] = q
  BY <1>5 DEF DInv, ReqInv
<1>7. FoldersSound' /\ HalfMade' /\ RowsSound'
  <2>1. q.pc \notin {"makeDir", "renameFiles"} /\ req[r].pc \notin {"makeDir", "renameFiles"}
    BY <1>4, <1>5 DEF NoReq
  <2>2. \A x \in File : HasRow(x)' => HasRow(x) /\ file'[x].rel = file[x].rel
                                      /\ file'[x].folder = file[x].folder
    BY <1>5 DEF HasRow
  <2>3. QED
    BY <1>4, <1>5, <2>1, <2>2, PlainSound
<1>8. ReqKnows(r)'
  <2>1. Asked(q)'
    BY <1>2, <1>4, <1>5 DEF Asked, tree, Used, PathOf
  <2>2. NameIsFree(q, q.id)'
    BY <1>2, <1>4, <1>5 DEF NameIsFree, FolderNameExists, tree
  <2>3. /\ Used(d)' /\ q.old = path'[d] /\ FolderDirRel(q.old) /\ q.new # q.old
        /\ q.parent # NoFolder => q.parent # q.id /\ ~IsPrefix(q.old, path'[q.parent])
    BY <1>2, <1>4, <1>5 DEF tree, Used
  <2>4. QED
    BY <1>4, <1>6, <2>1, <2>2, <2>3 DEF ReqKnows, At
<1>9. q # req[r] /\ q.pc \notin Middle
  BY <1>4, <1>5 DEF NoReq, Middle
<1>10. QED
  BY <1>4, <1>5, <1>7, <1>8, <1>9 DEF Kept, Turn

LEMMA DeleteKept ==
  ASSUME DInv, Sound, FileInv, NEW r \in Request, NEW d \in Folder, Delete(r, d)
  PROVE  /\ Kept(r)
         /\ \E q \in ReqRecord : Turn(r, q)
<1> DEFINE q == [NoReq EXCEPT !.pc = "trashFiles", !.id = d, !.old = path[d]]
<1>1. Ask(r, q) /\ path[d] \in Path
  BY DEF Delete, DInv, TreeInv
<1>2. q \in ReqRecord /\ q.pc = "trashFiles"
  BY <1>1, PathTypes DEF NoReq, Steps, Parents
<1> HIDE DEF q
<1>3. req' = [req EXCEPT ![r] = q] /\ UNCHANGED <<tree, up, file>> /\ req[r] = NoReq
  BY <1>1 DEF Ask
<1>4. req'[r] = q
  BY <1>3 DEF DInv, ReqInv
<1>5. FoldersSound' /\ HalfMade' /\ RowsSound'
  <2>1. q.pc \notin {"makeDir", "renameFiles"} /\ req[r].pc \notin {"makeDir", "renameFiles"}
    BY <1>2, <1>3 DEF NoReq
  <2>2. \A x \in File : HasRow(x)' => HasRow(x) /\ file'[x].rel = file[x].rel
                                      /\ file'[x].folder = file[x].folder
    BY <1>3 DEF HasRow
  <2>3. QED
    BY <1>2, <1>3, <2>1, <2>2, PlainSound
<1>6. ReqKnows(r)'
  BY <1>2, <1>4 DEF ReqKnows, At
<1>7. q # req[r] /\ q.pc \notin Middle
  BY <1>2, <1>3 DEF NoReq, Middle
<1>8. QED
  BY <1>2, <1>3, <1>5, <1>6, <1>7 DEF Kept, Turn

LEMMA IdleTurn ==
  ASSUME NEW r \in Request, req[r] # NoReq, Goto(r, "idle")
  PROVE  NoReq \in ReqRecord /\ Turn(r, NoReq)
  BY ToIdle, PathTypes DEF Turn, Middle, NoReq

\* The folders change under an unraced request: nobody is in the middle of another.
LEMMA NobodyElse ==
  ASSUME FileInv, NEW r \in Request, Unspoiled(r), req[r] # NoReq,
         req[r].pc \notin {"makeDir", "renameFiles"}
  PROVE  /\ \A d \in Folder : Active(d) => FolderDirRel(path[d])
         /\ \A x \in File : HasRow(x) /\ Active(file[x].folder) => file[x].rel = path[file[x].folder]
         /\ \A s \in Request : ~At(s, "renameFiles") /\ ~At(s, "makeDir")
<1>1. \A s \in Request : req[s].pc \notin {"makeDir", "renameFiles"}
  BY DEF Unspoiled, Middle
<1>2. Sound
  BY DEF Unspoiled
<1>3. QED
  BY <1>1, <1>2, AtRest DEF At

LEMMA CreateInsertKept ==
  ASSUME DInv, DInv', FileInv, NEW r \in Request, NEW d \in Folder, Unspoiled(r),
         CreateInsert(r, d)
  PROVE  Kept(r) /\ \E q \in ReqRecord : Turn(r, q)
<1>1. /\ req[r].pc = "insert" /\ req[r] # NoReq /\ fstat[d] = "unused"
      /\ UNCHANGED <<dirs, file>> /\ req[r] \in ReqRecord
  BY DEF CreateInsert, At, NoReq, DInv, ReqInv
<1>2. Sound /\ Asked(req[r])
  BY <1>1 DEF Unspoiled, Sound, Unraced, ReqKnows, At
<1>3. CASE \A e \in Folder : Used(e) => path[e] # req[r].new
  <2>1. /\ fstat' = [fstat EXCEPT ![d] = "active"]
        /\ parent' = [parent EXCEPT ![d] = req[r].parent]
        /\ fname' = [fname EXCEPT ![d] = req[r].name]
        /\ path' = [path EXCEPT ![d] = req[r].new]
        /\ Goto(r, "makeDir")
    BY <1>3 DEF CreateInsert
  <2>2. PICK q \in ReqRecord : /\ req' = [req EXCEPT ![r] = q] /\ UNCHANGED up
                               /\ q.pc = "makeDir" /\ q.new = req[r].new
    BY <2>1, ToStep DEF Steps, DInv
  <2>3. \A e \in Folder : Active(e) => FolderDirRel(path[e])
    BY <1>1, NobodyElse
  <2>4. /\ FoldersSound'
        /\ \A e \in Folder \ {d} : path'[e] = path[e] /\ fstat'[e] = fstat[e]
        /\ fstat'[d] = "active" /\ path'[d] = req[r].new
    BY <1>1, <1>2, <1>3, <2>1, <2>3, InsertSound DEF DInv, Sound
  <2>5. req'[r] = q /\ \A s \in Request \ {r} : req'[s] = req[s]
    BY <2>2 DEF DInv, ReqInv
  <2>6. HalfMade'
    <3>1. ASSUME NEW e \in Folder, Active(e)', ~FolderDirRel(path'[e])
          PROVE  req'[r].pc = "makeDir" /\ req'[r].new = path'[e]
      BY <2>2, <2>3, <2>4, <2>5, <3>1 DEF Active
    <3>2. QED
      BY <3>1 DEF HalfMade, At
  <2>7. RowsSound'
    <3>1. \A e \in Folder : Active(e)' /\ Used(e) => Active(e) /\ path'[e] = path[e]
      BY <1>1, <2>4 DEF Active, Used
    <3>2. \A s \in Request : At(s, "renameFiles") \/ At(s, "renameFiles")' => req'[s] = req[s]
      BY <1>1, <2>2, <2>5 DEF At
    <3>3. QED
      BY <1>1, <1>2, <3>1, <3>2, RowsStay DEF Sound, HasRow
  <2>8. ReqKnows(r)'
    BY <2>2, <2>5 DEF ReqKnows, At
  <2>9. Tables' # Tables
    <3>1. fstat' # fstat
      BY <1>1, <2>4
    <3>2. QED
      BY <3>1 DEF Tables, tree
  <2>10. Turn(r, q)
    BY <1>1, <2>2, <2>9 DEF Turn
  <2>11. QED
    BY <1>1, <2>4, <2>6, <2>7, <2>8, <2>10 DEF Kept
<1>4. CASE ~(\A e \in Folder : Used(e) => path[e] # req[r].new)
  <2>1. UNCHANGED tree /\ Goto(r, "idle")
    BY <1>4 DEF CreateInsert
  <2>2. QED
    BY <1>1, <1>2, <2>1, DropKept, PathTypes
<1>5. QED
  BY <1>3, <1>4

LEMMA CreateDirKept ==
  ASSUME DInv, DInv', FileInv, NEW r \in Request, Unspoiled(r), CreateDir(r)
  PROVE  Kept(r) /\ \E q \in ReqRecord : Turn(r, q)
<1>1. /\ req[r].pc = "makeDir" /\ req[r] # NoReq /\ UNCHANGED file /\ Goto(r, "idle")
      /\ req[r] \in ReqRecord /\ req[r].new \in Path /\ Sound
  BY PathTypes DEF CreateDir, At, NoReq, DInv, ReqInv, Unspoiled
<1>2. CASE FolderDirRel(req[r].new) /\ UNCHANGED tree
  BY <1>1, <1>2, DropKept, PathTypes
<1>3. CASE SoftDeleteFolderTree(req[r].new)
  <2>1. SoftDeleteFolderTree(req[r].new)
    BY <1>3
  <2>2. \A s \in Request \ {r} : req[s].pc \notin Middle
    BY <1>1 DEF Unspoiled
  <2>3. ASSUME NEW e \in Folder, Active(e), ~IsPrefix(req[r].new, path[e])
        PROVE  FolderDirRel(path[e])
    <3>1. path[e] \in Path /\ IsPrefix(path[e], path[e])
      BY PrefixPath, PrefixesIff DEF DInv, TreeInv
    <3>2. path[e] # req[r].new
      BY <2>3, <3>1
    <3>3. \A s \in Request : At(s, "makeDir") => s = r
      BY <2>2 DEF At, Middle
    <3>4. QED
      BY <1>1, <2>3, <3>2, <3>3 DEF Sound, HalfMade
  <2>4. /\ FoldersSound'
        /\ \A e \in Folder : Active(e)' => Active(e) /\ FolderDirRel(path[e]) /\ path'[e] = path[e]
    BY <1>1, <2>1, <2>3, DeleteSound DEF DInv, Sound
  <2>5. req'[r] = NoReq /\ \A s \in Request \ {r} : req'[s] = req[s]
    BY <1>1, ToIdle DEF DInv, ReqInv
  <2>6. HalfMade'
    BY <2>4 DEF HalfMade
  <2>7. RowsSound'
    <3>1. \A s \in Request : At(s, "renameFiles") \/ At(s, "renameFiles")' => req'[s] = req[s]
      BY <1>1, <2>5 DEF At, NoReq
    <3>2. QED
      BY <1>1, <2>4, <3>1, RowsStay DEF Sound, HasRow
  <2>8. ReqKnows(r)'
    BY <2>5, IdleKnows
  <2>9. QED
    BY <1>1, <2>4, <2>6, <2>7, <2>8, IdleTurn DEF Kept
<1>4. QED
  BY <1>2, <1>3 DEF CreateDir

LEMMA RenameRowsKept ==
  ASSUME DInv, DInv', FileInv, NEW r \in Request, Unspoiled(r), RenameRows(r)
  PROVE  Kept(r) /\ \E q \in ReqRecord : Turn(r, q)
<1>1. /\ req[r].pc = "renameRows" /\ req[r] # NoReq /\ UNCHANGED <<dirs, file>>
      /\ req[r] \in ReqRecord /\ req[r].new # <<>> /\ FolderDirRel(req[r].new)
      /\ req[r].id \in Folder /\ Sound
  BY DEF RenameRows, At, NoReq, DInv, ReqInv, Unspoiled, Renaming
<1>2. CASE KeyHolds(RenamedPaths(req[r].id, req[r].new))
  <2>1. PICK k \in ReqRecord, d \in Folder, old \in Path, new \in Path :
          k = req[r] /\ d = k.id /\ old = k.old /\ new = k.new
    BY <1>1, PathTypes
  <2>2. RenameFolderPathWithParent(d, k.parent, k.name, new) /\ Goto(r, "renameFiles")
    BY <1>2, <2>1 DEF RenameRows
  <2>3. PICK q \in ReqRecord : /\ req' = [req EXCEPT ![r] = q] /\ UNCHANGED up
                               /\ q.pc = "renameFiles" /\ q.old = old /\ q.new = new
    BY <2>1, <2>2, ToStep DEF Steps, DInv
  <2>4. /\ Asked(k) /\ Used(d) /\ old = path[d] /\ FolderDirRel(old) /\ new # old
        /\ k.parent # NoFolder => ~IsPrefix(old, path[k.parent])
    BY <1>1, <2>1 DEF Unspoiled, Sound, Unraced, ReqKnows, At
  <2>5. /\ \A e \in Folder : Active(e) => FolderDirRel(path[e])
        /\ \A x \in File : HasRow(x) /\ Active(file[x].folder) => file[x].rel = path[file[x].folder]
        /\ \A s \in Request : ~At(s, "renameFiles") /\ ~At(s, "makeDir")
    BY <1>1, NobodyElse
  <2>6. FromTo(d, k, old, new)
    BY <2>1, <2>4 DEF FromTo
  <2>7. /\ FoldersSound'
        /\ \A e \in Folder : Used(e) => path'[e] = Moved(path[e], old, new)
        /\ \A e \in Folder : Active(e) => FolderDirRel(path'[e])
    <3>1. new # <<>> /\ FolderDirRel(new) /\ KeyHolds(RenamedPaths(d, new))
      BY <1>1, <1>2, <2>1
    <3>2. TreeInv /\ FoldersSound
      BY <1>1 DEF DInv, Sound
    <3>3. QED
      BY <2>2, <2>4, <2>5, <2>6, <3>1, <3>2, RenameSound
  <2>8. req'[r] = q /\ \A s \in Request \ {r} : req'[s] = req[s]
    BY <2>3 DEF DInv, ReqInv
  <2>9. fstat' = fstat /\ \A e \in Folder : Active(e)' => Active(e) /\ Used(e)
    BY <2>2 DEF RenameFolderPathWithParent, Active, Used
  <2>10. HalfMade'
    BY <2>7, <2>9 DEF HalfMade
  <2>11. RowsSound'
    <3>1. ASSUME NEW x \in File, HasRow(x)', Active(file[x].folder)'
          PROVE  path'[file[x].folder] = Moved(file[x].rel, old, new)
      <4>1. HasRow(x) /\ Active(file[x].folder)
        BY <1>1, <2>9, <3>1 DEF HasRow, Active
      <4>2. up[x] # "none" /\ file[x].folder \in Folder /\ Used(file[x].folder)
        BY <4>1 DEF FileInv
      <4>3. QED
        BY <2>5, <2>7, <4>1, <4>2
    <3>2. \A s \in Request : At(s, "renameFiles")' => s = r
      BY <2>5, <2>8 DEF At
    <3>3. At(r, "renameFiles")' /\ req'[r].old = old /\ req'[r].new = new
      BY <2>3, <2>8 DEF At
    <3>4. QED
      BY <1>1, <3>1, <3>2, <3>3 DEF RowsSound
  <2>12. ReqKnows(r)'
    BY <2>3, <2>8 DEF ReqKnows, At
  <2>13. Tables' # Tables
    <3>1. path'[d] = new
      BY <2>2 DEF RenameFolderPathWithParent, RenamedPaths
    <3>2. path' # path
      BY <2>4, <3>1
    <3>3. QED
      BY <3>2 DEF Tables, tree
  <2>14. Turn(r, q)
    BY <1>1, <2>3, <2>13 DEF Turn
  <2>15. QED
    BY <1>1, <2>7, <2>10, <2>11, <2>12, <2>14 DEF Kept
<1>3. CASE ~KeyHolds(RenamedPaths(req[r].id, req[r].new))
  <2>1. UNCHANGED tree /\ Goto(r, "idle")
    BY <1>3 DEF RenameRows
  <2>2. QED
    BY <1>1, <2>1, DropKept, PathTypes
<1>4. QED
  BY <1>2, <1>3

LEMMA RenameFilesKept ==
  ASSUME DInv, DInv', FileInv, NEW r \in Request, Unspoiled(r), RenameFiles(r)
  PROVE  Kept(r) /\ \E q \in ReqRecord : Turn(r, q)
<1>1. PICK old \in Path, new \in Path : req[r].old = old /\ req[r].new = new
  BY PathTypes DEF DInv, ReqInv
<1>2. /\ req[r].pc = "renameFiles" /\ req[r] # NoReq /\ MoveFilesPathPrefix(old, new)
      /\ UNCHANGED tree /\ Goto(r, "renameDir") /\ Sound
  BY <1>1 DEF RenameFiles, At, NoReq, Unspoiled
<1>3. PICK q \in ReqRecord : /\ req' = [req EXCEPT ![r] = q] /\ UNCHANGED up
                             /\ q.pc = "renameDir"
  BY <1>2, ToStep DEF Steps, DInv
<1>4. req'[r] = q /\ \A s \in Request \ {r} : req'[s] = req[s]
  BY <1>3 DEF DInv, ReqInv
<1>5. \A x \in File : /\ file'[x].dir = file[x].dir /\ file'[x].folder = file[x].folder
                      /\ file'[x].status = file[x].status
                      /\ HasRow(x) => file'[x].rel = Moved(file[x].rel, old, new)
  BY <1>2, MoveFilesRows DEF DInv
<1>6. FoldersSound'
  BY <1>2, TreeStays DEF Sound
<1>7. HalfMade'
  <2>1. \A s \in Request : At(s, "makeDir") => At(s, "makeDir")' /\ req'[s].new = req[s].new
    BY <1>2, <1>4 DEF At
  <2>2. QED
    BY <1>2, <2>1, HalfMadeStays DEF Sound
<1>8. RowsSound'
  <2>1. ASSUME NEW x \in File, HasRow(x)', Active(file[x].folder)'
        PROVE  path'[file[x].folder] = file'[x].rel
    <3>1. HasRow(x) /\ Active(file[x].folder)
      BY <1>2, <1>5, <2>1 DEF HasRow, Active, tree
    <3>2. path[file[x].folder] = Moved(file[x].rel, old, new)
      BY <1>1, <1>2, <3>1 DEF Sound, RowsSound, At
    <3>3. QED
      BY <1>2, <1>5, <3>1, <3>2 DEF tree
  <2>2. \A s \in Request : ~At(s, "renameFiles")'
    BY <1>2, <1>3, <1>4 DEF At, Unspoiled, Middle
  <2>3. QED
    BY <1>5, <2>1, <2>2 DEF RowsSound
<1>9. ReqKnows(r)'
  BY <1>3, <1>4 DEF ReqKnows, At
<1>10. Turn(r, q)
  BY <1>2, <1>3 DEF Turn, Middle
<1>11. QED
  BY <1>5, <1>6, <1>7, <1>8, <1>9, <1>10 DEF Kept

LEMMA RenameOnDiskKept ==
  ASSUME DInv, DInv', FileInv, NEW r \in Request, Unspoiled(r), RenameOnDisk(r)
  PROVE  Kept(r) /\ \E q \in ReqRecord : Turn(r, q)
<1>1. PICK old \in Path, new \in Path : req[r].old = old /\ req[r].new = new
  BY PathTypes DEF DInv, ReqInv
<1>2. /\ req[r].pc = "renameDir" /\ req[r] # NoReq /\ RenameDir(old, new)
      /\ UNCHANGED tree /\ Goto(r, "idle") /\ Sound
  BY <1>1 DEF RenameOnDisk, At, NoReq, Unspoiled
<1>3. \A x \in File : /\ file'[x].dir = file[x].dir /\ file'[x].folder = file[x].folder
                      /\ file'[x].rel = file[x].rel /\ file'[x].status = file[x].status
  BY <1>2, RenameDirRows DEF DInv
<1>4. QED
  BY <1>2, <1>3, DropKept, PathTypes

LEMMA DeleteFilesKept ==
  ASSUME DInv, DInv', FileInv, NEW r \in Request, Unspoiled(r), DeleteFiles(r)
  PROVE  Kept(r) /\ \E q \in ReqRecord : Turn(r, q)
<1>1. PICK old \in Path : req[r].old = old
  BY PathTypes DEF DInv, ReqInv
<1>2. /\ req[r].pc = "trashFiles" /\ req[r] # NoReq /\ SoftDeleteFilesUnderPath(old)
      /\ UNCHANGED tree /\ Goto(r, "trashTree") /\ Sound
  BY <1>1 DEF DeleteFiles, At, NoReq, Unspoiled
<1>3. PICK q \in ReqRecord : /\ req' = [req EXCEPT ![r] = q] /\ UNCHANGED up
                             /\ q.pc = "trashTree" /\ q.old = old
  BY <1>1, <1>2, ToStep DEF Steps, DInv
<1>4. req'[r] = q
  BY <1>3 DEF DInv, ReqInv
<1>5. \A x \in File :
        /\ file'[x].dir = file[x].dir /\ file'[x].folder = file[x].folder
        /\ file'[x].rel = file[x].rel /\ (HasRow(x)' => HasRow(x))
        /\ file'[x].status = "active" => file[x].status = "active" /\ ~IsPrefix(old, file[x].rel)
  BY <1>2, SoftDeleteRows DEF DInv
<1>6. FoldersSound' /\ HalfMade' /\ RowsSound'
  BY <1>2, <1>3, <1>5, PlainSound
<1>7. ReqKnows(r)'
  BY <1>3, <1>4, <1>5 DEF ReqKnows, At
<1>8. Turn(r, q)
  BY <1>2, <1>3 DEF Turn, Middle
<1>9. QED
  BY <1>5, <1>6, <1>7, <1>8 DEF Kept

LEMMA DeleteTreeKept ==
  ASSUME DInv, DInv', FileInv, NEW r \in Request, Unspoiled(r), DeleteTree(r)
  PROVE  Kept(r) /\ \E q \in ReqRecord : Turn(r, q)
<1>1. /\ req[r].pc = "trashTree" /\ req[r] # NoReq /\ SoftDeleteFolderTree(req[r].old)
      /\ UNCHANGED file /\ Goto(r, "idle") /\ Sound /\ req[r].old \in Path
  BY PathTypes DEF DeleteTree, At, NoReq, Unspoiled, DInv, ReqInv
<1>2. \A e \in Folder : Active(e) => FolderDirRel(path[e])
  BY <1>1, NobodyElse
<1>3. /\ FoldersSound'
      /\ \A e \in Folder : Active(e)' => Active(e) /\ FolderDirRel(path[e]) /\ path'[e] = path[e]
  BY <1>1, <1>2, DeleteSound DEF DInv, Sound
<1>4. req'[r] = NoReq /\ \A s \in Request \ {r} : req'[s] = req[s]
  BY <1>1, ToIdle DEF DInv, ReqInv
<1>5. HalfMade'
  BY <1>3 DEF HalfMade
<1>6. RowsSound'
  <2>1. \A s \in Request : At(s, "renameFiles") \/ At(s, "renameFiles")' => req'[s] = req[s]
    BY <1>1, <1>4 DEF At, NoReq
  <2>2. QED
    BY <1>1, <1>3, <2>1, RowsStay DEF Sound, HasRow
<1>7. ReqKnows(r)'
  BY <1>4, IdleKnows
<1>8. QED
  BY <1>1, <1>3, <1>5, <1>6, <1>7, IdleTurn DEF Kept

\* No folder's row is ever taken away.
LEMMA UsedStays ==
  ASSUME DInv, Requests, NEW d \in Folder, Used(d)
  PROVE  Used(d)'
<1>1. PICK r \in Request :
        \/ \E p \in Parents, n \in Name : Create(r, p, n) \/ \E e \in Folder : Rename(r, e, p, n)
        \/ \E e \in Folder : CreateInsert(r, e) \/ Delete(r, e)
        \/ CreateDir(r) \/ RenameRows(r) \/ RenameFiles(r) \/ RenameOnDisk(r)
        \/ DeleteFiles(r) \/ DeleteTree(r)
  BY DEF Requests
<1>2. CASE UNCHANGED tree
  BY <1>2 DEF tree, Used
<1>3. ASSUME NEW p \in Path, SoftDeleteFolderTree(p) PROVE Used(d)'
  <2>1. fstat'[d] = IF d \in InTree(p) THEN "deleted" ELSE fstat[d]
    BY <1>3 DEF SoftDeleteFolderTree
  <2>2. QED
    BY <2>1 DEF Used
<1>4. req[r].old \in Path /\ req[r].new \in Path
  BY PathTypes DEF DInv, ReqInv
<1>5. ASSUME NEW e \in Folder, CreateInsert(r, e) PROVE Used(d)'
  <2>1. CASE fstat' = [fstat EXCEPT ![e] = "active"]
    BY <2>1 DEF Used, DInv, TreeInv
  <2>2. CASE UNCHANGED tree
    BY <1>2, <2>2
  <2>3. QED
    BY <1>5, <2>1, <2>2 DEF CreateInsert
<1>6. CASE RenameRows(r)
  <2>1. fstat' = fstat
    BY <1>6 DEF RenameRows, RenameFolderPathWithParent, tree
  <2>2. QED
    BY <2>1 DEF Used
<1>7. CASE CreateDir(r)
  BY <1>2, <1>3, <1>4, <1>7 DEF CreateDir
<1>8. CASE DeleteTree(r)
  BY <1>3, <1>4, <1>8 DEF DeleteTree
<1>9. QED
  BY <1>1, <1>2, <1>5, <1>6, <1>7, <1>8
     DEF Create, Rename, Delete, Ask, RenameFiles, RenameOnDisk, DeleteFiles

LEMMA FileInvRequest ==
  ASSUME DInv, FileInv, Requests
  PROVE  FileInv'
<1>1. PICK r \in Request :
        \/ \E p \in Parents, n \in Name : Create(r, p, n) \/ \E e \in Folder : Rename(r, e, p, n)
        \/ \E e \in Folder : CreateInsert(r, e) \/ Delete(r, e)
        \/ CreateDir(r) \/ RenameRows(r) \/ RenameFiles(r) \/ RenameOnDisk(r)
        \/ DeleteFiles(r) \/ DeleteTree(r)
  BY DEF Requests
<1>2. UNCHANGED up
  BY <1>1 DEF Create, Rename, Delete, Ask, Goto, CreateInsert, CreateDir, RenameRows, RenameFiles,
              RenameOnDisk, DeleteFiles, DeleteTree
<1>3. PICK old \in Path, new \in Path : old = req[r].old /\ new = req[r].new
  BY PathTypes DEF DInv, ReqInv
<1>4. ASSUME NEW x \in File
      PROVE  /\ file'[x].folder = file[x].folder /\ (HasRow(x)' => HasRow(x))
             /\ HasRow(x)' => FolderDirRel(file'[x].rel)
  <2>1. HasRow(x) => FolderDirRel(file[x].rel) /\ file[x].rel \in Path
    BY PathTypes DEF FileInv, DInv, DiskInv
  <2>2. CASE UNCHANGED file
    BY <2>1, <2>2 DEF HasRow
  <2>3. CASE RenameFiles(r)
    <3>1. MoveFilesPathPrefix(old, new) /\ FolderDirRel(new)
      BY <1>3, <2>3 DEF RenameFiles, At, DInv, ReqInv, Renaming
    <3>2. /\ file'[x].folder = file[x].folder /\ file'[x].status = file[x].status
          /\ HasRow(x) => file'[x].rel = Moved(file[x].rel, old, new)
      BY <3>1, MoveFilesRows DEF DInv
    <3>3. HasRow(x)' <=> HasRow(x)
      BY <3>2 DEF HasRow
    <3>4. QED
      BY <2>1, <3>1, <3>2, <3>3, MovedPath
  <2>4. CASE RenameOnDisk(r)
    <3>1. RenameDir(old, new)
      BY <1>3, <2>4 DEF RenameOnDisk
    <3>2. /\ file'[x].folder = file[x].folder /\ file'[x].status = file[x].status
          /\ file'[x].rel = file[x].rel
      BY <3>1, RenameDirRows DEF DInv
    <3>3. QED
      BY <2>1, <3>2 DEF HasRow
  <2>5. CASE DeleteFiles(r)
    <3>1. SoftDeleteFilesUnderPath(old)
      BY <1>3, <2>5 DEF DeleteFiles
    <3>2. QED
      BY <2>1, <3>1, SoftDeleteRows DEF DInv
  <2>6. QED
    BY <1>1, <2>2, <2>3, <2>4, <2>5
       DEF Create, Rename, Delete, Ask, CreateInsert, CreateDir, RenameRows, DeleteTree
<1>5. ASSUME NEW x \in File
      PROVE  /\ up'[x] # "none" => file'[x].folder \in Folder /\ Used(file[x].folder)'
             /\ up'[x] \in {"none", "open"} => ~HasRow(x)'
  <2>1. file'[x].folder = file[x].folder
    BY <1>4
  <2>2. PICK f \in Parents : f = file[x].folder
    BY DEF DInv, DiskInv, FileRecord
  <2>3. f \in Folder /\ Used(f) => Used(f)'
    BY UsedStays
  <2>4. QED
    BY <1>2, <1>4, <2>1, <2>2, <2>3 DEF FileInv, Used
<1>6. QED
  BY <1>4, <1>5 DEF FileInv, Used

\* A request of an unraced sequence of steps leaves the tables in order.
LEMMA SoundByRequest ==
  ASSUME DInv, DInv', TablesInv, Requests, Racing(FALSE)
  PROVE  TablesInv'
<1>1. FileInv /\ FileInv' /\ RacedInv
  BY FileInvRequest DEF TablesInv
<1>2. PICK r \in Request :
        \/ \E p \in Parents, n \in Name : Create(r, p, n) \/ \E d \in Folder : Rename(r, d, p, n)
        \/ \E d \in Folder : CreateInsert(r, d) \/ Delete(r, d)
        \/ CreateDir(r) \/ RenameRows(r) \/ RenameFiles(r) \/ RenameOnDisk(r)
        \/ DeleteFiles(r) \/ DeleteTree(r)
  BY DEF Requests
<1>3. RacedInv' /\ (~spoiled' => Sound)
  BY RacedStep DEF TablesInv
<1>4. ASSUME NEW step \in Steps, Goto(r, step), req[r].pc # step
      PROVE  \E q \in ReqRecord : q # req[r] /\ req' = [req EXCEPT ![r] = q] /\ UNCHANGED up
  <2>1. CASE step = "idle"
    <3>1. NoReq \in ReqRecord /\ NoReq # req[r]
      BY <1>4, <2>1, PathTypes DEF NoReq
    <3>2. QED
      BY <1>4, <2>1, <3>1, ToIdle
  <2>2. CASE step # "idle"
    BY <1>4, <2>2, ToStep DEF DInv
  <2>3. QED
    BY <2>1, <2>2
<1>5. ASSUME Sound
      PROVE  \E q \in ReqRecord : q # req[r] /\ req' = [req EXCEPT ![r] = q] /\ UNCHANGED up
  <2>1. ASSUME \/ \E p \in Parents, n \in Name : Create(r, p, n) \/ \E d \in Folder : Rename(r, d, p, n)
               \/ \E d \in Folder : Delete(r, d)
        PROVE  \E q \in ReqRecord : Turn(r, q)
    BY <1>1, <1>5, <2>1, CreateKept, RenameKept, DeleteKept
  <2>2. {"idle", "makeDir", "renameFiles", "renameDir", "trashTree"} \subseteq Steps
    BY DEF Steps
  <2>3. ASSUME \/ \E d \in Folder : CreateInsert(r, d)
               \/ CreateDir(r) \/ RenameRows(r) \/ RenameFiles(r) \/ RenameOnDisk(r)
               \/ DeleteFiles(r) \/ DeleteTree(r)
        PROVE  \E step \in Steps : Goto(r, step) /\ req[r].pc # step
    BY <2>2, <2>3 DEF At, CreateInsert, CreateDir, RenameRows, RenameFiles, RenameOnDisk,
                      DeleteFiles, DeleteTree
  <2>4. QED
    BY <1>2, <1>4, <2>1, <2>3 DEF Turn
<1>6. ASSUME ~spoiled' PROVE Sound'
  <2>1. PICK q \in ReqRecord : q # req[r] /\ req' = [req EXCEPT ![r] = q] /\ UNCHANGED up
    BY <1>3, <1>5, <1>6
  <2>2. /\ Others({r}) /\ Unspoiled(r) /\ Sound
        /\ q # NoReq /\ (\E s \in Request \ {r} : req[s].pc \in Middle) => r \in raced'
    BY <1>6, <2>1, RequestRace DEF Unspoiled
  <2>3. Kept(r) /\ \E k \in ReqRecord : Turn(r, k)
    BY <1>1, <1>2, <2>2, CreateKept, RenameKept, DeleteKept, CreateInsertKept, CreateDirKept,
       RenameRowsKept, RenameFilesKept, RenameOnDiskKept, DeleteFilesKept, DeleteTreeKept
  <2>4. PICK k \in ReqRecord : Turn(r, k)
    BY <2>3
  <2>5. k = q
    <3>1. req'[r] = k /\ req'[r] = q
      BY <2>1, <2>4 DEF Turn, DInv, ReqInv
    <3>2. QED
      BY <3>1
  <2>6. QED
    BY <2>1, <2>2, <2>3, <2>4, <2>5, RequestSound DEF Kept, Turn
<1>7. QED
  BY <1>1, <1>3, <1>6 DEF TablesInv

\* A request that fails has been refused by the first statement it made, or spoils.
LEMMA SoundByFailure ==
  ASSUME DInv, DInv', TablesInv, NEW r \in Request, Fails(r), Racing(Halfway(r))
  PROVE  TablesInv'
<1>1. /\ req[r] # NoReq /\ UNCHANGED <<tree, dirs, file>> /\ Goto(r, "idle") /\ UNCHANGED up
      /\ Halfway(r) \in BOOLEAN
  BY DEF Fails, Goto, Halfway
<1>2. FileInv /\ FileInv'
  BY <1>1 DEF TablesInv, FileInv, tree, Used, HasRow
<1>3. RacedInv'
  BY <1>1, RacedStep
<1>4. ASSUME ~spoiled' PROVE Sound'
  <2>1. req' = [req EXCEPT ![r] = NoReq] /\ NoReq \in ReqRecord
    BY <1>1, ToIdle, PathTypes
  <2>2. Others({r}) /\ Unspoiled(r) /\ ~Halfway(r) /\ Sound
    BY <1>1, <1>4, <2>1, RequestRace DEF Unspoiled
  <2>3. req[r].pc \notin {"makeDir", "renameFiles"}
    BY <2>2 DEF Halfway
  <2>4. Kept(r) /\ Turn(r, NoReq)
    BY <1>1, <1>2, <2>2, <2>3, DropKept
  <2>5. QED
    BY <2>1, <2>2, <2>4, RequestSound DEF Kept, Turn
<1>5. QED
  BY <1>2, <1>3, <1>4 DEF TablesInv

\* A step of the upload of x.
LEMMA UploadRace ==
  ASSUME DInv, TablesInv, NEW x \in File, NEW from, NEW to, from # to,
         up[x] = from, up' = [up EXCEPT ![x] = to], UNCHANGED req, Racing(FALSE)
  PROVE  /\ Others({x})
         /\ ~spoiled' => /\ Sound /\ x \notin raced
                         /\ Uploading(x) => \A s \in Request : req[s].pc \notin Middle
         /\ from = "none" /\ Uploading(x)' /\ (\E s \in Request : req[s].pc \in Middle) => x \in raced'
<1>1. up'[x] = to /\ \A y \in File \ {x} : up'[y] = up[y]
  BY DEF DInv, DiskInv
<1>2. \A y \in File : y \in {x} <=> up'[y] # up[y]
  BY <1>1
<1>3. \A s \in Request : s \in {x} <=> req'[s] # req[s]
  BY FoldersAssumption
<1>4. {x} \subseteq Request \cup File /\ FALSE \in BOOLEAN
  OBVIOUS
<1>5. /\ Others({x})
      /\ ~spoiled' => ~spoiled /\ {x} \cap raced = {}
      /\ \A y \in {x} \cap File :
           up[y] = "none" /\ Uploading(y)' /\ (\E s \in Request : Halfway(s)) => y \in raced'
  BY <1>2, <1>3, <1>4, RaceOthers DEF DInv
<1>6. \A s \in Request : req[s].pc \in Middle => Halfway(s)
  BY DEF Middle, Halfway
<1>7. ASSUME ~spoiled' PROVE Sound /\ x \notin raced
  BY <1>5, <1>7 DEF TablesInv
<1>8. ASSUME ~spoiled', Uploading(x), NEW s \in Request PROVE req[s].pc \notin Middle
  BY <1>7, <1>8 DEF Sound, Alone
<1>9. QED
  BY <1>5, <1>6, <1>7, <1>8

LEMMA UploadSound ==
  ASSUME DInv, DInv', TablesInv, NEW x \in File, NEW k \in FileRecord,
         NEW from \in {"none", "open", "row", "merged"}, NEW to \in {"open", "row", "merged", "done"},
         from # to, Upload(x, from, to, k), Racing(FALSE),
         k.folder \in Folder /\ Used(k.folder),
         to = "open" => k.status \notin {"active", "trashed"},
         k.status \in {"active", "trashed"} => FolderDirRel(k.rel),
         Sound /\ x \notin raced =>
           /\ to # "done" => k.dir = path[k.folder]
           /\ k.status \in {"active", "trashed"} =>
                k.rel = path[k.folder] \/ (HasRow(x) /\ k.rel = file[x].rel /\ k.folder = file[x].folder),
         from = "none" => k.status \notin {"active", "trashed"}
  PROVE  TablesInv'
<1>1. /\ up[x] = from /\ up' = [up EXCEPT ![x] = to] /\ up'[x] = to
      /\ file' = [file EXCEPT ![x] = k] /\ file'[x] = k /\ UNCHANGED <<tree, req, ops>>
      /\ \A y \in File \ {x} : up'[y] = up[y] /\ file'[y] = file[y]
  BY DEF Upload, DInv, DiskInv
<1>2. FileInv'
  <2>1. ASSUME NEW y \in File
        PROVE  /\ up'[y] # "none" => file'[y].folder \in Folder /\ Used(file'[y].folder)
               /\ up'[y] \in {"none", "open"} => ~HasRow(y)'
               /\ HasRow(y)' => FolderDirRel(file'[y].rel)
    <3>1. CASE y = x
      BY <1>1, <3>1 DEF HasRow
    <3>2. CASE y # x
      BY <1>1, <3>2 DEF HasRow, TablesInv, FileInv
    <3>3. QED
      BY <3>1, <3>2
  <2>2. QED
    BY <1>1, <2>1 DEF FileInv, Used, tree
<1>3. RacedInv'
  BY RacedStep
<1>4. ASSUME ~spoiled' PROVE Sound'
  <2>1. /\ Others({x}) /\ Sound /\ x \notin raced
        /\ from # "none" => \A s \in Request : req[s].pc \notin Middle
        /\ Uploading(x)' /\ (\E s \in Request : req[s].pc \in Middle) => x \in raced'
    <3>1. from # "none" <=> Uploading(x)
      BY <1>1 DEF Uploading
    <3>2. /\ Others({x}) /\ Sound /\ x \notin raced
          /\ Uploading(x) => \A s \in Request : req[s].pc \notin Middle
          /\ from = "none" /\ Uploading(x)' /\ (\E s \in Request : req[s].pc \in Middle) =>
               x \in raced'
      <4>1. up[x] = from /\ up' = [up EXCEPT ![x] = to] /\ UNCHANGED req
        BY <1>1
      <4>2. QED
        BY <1>4, <4>1, UploadRace
    <3>3. CASE from = "none"
      BY <3>2, <3>3
    <3>4. CASE from # "none"
      BY <3>1, <3>2, <3>4
    <3>5. QED
      BY <3>3, <3>4
  <2>2. FoldersSound'
    BY <1>1, <2>1, TreeStays DEF Sound
  <2>3. HalfMade'
    BY <1>1, <2>1, HalfMadeStays DEF Sound, At
  <2>4. RowsSound'
    <3>1. ASSUME NEW y \in File, HasRow(y)', Active(file'[y].folder)
          PROVE  /\ (\A r \in Request : ~At(r, "renameFiles")) => file'[y].rel = path[file'[y].folder]
                 /\ \A r \in Request : At(r, "renameFiles") =>
                      path[file'[y].folder] = Moved(file'[y].rel, req[r].old, req[r].new)
      <4>1. CASE HasRow(y) /\ file'[y].rel = file[y].rel /\ file'[y].folder = file[y].folder
        BY <2>1, <3>1, <4>1 DEF Sound, RowsSound
      <4>2. CASE y = x /\ k.rel = path[k.folder] /\ from # "none"
        BY <1>1, <2>1, <4>2 DEF At, Middle
      <4>3. y # x => HasRow(y) /\ file'[y] = file[y]
        BY <1>1, <3>1 DEF HasRow
      <4>4. y = x => k.status \in {"active", "trashed"}
        BY <1>1, <3>1 DEF HasRow
      <4>5. QED
        BY <1>1, <2>1, <4>1, <4>2, <4>3, <4>4
    <3>2. QED
      BY <1>1, <3>1 DEF RowsSound, At, Active, tree
  <2>5. Alone'
    <3>1. {x} \subseteq Request \cup File /\ x \notin Request
      BY FoldersAssumption
    <3>2. QED
      BY <2>1, <3>1, AloneStay DEF Sound
  <2>6. Unraced'
    <3>1. \A y \in File \ {x} : file'[y].dir = file[y].dir /\ file'[y].folder = file[y].folder
      BY <1>1
    <3>2. /\ \A s \in Request \ {x} : s \notin raced' => ReqKnows(s)'
          /\ \A y \in File \ {x} : y \notin raced' => FileKnows(y)'
      BY <2>1, <3>1, UnracedStay DEF Sound
    <3>3. FileKnows(x)'
      BY <1>1, <2>1 DEF FileKnows, Uploading, tree
    <3>4. x \notin Request
      BY FoldersAssumption
    <3>5. QED
      BY <3>2, <3>3, <3>4 DEF Unraced
  <2>7. QED
    BY <2>2, <2>3, <2>4, <2>5, <2>6 DEF Sound
<1>5. QED
  BY <1>2, <1>3, <1>4 DEF TablesInv

LEMMA SoundByUpload ==
  ASSUME DInv, DInv', TablesInv, Uploads, Racing(FALSE)
  PROVE  TablesInv'
<1>1. PICK x \in File : \/ \E d \in Folder : OpenUpload(x, d)
                        \/ CreateFile(x) \/ MergeTo(x) \/ FinishFile(x)
  BY DEF Uploads
<1>2. file[x] \in FileRecord /\ file[x].dir \in Path
  BY PathTypes DEF DInv, DiskInv
<1>3. FileInv
  BY DEF TablesInv
<1>4. ASSUME Uploading(x)
      PROVE  /\ file[x].folder \in Folder /\ Used(file[x].folder)
             /\ Sound /\ x \notin raced => file[x].dir = path[file[x].folder]
             /\ FolderDirRel(file[x].dir)
  BY <1>3, <1>4 DEF FileInv, Uploading, Sound, Unraced, FileKnows, DInv, DiskInv
<1>5. ASSUME NEW d \in Folder, OpenUpload(x, d) PROVE TablesInv'
  <2>1. PICK k : /\ k = [NoFileYet EXCEPT !.dir = path[d], !.folder = d]
                 /\ Upload(x, "none", "open", k)
    BY <1>5 DEF OpenUpload
  <2>2. Used(d) /\ path[d] \in Path
    BY <1>5 DEF OpenUpload, DInv, TreeInv
  <2>3. k \in FileRecord /\ k.dir = path[d] /\ k.folder = d /\ k.status = "none"
    BY <2>1, <2>2, PathTypes DEF NoFileYet, Parents
  <2>4. Upload(x, "none", "open", k)
    BY <2>1
  <2>5. QED
    BY <2>2, <2>3, <2>4, UploadSound
<1>6. ASSUME CreateFile(x) PROVE TablesInv'
  <2>1. PICK k : /\ k = [file[x] EXCEPT !.status = "active", !.rel = file[x].dir]
                 /\ Upload(x, "open", "row", k)
    BY <1>6 DEF CreateFile
  <2>2. Uploading(x)
    BY <2>1 DEF Upload, Uploading
  <2>3. k \in FileRecord /\ k.dir = file[x].dir /\ k.folder = file[x].folder /\ k.rel = file[x].dir
    BY <1>2, <2>1, PathTypes
  <2>4. Upload(x, "open", "row", k)
    BY <2>1
  <2>5. QED
    BY <1>4, <2>2, <2>3, <2>4, UploadSound
<1>7. ASSUME MergeTo(x) PROVE TablesInv'
  <2>1. PICK k : /\ k = [file[x] EXCEPT !.disk = file[x].dir]
                 /\ Upload(x, "row", "merged", k)
    BY <1>7 DEF MergeTo
  <2>2. Uploading(x)
    BY <2>1 DEF Upload, Uploading
  <2>3. /\ k \in FileRecord /\ k.dir = file[x].dir /\ k.folder = file[x].folder
        /\ k.rel = file[x].rel /\ k.status = file[x].status
    BY <1>2, <2>1, PathTypes
  <2>4. Upload(x, "row", "merged", k)
    BY <2>1
  <2>5. k.status \in {"active", "trashed"} => HasRow(x) /\ FolderDirRel(k.rel)
    BY <1>3, <2>3 DEF HasRow, FileInv
  <2>6. QED
    BY <1>4, <2>2, <2>3, <2>4, <2>5, UploadSound
<1>8. ASSUME FinishFile(x) PROVE TablesInv'
  <2>1. PICK k : /\ k = [file[x] EXCEPT !.rel = file[x].dir]
                 /\ Upload(x, "merged", "done", k)
    BY <1>8 DEF FinishFile
  <2>2. Uploading(x)
    BY <2>1 DEF Upload, Uploading
  <2>3. k \in FileRecord /\ k.dir = file[x].dir /\ k.folder = file[x].folder /\ k.rel = file[x].dir
    BY <1>2, <2>1, PathTypes
  <2>4. Upload(x, "merged", "done", k)
    BY <2>1
  <2>5. QED
    BY <1>4, <2>2, <2>3, <2>4, UploadSound
<1>9. QED
  BY <1>1, <1>5, <1>6, <1>7, <1>8

\* A row that goes to the trash, comes back or is purged stays where it was.
LEMMA OwnerSound ==
  ASSUME DInv, TablesInv, UNCHANGED <<tree, up, req>>, Racing(FALSE),
         \A x \in File : /\ file'[x].dir = file[x].dir /\ file'[x].folder = file[x].folder
                         /\ file'[x].rel = file[x].rel /\ (HasRow(x)' => HasRow(x))
  PROVE  TablesInv'
<1>1. FileInv /\ FileInv'
  BY DEF TablesInv, FileInv, Used, tree
<1>2. RacedInv'
  BY RacedStep
<1>3. Others({}) /\ (~spoiled' => ~spoiled)
  <2>1. \A s \in Request : s \in {} <=> req'[s] # req[s]
    OBVIOUS
  <2>2. \A x \in File : x \in {} <=> up'[x] # up[x]
    OBVIOUS
  <2>3. {} \subseteq Request \cup File /\ FALSE \in BOOLEAN
    OBVIOUS
  <2>4. RaceInv
    BY DEF DInv
  <2>5. Others({}) /\ (~spoiled' => ~spoiled /\ ~FALSE /\ {} \cap raced = {})
    BY <2>1, <2>2, <2>3, <2>4, RaceOthers
  <2>6. QED
    BY <2>5
<1>4. ASSUME ~spoiled' PROVE Sound'
  <2>1. Sound
    BY <1>3, <1>4 DEF TablesInv
  <2>2. FoldersSound'
    BY <2>1, TreeStays DEF Sound
  <2>3. HalfMade'
    BY <2>1, HalfMadeStays DEF Sound, At
  <2>4. RowsSound'
    BY <1>1, <2>1, RowsStay DEF Sound, tree, Active
  <2>5. Alone'
    BY <1>3, <2>1, AloneStay DEF Sound
  <2>6. Unraced'
    BY <1>3, <2>1, UnracedStay DEF Sound, Unraced
  <2>7. QED
    BY <2>2, <2>3, <2>4, <2>5, <2>6 DEF Sound
<1>5. QED
  BY <1>1, <1>2, <1>4 DEF TablesInv

LEMMA TablesStay ==
  ASSUME TablesInv, UNCHANGED vars
  PROVE  TablesInv'
<1>1. /\ UNCHANGED <<fstat, parent, fname, path>>
      /\ UNCHANGED <<dirs, up, file, req, raced, spoiled>>
  BY DEF vars
<1>2. FileInv' /\ RacedInv'
  BY <1>1 DEF TablesInv, FileInv, RacedInv, HasRow, Used, Uploading
<1>3. Sound' <=> Sound
  <2>1. FoldersSound' <=> FoldersSound
    BY <1>1 DEF FoldersSound, MarksTell, KeyHolds, TreeSound, LiesInParent, Active, Used, PathOf
  <2>2. (HalfMade' <=> HalfMade) /\ (RowsSound' <=> RowsSound)
    BY <1>1 DEF HalfMade, RowsSound, Active, At, HasRow
  <2>3. Alone' <=> Alone
    BY <1>1 DEF Alone, Uploading
  <2>4. \A r \in Request : ReqKnows(r)' <=> ReqKnows(r)
    BY <1>1 DEF ReqKnows, At, Asked, NameIsFree, FolderNameExists, Used, PathOf
  <2>5. \A x \in File : FileKnows(x)' <=> FileKnows(x)
    BY <1>1 DEF FileKnows, Uploading
  <2>6. Unraced' <=> Unraced
    BY <1>1, <2>4, <2>5 DEF Unraced
  <2>7. QED
    BY <2>1, <2>2, <2>3, <2>6 DEF Sound
<1>4. QED
  BY <1>1, <1>2, <1>3 DEF TablesInv

LEMMA TablesInit == DInit => TablesInv
<1> SUFFICES ASSUME DInit PROVE TablesInv
  OBVIOUS
<1>1. /\ \A d \in Folder : fstat[d] = "unused"
      /\ \A x \in File : up[x] = "none" /\ file[x].status = "none"
      /\ \A r \in Request : req[r] = NoReq /\ req[r].pc = "idle"
      /\ raced = {}
  BY DEF DInit, NoReq, NoFileYet
<1>2. FileInv /\ RacedInv
  BY <1>1 DEF FileInv, RacedInv, HasRow
<1>3. FoldersSound /\ HalfMade /\ RowsSound
  BY <1>1 DEF FoldersSound, MarksTell, KeyHolds, TreeSound, HalfMade, RowsSound, Active, Used, HasRow
<1>4. Alone /\ Unraced
  BY <1>1 DEF Alone, Unraced, Middle, ReqKnows, FileKnows, At, Uploading
<1>5. QED
  BY <1>2, <1>3, <1>4 DEF TablesInv, Sound

LEMMA TablesStep ==
  ASSUME DInv, DInv', TablesInv, [DNext]_vars
  PROVE  TablesInv'
<1>1. CASE Requests /\ Racing(FALSE)
  BY <1>1, SoundByRequest
<1>2. CASE Uploads /\ Racing(FALSE)
  BY <1>2, SoundByUpload
<1>3. ASSUME NEW r \in Request, Fails(r), Racing(Halfway(r)) PROVE TablesInv'
  BY <1>3, SoundByFailure
<1>4. CASE UNCHANGED vars
  BY <1>4, TablesStay
<1>5. QED
  BY <1>1, <1>2, <1>3, <1>4 DEF DNext, DStep

LEMMA OwnTables ==
  ASSUME SInv, TablesInv, Own
  PROVE  TablesInv'
<1>1. DInv /\ file \in [File -> FileRecord]
  BY DEF SInv, DInv, DiskInv
<1>2. ASSUME NEW x \in File, Trash(x) \/ Restore(x) \/ Purge(x) PROVE TablesInv'
  <2>1. UNCHANGED <<tree, up, req>> /\ Racing(FALSE) /\ HasRow(x)
    BY <1>2 DEF Trash, Restore, Purge, HasRow
  <2>2. \A y \in File : /\ file'[y].dir = file[y].dir /\ file'[y].folder = file[y].folder
                        /\ file'[y].rel = file[y].rel /\ (y # x => file'[y] = file[y])
    <3>1. CASE Trash(x)
      BY <1>1, <3>1 DEF Trash, FileRecord
    <3>2. CASE Restore(x)
      BY <1>1, <3>2 DEF Restore, FileRecord
    <3>3. CASE Purge(x)
      BY <1>1, <3>3 DEF Purge, FileRecord
    <3>4. QED
      BY <1>2, <3>1, <3>2, <3>3
  <2>3. \A y \in File : HasRow(y)' => HasRow(y)
    BY <2>1, <2>2 DEF HasRow
  <2>4. QED
    BY <1>1, <2>1, <2>2, <2>3, OwnerSound
<1>3. CASE UNCHANGED vars
  BY <1>3, TablesStay
<1>4. QED
  BY <1>2, <1>3 DEF Own, AskShare, CreateShare, Revoke, Lapse, PurgeExpired, Linking

LEMMA SharesTables == SSpec => [](SInv /\ TablesInv)
<1>1. SInit => SInv /\ TablesInv
  BY SInvInit, TablesInit DEF SInit
<1>2. SInv /\ TablesInv /\ [SNext]_svars => (SInv /\ TablesInv)'
  <2> SUFFICES ASSUME SInv, TablesInv, [SNext]_svars PROVE SInv' /\ TablesInv'
    OBVIOUS
  <2>1. SInv' /\ DInv /\ DInv'
    BY SInvStep DEF SInv
  <2>2. CASE DNext
    BY <2>1, <2>2, TablesStep
  <2>3. CASE Own
    BY <2>1, <2>3, OwnTables
  <2>4. CASE \E v \in Visitor : Serve(v) /\ Seeing
    <3>1. UNCHANGED vars
      BY <2>4, VisitMoves
    <3>2. QED
      BY <2>1, <3>1, TablesStay
  <2>5. CASE UNCHANGED svars
    BY <2>1, <2>5, TablesStay DEF svars
  <2>6. QED
    BY <2>1, <2>2, <2>3, <2>4, <2>5 DEF SNext
<1>3. QED
  BY <1>1, <1>2, PTL DEF SSpec

\* The folders form a tree whenever the tables are at rest and no request has
\* written over a change it did not see or stopped halfway.
THEOREM TreeIsSound == SSpec => []SoundTree
<1>1. SInv /\ TablesInv => SoundTree
  <2> SUFFICES ASSUME SInv, TablesInv, ~spoiled, Quiet
               PROVE  /\ \A d \in Folder : fstat[d] = "active" =>
                           /\ parent[d] # NoFolder => fstat[parent[d]] = "active"
                           /\ path[d] = Append(PathOf(parent[d]), Live(fname[d]))
                      /\ \A x \in File : HasRow(x) /\ fstat[file[x].folder] = "active"
                                           => file[x].rel = path[file[x].folder]
    BY DEF SoundTree
  <2>1. Sound /\ FileInv
    BY DEF TablesInv
  <2>2. \A r \in Request : req[r].pc = "idle"
    BY DEF Quiet, NoReq
  <2>3. /\ \A d \in Folder : Active(d) => FolderDirRel(path[d])
        /\ \A x \in File : HasRow(x) /\ Active(file[x].folder) => file[x].rel = path[file[x].folder]
    BY <2>1, <2>2, AtRest
  <2>4. \A d \in Folder : Active(d) => LiesInParent(d)
    BY <2>1, <2>3 DEF Sound, FoldersSound, TreeSound
  <2>5. QED
    BY <2>3, <2>4 DEF LiesInParent, Active
<1>2. QED
  BY <1>1, SharesTables, PTL

\* An active folder that has the path asked for has the parent and the name too.
LEMMA TakenByOwn ==
  ASSUME TreeInv, FoldersSound, NEW q \in ReqRecord, Asked(q),
         NEW w \in Folder, Active(w), FolderDirRel(path[w]), path[w] = q.new
  PROVE  parent[w] = q.parent /\ fname[w] = q.name
<1>1. PICK f \in Parents : f = parent[w]
  BY DEF TreeInv
<1>2. /\ fname[w] \in Name /\ path[w] = Append(PathOf(f), Live(fname[w]))
      /\ f # NoFolder => f \in Folder /\ Active(f)
  BY <1>1 DEF FoldersSound, TreeSound, LiesInParent, Parents
<1>3. /\ q.name \in Name /\ path[w] = Append(PathOf(q.parent), Live(q.name))
      /\ q.parent \in Parents
      /\ q.parent # NoFolder => q.parent \in Folder /\ Used(q.parent)
  BY PathTypes DEF Asked, Parents
<1>4. PathOf(f) \in Path /\ PathOf(q.parent) \in Path
  BY <1>2, <1>3, PathTypes DEF PathOf, TreeInv
<1>5. Live(fname[w]) \in Segment /\ Live(q.name) \in Segment
  BY <1>2, <1>3, LiveSegment
<1>6. PathOf(f) = PathOf(q.parent) /\ Live(fname[w]) = Live(q.name)
  <2>1. Append(PathOf(f), Live(fname[w])) = Append(PathOf(q.parent), Live(q.name))
    BY <1>2, <1>3
  <2>2. QED
    BY <1>4, <1>5, <2>1, AppendInjective DEF Path
<1>7. fname[w] = q.name
  BY <1>6 DEF Live
<1>8. f = q.parent
  <2>1. \A d \in Folder : Used(d) => PathOf(d) = path[d] /\ path[d] # <<>>
    BY FoldersAssumption DEF PathOf, TreeInv
  <2>2. PathOf(NoFolder) = <<>>
    BY DEF PathOf
  <2>3. f # NoFolder => f \in Folder /\ Used(f)
    <3>1. \A d \in Folder : Active(d) => Used(d)
      BY DEF Active, Used
    <3>2. QED
      BY <1>2, <3>1
  <2>4. q.parent # NoFolder => q.parent \in Folder /\ Used(q.parent)
    BY <1>3
  <2>5. CASE f = NoFolder \/ q.parent = NoFolder
    BY <1>6, <2>1, <2>2, <2>3, <2>4, <2>5
  <2>6. CASE f # NoFolder /\ q.parent # NoFolder
    <3>1. path[f] = path[q.parent]
      BY <1>6, <2>1, <2>3, <2>4, <2>6
    <3>2. QED
      BY <2>3, <2>4, <2>6, <3>1 DEF FoldersSound, KeyHolds
  <2>7. QED
    BY <2>5, <2>6
<1>9. QED
  BY <1>1, <1>7, <1>8

LEMMA MovedInjective ==
  ASSUME NEW a \in Path, NEW b \in Path, NEW old \in Path, NEW new \in Path,
         IsPrefix(old, a), IsPrefix(old, b), Moved(a, old, new) = Moved(b, old, new)
  PROVE  a = b
<1>1. PICK u \in Path : a = old \o u
  BY PrefixIff
<1>2. PICK v \in Path : b = old \o v
  BY PrefixIff
<1>3. \A w \in Path : Moved(old \o w, old, new) = new \o w
  BY MovedOf
<1>4. new \o u = new \o v
  BY <1>1, <1>2, <1>3
<1>5. u = v
  BY <1>4, ConcatSimplifications DEF Path
<1>6. QED
  BY <1>1, <1>2, <1>5

LEMMA RenamedIs ==
  ASSUME TreeInv, KeyHolds(path), NEW d \in Folder, Used(d), NEW old \in Path, NEW new \in Path,
         old = path[d], NEW e \in Folder, Used(e)
  PROVE  RenamedPaths(d, new)[e] = Moved(path[e], old, new)
<1>1. CASE e = d
  <2>1. old \o <<>> = old /\ new \o <<>> = new /\ <<>> \in Path
    BY ConcatPath
  <2>2. Moved(old \o <<>>, old, new) = new \o <<>>
    BY <2>1, MovedOf
  <2>3. QED
    BY <1>1, <2>1, <2>2 DEF RenamedPaths
<1>2. CASE e # d
  <2>1. path[e] # old
    BY <1>2 DEF KeyHolds
  <2>2. QED
    BY <1>2, <2>1 DEF RenamedPaths, Moved
<1>3. QED
  BY <1>1, <1>2

\* What is moved finds no row in its way.
LEMMA RenamedKey ==
  ASSUME TreeInv, FoldersSound, \A e \in Folder : Active(e) => FolderDirRel(path[e]),
         NEW d \in Folder, NEW q \in ReqRecord, NEW old \in Path, NEW new \in Path,
         FromTo(d, q, old, new), Asked(q), NameIsFree(q, d),
         Used(d), new # <<>>, new # old, FolderDirRel(old), FolderDirRel(new)
  PROVE  KeyHolds(RenamedPaths(d, new))
<1>1. KeyHolds(path) /\ old = path[d] /\ old # <<>> /\ \A e \in Folder : path[e] \in Path
  BY DEF FoldersSound, FromTo, TreeInv
<1>2. \A e \in Folder : Used(e) => RenamedPaths(d, new)[e] = Moved(path[e], old, new)
  BY <1>1, RenamedIs
<1>3. ASSUME NEW w \in Folder, Active(w) PROVE path[w] # new
  <2>1. SUFFICES ASSUME path[w] = new PROVE FALSE
    OBVIOUS
  <2>2. parent[w] = q.parent /\ fname[w] = q.name
    BY <1>3, <2>1, TakenByOwn DEF FromTo
  <2>3. w = d
    BY <1>3, <2>2 DEF NameIsFree, FolderNameExists, Active
  <2>4. QED
    BY <1>1, <2>1, <2>3
<1>4. ASSUME NEW w \in Folder, Active(w) PROVE ~IsPrefix(new, path[w])
  <2>1. SUFFICES ASSUME IsPrefix(new, path[w]) PROVE FALSE
    OBVIOUS
  <2>2. new \in Prefixes(path[w]) \ {<<>>}
    BY <1>1, <2>1, PrefixesIff
  <2>3. \E e \in Folder : Active(e) /\ path[e] = new
    BY <1>4, <2>2 DEF FoldersSound, TreeSound
  <2>4. QED
    BY <1>3, <2>3
<1>5. ASSUME NEW e \in Folder, NEW f \in Folder, e # f, Used(e), Used(f),
             IsPrefix(old, path[e]), ~IsPrefix(old, path[f])
      PROVE  Moved(path[e], old, new) # Moved(path[f], old, new)
  <2>1. SUFFICES ASSUME Moved(path[e], old, new) = path[f] PROVE FALSE
    BY <1>1, <1>5, MovedIs
  <2>2. LastMark(path[f]) = LastMark(path[e])
    BY <1>1, <2>1, MovedMark
  <2>3. fstat[f] # "deleted"
    BY <1>5, <2>2, FoldersAssumption DEF FoldersSound, MarksTell
  <2>4. Active(f)
    BY <1>5, <2>3 DEF TreeInv, Used, Active
  <2>5. PICK t \in Path : path[e] = old \o t
    BY <1>1, <1>5, PrefixIff
  <2>6. \A w \in Path : Moved(old \o w, old, new) = new \o w
    BY MovedOf
  <2>7. IsPrefix(new, path[f])
    <3>1. path[f] = new \o t
      BY <2>1, <2>5, <2>6
    <3>2. QED
      BY <1>1, <3>1, PrefixIff
  <2>8. QED
    BY <1>4, <2>4, <2>7
<1>6. ASSUME NEW e \in Folder, NEW f \in Folder, e # f, Used(e), Used(f)
      PROVE  Moved(path[e], old, new) # Moved(path[f], old, new)
  <2>0. path[e] # path[f]
    BY <1>1, <1>6 DEF KeyHolds
  <2>1. CASE IsPrefix(old, path[e]) /\ IsPrefix(old, path[f])
    BY <1>1, <2>0, <2>1, MovedInjective
  <2>2. CASE ~IsPrefix(old, path[e]) /\ ~IsPrefix(old, path[f])
    BY <1>1, <2>0, <2>2, MovedIs
  <2>3. CASE IsPrefix(old, path[e]) /\ ~IsPrefix(old, path[f])
    BY <1>5, <1>6, <2>3
  <2>4. CASE ~IsPrefix(old, path[e]) /\ IsPrefix(old, path[f])
    BY <1>5, <1>6, <2>4
  <2>5. QED
    BY <2>1, <2>2, <2>3, <2>4
<1>7. QED
  BY <1>2, <1>6 DEF KeyHolds

\* A request that nothing raced finds the path it asks for free.
THEOREM KeyStaysFree == SSpec => []KeyIsFree
<1>1. SInv /\ TablesInv => KeyIsFree
  <2> SUFFICES ASSUME SInv, TablesInv, ~spoiled, NEW r \in Request, r \notin raced
               PROVE  /\ At(r, "insert") => \A d \in Folder : Used(d) => path[d] # req[r].new
                      /\ At(r, "renameRows") => KeyHolds(RenamedPaths(req[r].id, req[r].new))
    BY DEF KeyIsFree
  <2>1. Sound /\ FoldersSound /\ TreeInv /\ ReqInv /\ ReqKnows(r)
    BY DEF TablesInv, Sound, Unraced, SInv, DInv
  <2>2. PICK q \in ReqRecord : q = req[r]
    BY <2>1 DEF ReqInv
  <2>3. ASSUME req[r] # NoReq, req[r].pc \notin Middle, NEW e \in Folder, Active(e)
        PROVE  FolderDirRel(path[e])
    <3>1. \A s \in Request : req[s].pc \notin Middle
      BY <2>1, <2>3 DEF Sound, Alone
    <3>2. QED
      BY <2>1, <2>3, <3>1, AtRest DEF Middle, TablesInv
  <2>4. ASSUME At(r, "insert"), NEW d \in Folder, Used(d) PROVE path[d] # req[r].new
    <3>1. /\ Asked(q) /\ NameIsFree(q, NoFolder) /\ q.pc = "insert"
      BY <2>1, <2>2, <2>4 DEF ReqKnows, At
    <3>2. req[r] # NoReq /\ req[r].pc \notin Middle
      BY <2>2, <3>1 DEF NoReq, Middle
    <3>3. SUFFICES ASSUME path[d] = q.new PROVE FALSE
      BY <2>2
    <3>4. LastMark(path[d]) = NoFolder
      <4>1. Live(q.name) \in Segment /\ Live(q.name).mark = NoFolder
        BY <3>1, LiveSegment DEF Asked
      <4>2. q.parent \in Parents /\ path[d] = Append(PathOf(q.parent), Live(q.name))
        BY <3>1, <3>3, PathTypes DEF Asked
      <4>3. PathOf(q.parent) \in Path
        BY <2>1, <4>2, PathTypes DEF PathOf, TreeInv, Parents
      <4>4. QED
        BY <4>1, <4>2, <4>3, LastMarks
    <3>5. Active(d)
      BY <2>1, <2>4, <3>4, FoldersAssumption DEF FoldersSound, MarksTell, TreeInv, Used, Active
    <3>6. FolderDirRel(path[d])
      BY <2>3, <3>2, <3>5
    <3>7. parent[d] = q.parent /\ fname[d] = q.name
      BY <2>1, <3>1, <3>3, <3>5, <3>6, TakenByOwn
    <3>8. QED
      BY <3>1, <3>5, <3>7, FoldersAssumption DEF NameIsFree, FolderNameExists, Active
  <2>5. ASSUME At(r, "renameRows") PROVE KeyHolds(RenamedPaths(req[r].id, req[r].new))
    <3>1. /\ Asked(q) /\ NameIsFree(q, q.id) /\ q.pc = "renameRows" /\ Used(q.id)
          /\ q.old = path[q.id] /\ FolderDirRel(q.old) /\ q.new # q.old
      BY <2>1, <2>2, <2>5 DEF ReqKnows, At
    <3>2. q.new # <<>> /\ q.id \in Folder /\ FolderDirRel(q.new)
      BY <2>1, <2>2, <3>1 DEF ReqInv, Renaming
    <3>3. PICK old \in Path, new \in Path : old = q.old /\ new = q.new
      BY PathTypes
    <3>4. \A e \in Folder : Active(e) => FolderDirRel(path[e])
      BY <2>2, <2>3, <3>1 DEF NoReq, Middle
    <3>5. FromTo(q.id, q, old, new)
      BY <3>1, <3>3 DEF FromTo
    <3>6. KeyHolds(RenamedPaths(q.id, new))
      BY <2>1, <3>1, <3>2, <3>3, <3>4, <3>5, RenamedKey
    <3>7. QED
      BY <2>2, <3>3, <3>6
  <2>6. QED
    BY <2>4, <2>5
<1>2. QED
  BY <1>1, SharesTables, PTL

\* The statements that delete a folder, and what they find.
LEMMA DeletedBy ==
  ASSUME DInv, DNext, ~TakesBack, NEW d \in Folder, fstat[d] = "active", fstat'[d] = "deleted"
  PROVE  \E r \in Request : IsPrefix(req[r].old, path[d]) /\ At(r, "trashTree")
<1>1. fstat \in [Folder -> {"unused", "active", "deleted"}]
  BY DEF DInv, TreeInv
<1>2. ASSUME NEW p, SoftDeleteFolderTree(p) PROVE IsPrefix(p, path[d])
  BY <1>2 DEF SoftDeleteFolderTree, InTree
<1>3. ASSUME NEW r \in Request, DeleteTree(r)
      PROVE  IsPrefix(req[r].old, path[d]) /\ At(r, "trashTree")
  BY <1>2, <1>3 DEF DeleteTree
<1>4. ASSUME NEW r \in Request, CreateDir(r) PROVE FALSE
  <2>1. req'[r] = NoReq /\ At(r, "makeDir")
    BY <1>4 DEF CreateDir, Goto, DInv, ReqInv
  <2>2. QED
    BY <2>1 DEF TakesBack, At, NoReq
<1>5. ASSUME NEW r \in Request, NEW e \in Folder, CreateInsert(r, e) PROVE FALSE
  <2>1. fstat'[d] = "active"
    <3>1. CASE fstat' = [fstat EXCEPT ![e] = "active"]
      BY <1>1, <3>1
    <3>2. CASE UNCHANGED tree
      BY <3>2 DEF tree
    <3>3. QED
      BY <1>5, <3>1, <3>2 DEF CreateInsert
  <2>2. QED
    BY <2>1
<1>6. ~UNCHANGED fstat /\ ~UNCHANGED tree
  BY DEF tree
<1>7. \A x \in File : /\ \A e \in Folder : ~OpenUpload(x, e)
                      /\ ~CreateFile(x) /\ ~MergeTo(x) /\ ~FinishFile(x)
  BY <1>6 DEF OpenUpload, CreateFile, MergeTo, FinishFile, Upload
<1>8. \A r \in Request :
        /\ \A p \in Parents, n \in Name : ~Create(r, p, n)
        /\ \A e \in Folder, p \in Parents, n \in Name : ~Rename(r, e, p, n)
        /\ \A e \in Folder : ~Delete(r, e)
        /\ ~RenameFiles(r) /\ ~RenameOnDisk(r) /\ ~DeleteFiles(r) /\ ~Fails(r)
  BY <1>6 DEF Create, Rename, Delete, Ask, RenameFiles, RenameOnDisk, DeleteFiles, Fails
<1>9. \A r \in Request : ~RenameRows(r)
  BY <1>6 DEF RenameRows, RenameFolderPathWithParent
<1>10. QED
  BY <1>3, <1>4, <1>5, <1>7, <1>8, <1>9 DEF DNext, DStep, Requests, Uploads

\* A deletion that nothing raced leaves no active file in what it deletes.
THEOREM DeletedIsEmpty == SSpec => DeletionTakesFiles
<1> DEFINE Takes == \A d \in Folder, x \in File :
                      /\ fstat[d] = "active" /\ fstat'[d] = "deleted" /\ file[x].folder = d
                      /\ file[x].status = "active" /\ ~spoiled /\ ~TakesBack
                      => \E r \in raced \cap Request : At(r, "trashTree")
<1>1. SInv /\ TablesInv /\ [SNext]_svars => [Takes]_vars
  <2> SUFFICES ASSUME SInv, TablesInv, SNext,
                      NEW d \in Folder, NEW x \in File, fstat[d] = "active", fstat'[d] = "deleted",
                      file[x].folder = d, file[x].status = "active", ~spoiled, ~TakesBack
               PROVE  \E r \in raced \cap Request : At(r, "trashTree")
    BY DEF svars, vars
  <2>1. DInv /\ Sound /\ FileInv
    BY DEF SInv, TablesInv
  <2>2. DNext
    <3>1. ~UNCHANGED tree /\ ~UNCHANGED vars
      BY DEF tree, vars
    <3>2. ~Own
      BY <3>1 DEF Own, AskShare, CreateShare, Revoke, Lapse, PurgeExpired, Linking,
                  Trash, Restore, Purge
    <3>3. \A v \in Visitor : Seeing => ~Serve(v)
      BY <3>1, VisitMoves
    <3>4. QED
      BY <3>2, <3>3 DEF SNext
  <2>3. HasRow(x) /\ Active(file[x].folder) /\ FolderDirRel(file[x].rel)
    BY <2>1 DEF HasRow, Active, FileInv
  <2>7. PICK r \in Request : IsPrefix(req[r].old, path[d]) /\ At(r, "trashTree")
    BY <2>1, <2>2, DeletedBy
  <2>8. CASE \A s \in Request : ~At(s, "renameFiles")
    <3>1. file[x].rel = path[d]
      BY <2>1, <2>3, <2>8 DEF Sound, RowsSound
    <3>2. ~ReqKnows(r)
      BY <2>7, <3>1 DEF ReqKnows
    <3>3. QED
      BY <2>1, <2>7, <3>2 DEF Sound, Unraced
  <2>9. ASSUME NEW s \in Request, At(s, "renameFiles")
        PROVE  \E t \in raced \cap Request : At(t, "trashTree")
    <3>1. s # r /\ req[r] # NoReq /\ req[s].pc \in Middle
      BY <2>7, <2>9 DEF At, NoReq, Middle
    <3>2. r \in raced
      BY <2>1, <3>1 DEF Sound, Alone
    <3>3. QED
      BY <2>7, <3>2
  <2>10. QED
    BY <2>8, <2>9
<1>2. QED
  BY <1>1, SharesTables, PTL DEF SSpec, DeletionTakesFiles
=============================================================================
