-------------------------- MODULE Services_proofs --------------------------
(***************************************************************************)
(* Proofs about Settings and LoginLimiter, for every set of keys, values,  *)
(* updates and logins.                                                     *)
(***************************************************************************)
EXTENDS Settings, LoginLimiter, FiniteSetTheorems, TLAPS

(***************************************************************************)
(* Settings.                                                               *)
(***************************************************************************)

\* An update that has committed, and that nothing has overtaken since, wrote what
\* is in the table.
SwapIsStored ==
  \A s \in Saver : save[s] # NoSave /\ save[s].pc = "swap" /\ s \notin crossed
                     => table = save[s].next

\* An update that has not committed, and that nothing has overtaken since, starts
\* from what the table says.
PutIsCurrent ==
  \A s \in Saver : save[s] # NoSave /\ save[s].pc = "put" /\ s \notin overtaken
                     => \A k \in Key : save[s].patch[k] = NoChange
                                         => save[s].next[k] = FromMap(table)[k]

SetInv == SetTypeOK /\ InForceIsStored /\ SwapIsStored /\ PutIsCurrent

\* Loading gives every key a value, and what has values is loaded as it is.
LEMMA FromMapType ==
  ASSUME NEW raw \in [Key -> Stored]
  PROVE  FromMap(raw) \in [Key -> Value]
  BY SettingsAssumption DEF FromMap, Defaults, Stored

LEMMA FromMapOfValues ==
  ASSUME NEW raw \in [Key -> Value]
  PROVE  FromMap(raw) = raw /\ raw \in [Key -> Stored]
  BY SettingsAssumption DEF FromMap, Stored

LEMMA SetInvInit == SetInit => SetInv
<1>1. ASSUME SetInit PROVE SetTypeOK
  <2>1. values \in [Key -> Value]
    BY <1>1, FromMapType DEF SetInit
  <2>2. saves \in 0 .. MaxSaves
    BY <1>1, SettingsAssumption DEF SetInit
  <2>3. QED
    BY <1>1, <2>1, <2>2 DEF SetInit, SetTypeOK
<1>2. QED
  BY <1>1 DEF SetInit, SetInv, InForceIsStored, SwapIsStored, PutIsCurrent

LEMMA UpdateStep ==
  ASSUME SetInv, NEW s \in Saver, NEW patch \in PatchOf, Update(s, patch)
  PROVE  SetInv'
<1> DEFINE q == [pc |-> "put", patch |-> patch, next |-> NextValues(patch)]
<1>1. NextValues(patch) \in [Key -> Value]
  BY SettingsAssumption DEF NextValues, PatchOf, NoChange, SetInv, SetTypeOK
<1>2. q \in SaveRecord
  BY <1>1 DEF SaveRecord
<1>3. save' = [save EXCEPT ![s] = q] /\ UNCHANGED <<table, values, crossed, drift>>
  BY DEF Update
<1>4. SetTypeOK'
  BY <1>2, <1>3, SettingsAssumption DEF SetInv, SetTypeOK, SaveRecord, Update, Counted
<1>5. SwapIsStored'
  BY <1>3 DEF SetInv, SetTypeOK, SwapIsStored
<1>6. PutIsCurrent'
  <2>1. ASSUME s \notin overtaken', NEW k \in Key, patch[k] = NoChange
        PROVE  q.next[k] = FromMap(table)[k]
    <3>1. ~drift
      BY <2>1 DEF Update
    <3>2. QED
      BY <2>1, <3>1 DEF NextValues, SetInv, InForceIsStored
  <2>2. \A t \in Saver \ {s} : save'[t] = save[t] /\ (t \in overtaken <=> t \in overtaken')
    BY <1>3 DEF Update, SetInv, SetTypeOK
  <2>3. save'[s] = q
    BY <1>3 DEF SetInv, SetTypeOK
  <2>4. QED
    BY <1>3, <2>1, <2>2, <2>3 DEF SetInv, PutIsCurrent
<1>7. QED
  BY <1>3, <1>4, <1>5, <1>6 DEF SetInv, InForceIsStored

LEMMA PutSettingsStep ==
  ASSUME SetInv, NEW s \in Saver, NEW answered \in BOOLEAN, PutSettings(s, answered)
  PROVE  SetInv'
<1>1. save[s] \in SaveRecord
  BY DEF PutSettings, SetInv, SetTypeOK, SaveRecord
<1>2. table' \in [Key -> Stored] /\ FromMap(table') = table'
  BY <1>1, FromMapOfValues DEF PutSettings, SaveRecord
<1>3. SetTypeOK'
  <2>1. save'[s] \in SaveRecord \cup {NoSave}
    BY <1>1 DEF PutSettings, SetInv, SetTypeOK, SaveRecord
  <2>2. QED
    BY <1>2, <2>1 DEF PutSettings, SetInv, SetTypeOK, SaveRecord, Written
<1>4. SwapIsStored'
  BY <1>1 DEF PutSettings, SetInv, SetTypeOK, SwapIsStored, Written, SaveRecord
<1>5. PutIsCurrent'
  BY <1>1 DEF PutSettings, SetInv, SetTypeOK, PutIsCurrent, Written, SaveRecord
<1>6. QED
  BY <1>3, <1>4, <1>5 DEF SetInv, InForceIsStored, PutSettings, Written

LEMMA SwapStep ==
  ASSUME SetInv, NEW s \in Saver, Swap(s)
  PROVE  SetInv'
<1>1. save[s] \in SaveRecord
  BY DEF Swap, SetInv, SetTypeOK, SaveRecord
<1>2. SetTypeOK'
  BY <1>1 DEF Swap, InForce, SetInv, SetTypeOK, SaveRecord
<1>3. InForceIsStored'
  <2>1. ASSUME ~drift' PROVE values' = FromMap(table')
    <3>1. table = save[s].next
      BY <2>1 DEF Swap, SetInv, SetTypeOK, SwapIsStored
    <3>2. QED
      BY <1>1, <3>1, FromMapOfValues DEF Swap, InForce, SaveRecord
  <2>2. QED
    BY <2>1 DEF InForceIsStored
<1>4. SwapIsStored' /\ PutIsCurrent'
  BY DEF Swap, SetInv, SetTypeOK, SwapIsStored, PutIsCurrent
<1>5. QED
  BY <1>2, <1>3, <1>4 DEF SetInv

LEMMA SetInvStep == SetInv /\ [SetNext]_setvars => SetInv'
<1> SUFFICES ASSUME SetInv, [SetNext]_setvars PROVE SetInv'
  OBVIOUS
<1>1. ASSUME NEW s \in Saver, NEW patch \in PatchOf, Update(s, patch) PROVE SetInv'
  BY <1>1, UpdateStep
<1>2. ASSUME NEW s \in Saver, NEW answered \in BOOLEAN, PutSettings(s, answered) PROVE SetInv'
  BY <1>2, PutSettingsStep
<1>3. ASSUME NEW s \in Saver, PutFails(s) PROVE SetInv'
  BY <1>3 DEF PutFails, SetInv, SetTypeOK, InForceIsStored, SwapIsStored, PutIsCurrent
<1>4. ASSUME NEW s \in Saver, Swap(s) PROVE SetInv'
  BY <1>4, SwapStep
<1>5. CASE Restart
  <2>1. Seed(table) \in [Key -> Stored]
    BY SettingsAssumption DEF Seed, Stored, SetInv, SetTypeOK
  <2>2. values' \in [Key -> Value]
    BY <1>5, <2>1, FromMapType DEF Restart
  <2>3. saves' \in 0 .. MaxSaves
    BY <1>5, SettingsAssumption DEF Restart, Counted, SetInv, SetTypeOK
  <2>4. SetTypeOK'
    BY <1>5, <2>1, <2>2, <2>3 DEF Restart, SetTypeOK
  <2>5. QED
    BY <1>5, <2>4 DEF Restart, SetInv, InForceIsStored, SwapIsStored, PutIsCurrent
<1>6. ASSUME NEW k \in Key, NEW v \in Stored, Edit(k, v) PROVE SetInv'
  BY <1>6, SettingsAssumption
  DEF Edit, Counted, SetInv, SetTypeOK, InForceIsStored, SwapIsStored, PutIsCurrent
<1>7. CASE UNCHANGED setvars
  BY <1>7 DEF setvars, SetInv, SetTypeOK, InForceIsStored, SwapIsStored, PutIsCurrent
<1>8. QED
  BY <1>1, <1>2, <1>3, <1>4, <1>5, <1>6, <1>7 DEF SetNext

LEMMA SetInvHolds == SetSpec => []SetInv
  BY SetInvInit, SetInvStep, PTL DEF SetSpec

\* Types of the table, the values in force and the updates.
THEOREM SettingsTypeCorrect == SetSpec => []SetTypeOK
  BY SetInvHolds, PTL DEF SetInv

\* The values in force are those of the table, unless the table was written since
\* the last update that nothing overtook (Service.Update).
THEOREM InForceHolds == SetSpec => []InForceIsStored
  BY SetInvHolds, PTL DEF SetInv

\* An update that nothing overtook changes the keys of its patch only
\* (Service.Update, Store.PutSettings).
THEOREM OthersKept == SetSpec => OthersAreKept
<1> DEFINE Keeps(s) ==
      /\ save[s] # NoSave /\ save[s].pc = "put" /\ s \notin overtaken /\ table' # table
      /\ \A t \in Saver \ {s} : save'[t] = save[t]
      /\ save'[s] # save[s] /\ \A k \in Key : table[k] # "bad"
      => \A k \in Key : save[s].patch[k] = NoChange => FromMap(table)[k] = table'[k]
<1>1. ASSUME SetInv, [SetNext]_setvars PROVE [\A s \in Saver : Keeps(s)]_setvars
  <2> SUFFICES ASSUME SetNext, NEW s \in Saver,
                      save[s] # NoSave, save[s].pc = "put", s \notin overtaken, table' # table,
                      \A t \in Saver \ {s} : save'[t] = save[t],
                      save'[s] # save[s], \A k \in Key : table[k] # "bad",
                      NEW k \in Key, save[s].patch[k] = NoChange
               PROVE  FromMap(table)[k] = table'[k]
    BY <1>1
  <2> USE <1>1 DEF SetInv, SetTypeOK
  <2>1. ASSUME NEW t \in Saver, NEW answered \in BOOLEAN, PutSettings(t, answered)
        PROVE  FromMap(table)[k] = table'[k]
    <3>1. t = s
      BY <2>1 DEF PutSettings
    <3>2. QED
      BY <2>1, <3>1 DEF PutSettings, PutIsCurrent
  <2>2. CASE Restart
    BY <2>2 DEF Restart, Seed, FromMap
  <2>3. ASSUME NEW t \in Saver, NEW patch \in PatchOf, Update(t, patch) PROVE FALSE
    BY <2>3 DEF Update
  <2>4. ASSUME NEW t \in Saver, PutFails(t) \/ Swap(t) PROVE FALSE
    BY <2>4 DEF PutFails, Swap
  <2>5. ASSUME NEW l \in Key, NEW v \in Stored, Edit(l, v) PROVE FALSE
    BY <2>5 DEF Edit
  <2>6. QED
    BY <2>1, <2>2, <2>3, <2>4, <2>5 DEF SetNext
<1>2. QED
  BY <1>1, SetInvHolds, PTL DEF SetSpec, OthersAreKept

(***************************************************************************)
(* LoginLimiter.                                                           *)
(***************************************************************************)

\* The failures a bucket counts are failures of its window: none of them is older
\* than the bucket.
CountIsRecent ==
  \A k \in LimitKey : hits[k] # NoBucket =>
    \A a \in 0 .. Window - 1 : hits[k].age <= a =>
      failed[k][a] >= hits[k].count \/ failed[k][a] = MaxFailed

LimitInv == LTypeOK /\ FailuresAreBounded /\ CountIsRecent

LEMMA InFlightSize ==
  ASSUME NEW k \in LimitKey
  PROVE  /\ IsFiniteSet(InFlight(k)) /\ Cardinality(InFlight(k)) \in Nat
         /\ Cardinality(InFlight(k)) <= Cardinality(Try)
         /\ Cardinality(Try) \in Nat
<1>1. InFlight(k) \subseteq Try
  BY DEF InFlight
<1>2. QED
  BY <1>1, LimiterAssumption, FS_Subset, FS_CardinalityType

\* A login begins: it was not in flight.
LEMMA InFlightGrows ==
  ASSUME LTypeOK, NEW t \in Try, NEW k \in LimitKey, try[t] = NotTrying,
         try' = [try EXCEPT ![t] = k]
  PROVE  /\ Cardinality(InFlight(k)') = Cardinality(InFlight(k)) + 1
         /\ Cardinality(InFlight(k)') <= Cardinality(Try)
         /\ \A l \in LimitKey \ {k} : InFlight(l)' = InFlight(l)
<1>1. t \notin InFlight(k)
  BY LimiterAssumption DEF InFlight, NotTrying
<1>2. InFlight(k)' = InFlight(k) \cup {t}
  BY DEF InFlight, LTypeOK
<1>3. InFlight(k)' \subseteq Try
  BY DEF InFlight
<1>4. \A l \in LimitKey \ {k} : InFlight(l)' = InFlight(l)
  BY LimiterAssumption DEF InFlight, LTypeOK, NotTrying
<1>5. Cardinality(InFlight(k)') = Cardinality(InFlight(k)) + 1
  BY <1>1, <1>2, InFlightSize, FS_AddElement
<1>6. Cardinality(InFlight(k)') <= Cardinality(Try)
  BY <1>3, LimiterAssumption, FS_Subset
<1>7. QED
  BY <1>4, <1>5, <1>6

\* A login ends: it was in flight for its key.
LEMMA InFlightShrinks ==
  ASSUME LTypeOK, NEW t \in Try, NEW k \in LimitKey, try[t] = k,
         try' = [try EXCEPT ![t] = NotTrying]
  PROVE  /\ Cardinality(InFlight(k)') = Cardinality(InFlight(k)) - 1
         /\ \A l \in LimitKey \ {k} : InFlight(l)' = InFlight(l)
<1>1. t \in InFlight(k)
  BY DEF InFlight
<1>2. InFlight(k)' = InFlight(k) \ {t}
  BY LimiterAssumption DEF InFlight, LTypeOK, NotTrying
<1>3. \A l \in LimitKey \ {k} : InFlight(l)' = InFlight(l)
  BY LimiterAssumption DEF InFlight, LTypeOK, NotTrying
<1>4. QED
  BY <1>1, <1>2, <1>3, InFlightSize, FS_RemoveElement

\* A bucket counts no more than there can be.
LEMMA CountIsBounded ==
  ASSUME LTypeOK, FailuresAreBounded, NEW k \in LimitKey
  PROVE  CountOf(k) \in Nat /\ CountOf(k) < MaxFailures + Cardinality(Try)
  BY InFlightSize, LimiterAssumption DEF LTypeOK, FailuresAreBounded, CountOf, Bucket

LEMMA LimitInvInit == LInit => LimitInv
<1>1. ASSUME LInit, NEW k \in LimitKey PROVE InFlight(k) = {} /\ CountOf(k) = 0
  BY <1>1, LimiterAssumption DEF LInit, InFlight, CountOf, NotTrying
<1>2. Cardinality({}) = 0 /\ Cardinality(Try) \in Nat
  BY LimiterAssumption, FS_EmptySet, FS_CardinalityType
<1>3. LInit => FailuresAreBounded
  BY <1>1, <1>2, LimiterAssumption DEF FailuresAreBounded
<1>4. LInit => LTypeOK
  BY LimiterAssumption DEF LInit, LTypeOK
<1>5. LInit => CountIsRecent
  BY DEF LInit, CountIsRecent
<1>6. QED
  BY <1>3, <1>4, <1>5 DEF LimitInv

LEMMA AllowStep ==
  ASSUME LimitInv, NEW t \in Try, NEW k \in LimitKey, Allow(t, k)
  PROVE  LimitInv'
<1> USE DEF LimitInv
<1>1. LTypeOK'
  BY DEF Allow, LTypeOK
<1>2. FailuresAreBounded'
  <2>1. /\ Cardinality(InFlight(k)') = Cardinality(InFlight(k)) + 1
        /\ Cardinality(InFlight(k)') <= Cardinality(Try)
        /\ \A l \in LimitKey \ {k} : InFlight(l)' = InFlight(l)
    BY InFlightGrows DEF Allow
  <2>2. CountOf(k)' \in Nat /\ CountOf(k)' < MaxFailures
    <3>1. CASE Expired(k)
      BY <3>1, LimiterAssumption DEF Allow, LTypeOK, CountOf
    <3>2. CASE ~Expired(k)
      BY <3>2, CountIsBounded DEF Allow, LTypeOK, CountOf, MayTry
    <3>3. QED
      BY <3>1, <3>2
  <2>3. (CountOf(k) + Cardinality(InFlight(k)) < MaxFailures + Cardinality(Try))'
    <3>1. Cardinality(InFlight(k)) \in Nat /\ Cardinality(Try) \in Nat
      BY InFlightSize
    <3>2. QED
      BY <2>1, <2>2, <3>1, LimiterAssumption
  <2>4. \A l \in LimitKey \ {k} : CountOf(l)' = CountOf(l)
    BY DEF Allow, LTypeOK, CountOf
  <2>5. QED
    BY <2>1, <2>3, <2>4 DEF FailuresAreBounded
<1>3. CountIsRecent'
  BY DEF Allow, LTypeOK, CountIsRecent
<1>4. QED
  BY <1>1, <1>2, <1>3

LEMMA FailStep ==
  ASSUME LimitInv, NEW t \in Try, Fail(t)
  PROVE  LimitInv'
<1> USE DEF LimitInv
<1>0. try[t] \in LimitKey
  BY DEF Fail, LTypeOK
<1> PICK k \in LimitKey : k = try[t]
  BY <1>0
<1>1. /\ k = try[t] /\ try' = [try EXCEPT ![t] = NotTrying]
      /\ hits' = [hits EXCEPT ![k] = WithFailure(k)]
      /\ failed' = [failed EXCEPT ![k] =
           [a \in 0 .. Window - 1 |-> IF @[a] < MaxFailed THEN @[a] + 1 ELSE @[a]]]
  BY DEF Fail, LTypeOK
<1>2. /\ Cardinality(InFlight(k)') = Cardinality(InFlight(k)) - 1
      /\ \A l \in LimitKey \ {k} : InFlight(l)' = InFlight(l)
  BY <1>1, InFlightShrinks
<1>3. /\ WithFailure(k) \in [count : Nat \ {0}, age : 0 .. Window]
      /\ WithFailure(k).count <= CountOf(k) + 1
      /\ CountOf(k) \in Nat
  <2>1. CASE hits[k] = NoBucket \/ Expired(k)
    BY <1>1, <2>1, CountIsBounded, LimiterAssumption DEF WithFailure
  <2>2. CASE ~(hits[k] = NoBucket \/ Expired(k))
    <3>1. hits[k] \in Bucket
      BY <1>1, <2>2 DEF LTypeOK
    <3>2. hits[k].count \in Nat \ {0} /\ hits[k].age \in 0 .. Window
      BY <3>1, InFlightSize, LimiterAssumption DEF Bucket
    <3>3. WithFailure(k) = [count |-> hits[k].count + 1, age |-> hits[k].age]
      BY <2>2, <3>1 DEF WithFailure, Bucket
    <3>4. QED
      BY <2>2, <3>2, <3>3 DEF CountOf
  <2>3. QED
    BY <2>1, <2>2
<1>4. Cardinality(InFlight(k)) \in Nat /\ Cardinality(InFlight(k)) >= 1 /\ Cardinality(Try) \in Nat
  <2>1. t \in InFlight(k)
    BY DEF InFlight
  <2>2. Cardinality(InFlight(k)) # 0
    BY <1>1, <2>1, InFlightSize, FS_EmptySet
  <2>3. QED
    BY <1>1, <2>2, InFlightSize
<1>5. /\ WithFailure(k).count + (Cardinality(InFlight(k)) - 1) < MaxFailures + Cardinality(Try)
      /\ WithFailure(k).count <= MaxFailures + Cardinality(Try)
  BY <1>1, <1>3, <1>4, LimiterAssumption DEF FailuresAreBounded
<1>6. WithFailure(k) \in Bucket
  BY <1>3, <1>4, <1>5, LimiterAssumption DEF Bucket
<1>7. LTypeOK'
  <2>1. [a \in 0 .. Window - 1 |-> IF failed[k][a] < MaxFailed THEN failed[k][a] + 1 ELSE failed[k][a]]
          \in [0 .. Window - 1 -> 0 .. MaxFailed]
    BY <1>1, LimiterAssumption DEF LTypeOK
  <2>2. QED
    BY <1>1, <1>6, <2>1 DEF LTypeOK
<1>8. FailuresAreBounded'
  <2>1. CountOf(k)' <= WithFailure(k).count /\ CountOf(k)' \in Nat
    BY <1>1, <1>3 DEF CountOf, LTypeOK
  <2>2. (CountOf(k) + Cardinality(InFlight(k)) < MaxFailures + Cardinality(Try))'
    BY <1>2, <1>3, <1>4, <1>5, <2>1, LimiterAssumption DEF CountOf
  <2>3. \A l \in LimitKey \ {k} : CountOf(l)' = CountOf(l)
    BY <1>1 DEF LTypeOK, CountOf
  <2>4. QED
    BY <1>1, <1>2, <2>2, <2>3 DEF FailuresAreBounded
<1>9. CountIsRecent'
  <2> SUFFICES ASSUME NEW l \in LimitKey, hits'[l] # NoBucket,
                      NEW a \in 0 .. Window - 1, hits'[l].age <= a
               PROVE  failed'[l][a] >= hits'[l].count \/ failed'[l][a] = MaxFailed
    BY DEF CountIsRecent
  <2>1. CASE l # k
    BY <1>1, <2>1 DEF CountIsRecent, LTypeOK
  <2>2. CASE l = k
    <3>1. /\ hits'[k] = WithFailure(k) /\ failed[k][a] \in 0 .. MaxFailed
          /\ failed'[k][a] = IF failed[k][a] < MaxFailed THEN failed[k][a] + 1 ELSE failed[k][a]
      BY <1>1 DEF LTypeOK
    <3>2. CASE hits[k] = NoBucket \/ Expired(k)
      BY <2>2, <3>1, <3>2, LimiterAssumption DEF WithFailure
    <3>3. CASE ~(hits[k] = NoBucket \/ Expired(k))
      <4>1. hits[k] \in Bucket /\ hits'[k] = [hits[k] EXCEPT !.count = @ + 1]
        BY <1>1, <3>1, <3>3 DEF LTypeOK, WithFailure
      <4>2. hits'[k].age = hits[k].age /\ hits'[k].count = hits[k].count + 1 /\ hits[k].count \in Nat
        BY <4>1, InFlightSize, <1>1, LimiterAssumption DEF Bucket
      <4>3. failed[k][a] >= hits[k].count \/ failed[k][a] = MaxFailed
        BY <1>1, <2>2, <3>3, <4>2 DEF CountIsRecent
      <4>4. QED
        BY <2>2, <3>1, <4>2, <4>3, LimiterAssumption
    <3>4. QED
      BY <3>2, <3>3
  <2>3. QED
    BY <2>1, <2>2
<1>10. QED
  BY <1>7, <1>8, <1>9

LEMMA ResetStep ==
  ASSUME LimitInv, NEW t \in Try, Reset(t)
  PROVE  LimitInv'
<1> USE DEF LimitInv
<1>0. try[t] \in LimitKey
  BY DEF Reset, LTypeOK
<1> PICK k \in LimitKey : k = try[t]
  BY <1>0
<1>1. /\ k = try[t] /\ try' = [try EXCEPT ![t] = NotTrying]
      /\ hits' = [hits EXCEPT ![k] = NoBucket] /\ failed' = failed
  BY DEF Reset, LTypeOK
<1>2. LTypeOK' /\ CountIsRecent'
  BY <1>1 DEF LTypeOK, CountIsRecent
<1>3. FailuresAreBounded'
  <2>1. /\ Cardinality(InFlight(k)') = Cardinality(InFlight(k)) - 1
        /\ \A l \in LimitKey \ {k} : InFlight(l)' = InFlight(l)
    BY <1>1, InFlightShrinks
  <2>2. CountOf(k)' = 0 /\ \A l \in LimitKey \ {k} : CountOf(l)' = CountOf(l)
    BY <1>1 DEF LTypeOK, CountOf
  <2>3. (CountOf(k) + Cardinality(InFlight(k)) < MaxFailures + Cardinality(Try))'
    BY <1>1, <2>1, <2>2, InFlightSize, LimiterAssumption
  <2>4. QED
    BY <1>1, <2>1, <2>2, <2>3 DEF FailuresAreBounded
<1>4. QED
  BY <1>2, <1>3

LEMMA LTickStep ==
  ASSUME LimitInv, LTick
  PROVE  LimitInv'
<1> USE DEF LimitInv
<1>1. ASSUME NEW k \in LimitKey, hits[k] # NoBucket
      PROVE  hits'[k] \in Bucket /\ hits'[k].count = hits[k].count
             /\ hits[k].age \in 0 .. Window
             /\ (hits'[k].age = hits[k].age + 1 \/ hits'[k].age = Window)
  <2>1. hits[k] \in Bucket
    BY <1>1 DEF LTypeOK
  <2>2. CASE Expired(k)
    BY <1>1, <2>1, <2>2, LimiterAssumption DEF LTick, Bucket, Expired
  <2>3. CASE ~Expired(k)
    <3>1. hits'[k] = [hits[k] EXCEPT !.age = @ + 1]
      BY <1>1, <2>3 DEF LTick
    <3>2. hits[k].age \in 0 .. Window /\ hits[k].age + 1 \in 0 .. Window
      BY <1>1, <2>1, <2>3, LimiterAssumption DEF Bucket, Expired
    <3>3. QED
      BY <2>1, <3>1, <3>2 DEF Bucket
  <2>4. QED
    BY <2>2, <2>3
<1>2. ASSUME NEW k \in LimitKey, hits[k] = NoBucket
      PROVE  hits'[k] = NoBucket
  BY <1>2 DEF LTick
<1>3. failed' \in [LimitKey -> [0 .. Window - 1 -> 0 .. MaxFailed]]
  <2>1. ASSUME NEW k \in LimitKey
        PROVE  [a \in 0 .. Window - 1 |-> IF a = 0 THEN 0 ELSE failed[k][a - 1]]
                 \in [0 .. Window - 1 -> 0 .. MaxFailed]
    BY LimiterAssumption DEF LTypeOK
  <2>2. QED
    BY <2>1 DEF LTick
<1>4. LTypeOK'
  <2>1. hits' \in [LimitKey -> Bucket \cup {NoBucket}]
    BY <1>1, <1>2 DEF LTick
  <2>2. QED
    BY <1>3, <2>1 DEF LTick, LTypeOK
<1>5. FailuresAreBounded'
  <2>1. \A k \in LimitKey : InFlight(k)' = InFlight(k)
    BY DEF LTick, InFlight
  <2>2. ASSUME NEW k \in LimitKey PROVE CountOf(k)' = CountOf(k) \/ CountOf(k)' = 0
    BY <1>1, <1>2 DEF CountOf
  <2>3. QED
    BY <2>1, <2>2, CountIsBounded, InFlightSize, LimiterAssumption DEF FailuresAreBounded
<1>6. CountIsRecent'
  <2> SUFFICES ASSUME NEW k \in LimitKey, hits'[k] # NoBucket,
                      NEW a \in 0 .. Window - 1, hits'[k].age <= a
               PROVE  failed'[k][a] >= hits'[k].count \/ failed'[k][a] = MaxFailed
    BY DEF CountIsRecent
  <2>1. hits[k] # NoBucket
    BY <1>2
  <2>2. hits'[k].age = hits[k].age + 1
    BY <1>1, <2>1, LimiterAssumption
  <2>3. a # 0 /\ a - 1 \in 0 .. Window - 1 /\ hits[k].age <= a - 1
    BY <1>1, <2>1, <2>2, LimiterAssumption
  <2>4. failed'[k][a] = failed[k][a - 1]
    BY <2>3 DEF LTick
  <2>5. QED
    BY <1>1, <2>1, <2>3, <2>4 DEF CountIsRecent
<1>7. QED
  BY <1>4, <1>5, <1>6

LEMMA LimitInvStep == LimitInv /\ [LNext]_lvars => LimitInv'
<1> SUFFICES ASSUME LimitInv, [LNext]_lvars PROVE LimitInv'
  OBVIOUS
<1>1. CASE LTick
  BY <1>1, LTickStep
<1>2. ASSUME NEW t \in Try, Fail(t) PROVE LimitInv'
  BY <1>2, FailStep
<1>3. ASSUME NEW t \in Try, Reset(t) PROVE LimitInv'
  BY <1>3, ResetStep
<1>4. ASSUME NEW t \in Try, NEW k \in LimitKey, Allow(t, k) PROVE LimitInv'
  BY <1>4, AllowStep
<1>5. CASE UNCHANGED lvars
  BY <1>5 DEF lvars, LimitInv, LTypeOK, FailuresAreBounded, CountOf, InFlight, CountIsRecent
<1>6. QED
  BY <1>1, <1>2, <1>3, <1>4, <1>5 DEF LNext

LEMMA LimitInvHolds == LSpec => []LimitInv
  BY LimitInvInit, LimitInvStep, PTL DEF LSpec

\* Types of the buckets and of the logins in flight.
THEOREM LimiterTypeCorrect == LSpec => []LTypeOK
  BY LimitInvHolds, PTL DEF LimitInv

\* Overlapping logins exceed the limit by no more than the others in flight.
THEOREM FailuresBounded == LSpec => []FailuresAreBounded
  BY LimitInvHolds, PTL DEF LimitInv

\* Whoever is turned away has failed as often as the limit in the last window.
THEOREM RefusalEarned == LSpec => []RefusalIsEarned
<1>1. LimitInv => RefusalIsEarned
  <2> SUFFICES ASSUME LimitInv, NEW k \in LimitKey, ~MayTry(k)
               PROVE  failed[k][Window - 1] >= MaxFailures
    BY DEF RefusalIsEarned
  <2>1. hits[k] # NoBucket /\ hits[k].age # Window /\ hits[k].count >= MaxFailures
    BY LimiterAssumption, CountIsBounded DEF MayTry, Expired, CountOf, LimitInv
  <2>2. hits[k].age <= Window - 1 /\ Window - 1 \in 0 .. Window - 1
    BY <2>1, LimiterAssumption DEF LimitInv, LTypeOK, Bucket
  <2>3. hits[k].count \in Nat /\ failed[k][Window - 1] \in Nat
    BY <2>1, <2>2, InFlightSize, LimiterAssumption DEF LimitInv, LTypeOK, Bucket
  <2>4. failed[k][Window - 1] >= hits[k].count \/ failed[k][Window - 1] = MaxFailed
    BY <2>1, <2>2 DEF LimitInv, CountIsRecent
  <2>5. QED
    BY <2>1, <2>3, <2>4, LimiterAssumption
<1>2. QED
  BY <1>1, LimitInvHolds, PTL
=============================================================================
