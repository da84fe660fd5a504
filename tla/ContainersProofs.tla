-------------------------- MODULE ContainersProofs --------------------------
(***************************************************************************)
(* Proofs about the containers of MCContainers, for any number of objects,  *)
(* any elements and any bound.                                              *)
(***************************************************************************)
EXTENDS MCContainers, FiniteSetTheorems, SequenceTheorems, WellFoundedInduction, TLAPS

-----------------------------------------------------------------------------
(* Composition.                                                             *)

mcvars == <<kind, vars, priorities, sets, pointers, heaps>>

\* A step of the containers is a step of each of them, or leaves it alone.
LEMMA StepOfEach ==
    ASSUME [MCNext]_mcvars
    PROVE  /\ [Next]_vars /\ [P!Next]_(P!vars) /\ [U!Next]_(U!vars)
           /\ [T!Next]_(T!vars) /\ [H!Next]_(H!vars)
<1> USE DEF priorities, sets, pointers, heaps, vars, P!vars, U!vars, T!vars, H!vars, H!locals
<1>1. CASE CallQueue
  BY <1>1 DEF CallQueue
<1>2. CASE CallPriority
  BY <1>2 DEF CallPriority
<1>3. CASE CallSet
  BY <1>3 DEF CallSet
<1>4. CASE CallPointer
  BY <1>4 DEF CallPointer
<1>5. CASE CallHeap
  BY <1>5 DEF CallHeap
<1>6. CASE UNCHANGED mcvars
  BY <1>6 DEF mcvars
<1> QED BY <1>1, <1>2, <1>3, <1>4, <1>5, <1>6 DEF MCNext

\* The containers together implement each container on its own.
THEOREM EachContainer == MCSpec => Spec /\ P!Spec /\ U!Spec /\ T!Spec /\ H!Spec
<1>1. MCInit => Init /\ P!Init /\ U!Init /\ T!Init /\ H!Init
  BY DEF MCInit
<1>2. [MCNext]_mcvars => /\ [Next]_vars /\ [P!Next]_(P!vars) /\ [U!Next]_(U!vars)
                         /\ [T!Next]_(T!vars) /\ [H!Next]_(H!vars)
  BY StepOfEach
<1> QED BY <1>1, <1>2, PTL DEF MCSpec, mcvars, Spec, P!Spec, U!Spec, T!Spec, H!Spec

-----------------------------------------------------------------------------
(* p_queue_fast.                                                            *)

\* As long as end_ follows the vector, the live cells are what was inserted.
QueueInv ==
    /\ TypeOK
    /\ InRange
    /\ CountsSites
    /\ ~ cleared =>
         /\ queue.end = Len(queue.q)
         /\ \A k \in 1..Len(inserted) : queue.q[queue.begin + k] = inserted[k]

LEMMA SitesOfLiveCells ==
    ASSUME QueueInv, ~ cleared
    PROVE  QueueSites(queue) = inserted
<1>1. inserted \in Seq(Elem) /\ QueueNsites(queue) = Len(inserted)
  BY DEF QueueInv, TypeOK, CountsSites
<1>2. \A k \in 1..Len(inserted) : QueueAt(queue, k - 1) = inserted[k]
  BY <1>1 DEF QueueInv, TypeOK, QueueAt
<1>3. inserted = [k \in 1..Len(inserted) |-> inserted[k]]
  BY <1>1
<1>4. QED
  BY <1>1, <1>2, <1>3 DEF QueueSites

LEMMA QueueStep ==
    ASSUME QueueInv, [Next]_vars
    PROVE  QueueInv'
<1> USE DEF QueueInv, TypeOK, InRange, CountsSites, QueueNsites
<1>0. /\ queue.q \in Seq(Elem) /\ queue.begin \in Nat /\ queue.end \in Nat
      /\ queue = [q |-> queue.q, begin |-> queue.begin, end |-> queue.end]
      /\ Len(queue.q) \in Nat /\ Len(inserted) \in Nat
  OBVIOUS
<1>1. ASSUME NEW e \in Elem, Push(e) PROVE QueueInv'
  <2>1. /\ queue'.q = Append(queue.q, e) /\ queue'.begin = queue.begin
        /\ queue'.end = queue.end + 1
        /\ queue' \in [q : Seq(Elem), begin : Nat, end : Nat]
    BY <1>0, <1>1 DEF Push, QueuePush
  <2>2. /\ inserted' = Append(inserted, e) /\ inserted' \in Seq(Elem)
        /\ Len(inserted') = Len(inserted) + 1
        /\ Len(queue'.q) = Len(queue.q) + 1
    BY <1>0, <1>1, <2>1 DEF Push
  <2>3. ASSUME ~ cleared', NEW k \in 1..Len(inserted')
        PROVE  queue'.q[queue'.begin + k] = inserted'[k]
    <3>1. CASE k = Len(inserted')
      BY <1>0, <1>1, <2>1, <2>2, <2>3, <3>1 DEF Push
    <3>2. CASE k # Len(inserted')
      BY <1>0, <1>1, <2>1, <2>2, <2>3, <3>2 DEF Push
    <3>3. QED
      BY <3>1, <3>2
  <2>4. QED
    BY <1>0, <1>1, <2>1, <2>2, <2>3 DEF Push
<1>2. ASSUME Pop PROVE QueueInv'
  <2>1. /\ queue'.q = queue.q /\ queue'.begin = queue.begin + 1
        /\ queue'.end = queue.end
        /\ queue' \in [q : Seq(Elem), begin : Nat, end : Nat]
    BY <1>0, <1>2 DEF Pop, QueuePop
  <2>2. inserted # <<>>
    BY <1>0, <1>2 DEF Pop, QueueIsEmpty
  <2>3. /\ inserted' = Tail(inserted) /\ inserted' \in Seq(Elem)
        /\ Len(inserted') = Len(inserted) - 1
        /\ \A k \in 1..Len(inserted') : inserted'[k] = inserted[k + 1]
    BY <1>2, <2>2 DEF Pop
  <2>4. ASSUME ~ cleared', NEW k \in 1..Len(inserted')
        PROVE  queue'.q[queue'.begin + k] = inserted'[k]
    <3>1. k + 1 \in 1..Len(inserted) /\ ~ cleared
      BY <1>0, <1>2, <2>3, <2>4 DEF Pop
    <3>2. queue.q[queue.begin + (k + 1)] = inserted[k + 1]
      BY <3>1
    <3>3. queue.begin + (k + 1) = queue'.begin + k
      BY <1>0, <2>1, <2>3
    <3>4. QED
      BY <2>1, <2>3, <3>2, <3>3
  <2>5. queue.begin + 1 <= queue.end
    BY <1>0, <1>2 DEF Pop, QueueIsEmpty
  <2>6. ~ cleared' => queue'.end = Len(queue'.q)
    BY <1>2, <2>1 DEF Pop
  <2>7. TypeOK' /\ InRange' /\ CountsSites'
    BY <1>0, <1>2, <2>1, <2>3, <2>5 DEF Pop
  <2>8. QED
    BY <2>4, <2>6, <2>7
<1>3. ASSUME Purge PROVE QueueInv'
  <2>1. \A k \in 1..QueueNsites(queue) : QueueAt(queue, k - 1) \in Elem
    BY <1>0 DEF QueueAt
  <2>2. /\ QueueSites(queue) \in Seq(Elem)
        /\ Len(QueueSites(queue)) = QueueNsites(queue)
    <3>1. PICK size \in Nat : size = QueueNsites(queue)
      BY <1>0
    <3> DEFINE sites == QueueSites(queue)
    <3>2. sites = [k \in 1..size |-> QueueAt(queue, k - 1)]
      BY <3>1 DEF QueueSites
    <3>3. \A k \in 1..size : QueueAt(queue, k - 1) \in Elem
      BY <2>1, <3>1
    <3> HIDE DEF sites
    <3>4. sites \in [1..size -> Elem]
      BY Zenon, <3>2, <3>3
    <3>5. sites \in Seq(Elem)
      BY <3>1, <3>4, SeqDef
    <3>6. DOMAIN sites = 1..size /\ DOMAIN sites = 1..Len(sites) /\ Len(sites) \in Nat
      BY <3>4, <3>5, LenProperties
    <3>7. Len(sites) = size
      BY <3>1, <3>6
    <3> QED
      BY <3>1, <3>5, <3>7 DEF sites
  <2>3. /\ queue'.q = QueueSites(queue) /\ queue'.begin = 0
        /\ queue'.end = QueueNsites(queue)
        /\ queue' \in [q : Seq(Elem), begin : Nat, end : Nat]
    BY <1>0, <1>3, <2>2 DEF Purge, QueuePurge
  <2>4. inserted' = inserted /\ cleared' = cleared
    BY <1>3 DEF Purge
  <2>5. ~ cleared => queue'.q = inserted
    BY <2>3, SitesOfLiveCells
  <2>6. QED
    BY <1>0, <2>2, <2>3, <2>4, <2>5
<1>4. ASSUME Clear PROVE QueueInv'
  <2>1. /\ queue'.q = queue.q /\ queue'.begin = queue.begin
        /\ queue'.end = queue.begin
        /\ queue' \in [q : Seq(Elem), begin : Nat, end : Nat]
    BY <1>0, <1>4 DEF Clear, QueueClear
  <2>2. QED
    BY <1>0, <1>4, <2>1 DEF Clear
<1>5. CASE UNCHANGED vars
  BY <1>5 DEF vars
<1>6. QED
  BY <1>1, <1>2, <1>3, <1>4, <1>5 DEF Next

LEMMA QueueBegin == Init => QueueInv
<1> SUFFICES ASSUME Init PROVE QueueInv
  OBVIOUS
<1>1. queue.q = <<>> /\ queue.begin = 0 /\ queue.end = 0 /\ inserted = <<>>
  BY DEF Init, EmptyQueue
<1>2. <<>> \in Seq(Elem) /\ Len(<<>>) = 0
  OBVIOUS
<1>3. TypeOK
  BY <1>2 DEF Init, EmptyQueue, TypeOK
<1>4. QED
  BY <1>1, <1>2, <1>3 DEF QueueInv, InRange, CountsSites, QueueNsites

\* No call reads past the vector, and the number of sites is right, even after
\* clear().
THEOREM QueueStaysInRange == Spec => [](InRange /\ CountsSites)
<1>1. QueueInv => InRange /\ CountsSites
  BY DEF QueueInv
<1>2. QED
  BY <1>1, QueueBegin, QueueStep, PTL DEF Spec

\* Until clear() is called, a p_queue_fast holds the sites of a p_queue.
THEOREM QueueIsFifo == Spec => []FifoUntilCleared
<1>1. QueueInv => FifoUntilCleared
  BY SitesOfLiveCells DEF FifoUntilCleared
<1>2. QED
  BY <1>1, QueueBegin, QueueStep, PTL DEF Spec

-----------------------------------------------------------------------------
(* tracked_ptr.                                                             *)

LEMMA SameCardinality == \A S : T!Cardinality(S) = Cardinality(S)
  BY DEF T!Cardinality, Cardinality

Holders(st) == {h \in Pointer : st.ptr[h] # Null}
SameDatum(st, h) == {g \in Pointer : st.ptr[g] = st.ptr[h]}

\* What holds of the memory between any two calls, and in the middle of an
\* assignment too, after clean_().
PtrType(st) ==
    /\ st = [ptr |-> st.ptr, holders |-> st.holders, data |-> st.data, sets |-> st.sets]
    /\ st.ptr \in [Pointer -> Datum \cup {Null}]
    /\ st.holders \in [Pointer -> HolderSet \cup {Null}]
    /\ st.sets = [k \in DOMAIN st.sets |-> st.sets[k]]
PtrFinite(st) == IsFiniteSet(Holders(st))
PtrData(st) == st.data = {st.ptr[h] : h \in Holders(st)}
PtrSets(st) == DOMAIN st.sets = {st.holders[h] : h \in Holders(st)}
PtrNull(st) == \A h \in Pointer : st.ptr[h] = Null <=> st.holders[h] = Null
PtrExact(st) == \A h \in Holders(st) : st.sets[st.holders[h]] = SameDatum(st, h)
PtrPaired(st) ==
    \A g, h \in Holders(st) : st.ptr[g] = st.ptr[h] <=> st.holders[g] = st.holders[h]

PtrSound(st) ==
    /\ PtrType(st) /\ PtrFinite(st) /\ PtrData(st) /\ PtrSets(st)
    /\ PtrNull(st) /\ PtrExact(st) /\ PtrPaired(st)

LEMMA OwnSound ==
    ASSUME NEW st, PtrSound(st), NEW h \in Pointer, st.ptr[h] = Null,
           NEW dd \in Datum \ st.data, NEW k \in HolderSet \ DOMAIN st.sets
    PROVE  PtrSound(T!Own(st, h, dd, k))
<1> DEFINE o == T!Own(st, h, dd, k)
<1> USE NullAssumption
<1>1. /\ o.ptr = [st.ptr EXCEPT ![h] = dd]
      /\ o.holders = [st.holders EXCEPT ![h] = k]
      /\ o.data = st.data \cup {dd}
      /\ o.sets = [l \in DOMAIN st.sets \cup {k} |-> IF l = k THEN {h} ELSE st.sets[l]]
      /\ o = [ptr |-> o.ptr, holders |-> o.holders, data |-> o.data, sets |-> o.sets]
  BY DEF T!Own
<1> HIDE DEF o
<1>2. PtrType(o)
  BY <1>1 DEF PtrSound, PtrType
<1>3. /\ o.ptr[h] = dd /\ o.holders[h] = k
      /\ \A g \in Pointer : g # h => o.ptr[g] = st.ptr[g] /\ o.holders[g] = st.holders[g]
  BY <1>1 DEF PtrSound, PtrType
<1>4. Holders(o) = Holders(st) \cup {h} /\ h \notin Holders(st)
  BY <1>3 DEF Holders
<1>5. PtrFinite(o)
  BY <1>4, FS_AddElement DEF PtrFinite, PtrSound
<1>6. \A g \in Holders(st) : st.ptr[g] # dd /\ st.holders[g] # k
  BY DEF PtrSound, PtrData, PtrSets
<1>7. PtrData(o)
  BY <1>1, <1>3, <1>4 DEF PtrData, PtrSound, Holders
<1>8. PtrSets(o)
  BY <1>1, <1>3, <1>4 DEF PtrSets, PtrSound, Holders
<1>9. PtrNull(o)
  BY <1>1, <1>3 DEF PtrNull, PtrSound
<1>10. PtrPaired(o)
  BY <1>3, <1>4, <1>6 DEF PtrPaired, PtrSound, Holders
<1>11. ASSUME NEW g \in Holders(o) PROVE o.sets[o.holders[g]] = SameDatum(o, g)
  <2>1. CASE g = h
    BY <1>1, <1>3, <1>6, <2>1 DEF SameDatum, Holders
  <2>2. CASE g # h
    <3>1. g \in Holders(st) /\ st.holders[g] \in DOMAIN st.sets
      BY <1>4, <2>2 DEF PtrSound, PtrSets
    <3>2. o.sets[o.holders[g]] = SameDatum(st, g)
      BY <1>1, <1>3, <1>6, <2>2, <3>1 DEF PtrSound, PtrExact, Holders
    <3>3. SameDatum(o, g) = SameDatum(st, g)
      BY <1>3, <1>6, <2>2, <3>1 DEF SameDatum, Holders
    <3> QED BY <3>2, <3>3
  <2> QED BY <2>1, <2>2
<1> QED BY <1>2, <1>5, <1>7, <1>8, <1>9, <1>10, <1>11 DEF PtrSound, PtrExact, o

\* A copy, or the end of an assignment.
LEMMA ShareSound ==
    ASSUME NEW st, PtrSound(st), NEW h \in Pointer, st.ptr[h] = Null, NEW g \in Pointer
    PROVE  PtrSound(T!Share(st, h, g))
<1> DEFINE o == T!Share(st, h, g)
<1>1. /\ o.ptr = [st.ptr EXCEPT ![h] = st.ptr[g]]
      /\ o.holders = [st.holders EXCEPT ![h] = st.holders[g]]
      /\ o.data = st.data
      /\ o.sets = [l \in DOMAIN st.sets |->
                     st.sets[l] \cup IF l = st.holders[g] THEN {h} ELSE {}]
      /\ o = [ptr |-> o.ptr, holders |-> o.holders, data |-> o.data, sets |-> o.sets]
  <2> DEFINE s == [l \in DOMAIN st.sets |->
                     st.sets[l] \cup IF l = st.holders[g] THEN {h} ELSE {}]
  <2> HIDE DEF s
  <2>1. o = [st EXCEPT !.ptr[h] = st.ptr[g], !.holders[h] = st.holders[g], !.sets = s]
    BY DEF T!Share, s
  <2>2. o = [ptr |-> [st.ptr EXCEPT ![h] = st.ptr[g]],
             holders |-> [st.holders EXCEPT ![h] = st.holders[g]],
             data |-> st.data, sets |-> s]
    BY <2>1 DEF PtrSound, PtrType
  <2> QED BY <2>2 DEF s
<1> HIDE DEF o
<1>2. PtrType(o)
  BY <1>1 DEF PtrSound, PtrType
<1>3. /\ o.ptr[h] = st.ptr[g] /\ o.holders[h] = st.holders[g]
      /\ \A i \in Pointer : i # h => o.ptr[i] = st.ptr[i] /\ o.holders[i] = st.holders[i]
      /\ o.ptr[g] = st.ptr[g] /\ o.holders[g] = st.holders[g]
  BY <1>1 DEF PtrSound, PtrType
<1>4. CASE g \in Holders(st)
  <2>1. Holders(o) = Holders(st) \cup {h} /\ h \notin Holders(st) /\ g # h
    BY <1>3, <1>4 DEF Holders
  <2>2. PtrFinite(o)
    BY <2>1, FS_AddElement DEF PtrFinite, PtrSound
  <2>3. PtrData(o) /\ PtrSets(o)
    BY <1>1, <1>3, <1>4, <2>1 DEF PtrData, PtrSets, PtrSound
  <2>4. PtrNull(o)
    BY <1>1, <1>3 DEF PtrNull, PtrSound
  <2>5. PtrPaired(o)
    BY <1>3, <1>4, <2>1 DEF PtrPaired, PtrSound, Holders
  <2>6. ASSUME NEW i \in Holders(o) PROVE o.sets[o.holders[i]] = SameDatum(o, i)
    <3> DEFINE j == IF i = h THEN g ELSE i
    <3>1. /\ j \in Holders(st) /\ st.holders[j] \in DOMAIN st.sets
          /\ o.holders[i] = st.holders[j] /\ o.ptr[i] = st.ptr[j]
      BY <1>3, <1>4, <2>1 DEF PtrSound, PtrSets, Holders
    <3>2. st.sets[st.holders[j]] = SameDatum(st, j)
      BY <3>1 DEF PtrSound, PtrExact
    <3>3. CASE st.ptr[j] = st.ptr[g]
      <4>1. st.holders[j] = st.holders[g]
        BY <1>4, <3>1, <3>3 DEF PtrSound, PtrPaired
      <4>2. o.sets[o.holders[i]] = SameDatum(st, j) \cup {h}
        BY <1>1, <3>1, <3>2, <4>1
      <4>3. SameDatum(o, i) = SameDatum(st, j) \cup {h}
        BY <1>3, <3>1, <3>3 DEF SameDatum, Holders
      <4> QED BY <4>2, <4>3
    <3>4. CASE st.ptr[j] # st.ptr[g]
      <4>1. st.holders[j] # st.holders[g]
        BY <1>4, <3>1, <3>4 DEF PtrSound, PtrPaired
      <4>2. o.sets[o.holders[i]] = SameDatum(st, j)
        <5>1. o.sets[st.holders[j]] = st.sets[st.holders[j]] \cup {}
          BY <1>1, <3>1, <4>1
        <5> QED BY <3>1, <3>2, <5>1
      <4>3. SameDatum(o, i) = SameDatum(st, j)
        BY <1>3, <3>1, <3>4 DEF SameDatum, Holders
      <4> QED BY <4>2, <4>3
    <3> QED BY <3>3, <3>4
  <2> QED BY <1>2, <2>2, <2>3, <2>4, <2>5, <2>6 DEF PtrSound, PtrExact, o
<1>5. CASE g \notin Holders(st)
  <2>1. st.ptr[g] = Null /\ st.holders[g] = Null /\ st.holders[h] = Null
    BY <1>5 DEF Holders, PtrSound, PtrNull
  <2>2. o.ptr = st.ptr /\ o.holders = st.holders
    BY <1>1, <2>1 DEF PtrSound, PtrType
  <2>3. Null \notin DOMAIN st.sets
    BY DEF PtrSound, PtrSets, PtrNull, Holders
  <2>4. o.sets = st.sets
    BY <1>1, <2>1, <2>3 DEF PtrSound, PtrType
  <2>5. o = st
    BY <1>1, <2>2, <2>4 DEF PtrSound, PtrType
  <2> QED BY <2>5 DEF o
<1> QED BY <1>4, <1>5

LEMMA SharePtr ==
    ASSUME NEW st, PtrSound(st), NEW h \in Pointer, NEW g \in Pointer
    PROVE  T!Share(st, h, g).ptr = [st.ptr EXCEPT ![h] = st.ptr[g]]
BY DEF T!Share, PtrSound, PtrType

\* clean_(): h holds nothing any more, and what it held is deleted exactly when
\* nobody else holds it.
LEMMA CleanSound ==
    ASSUME NEW st, PtrSound(st), NEW h \in Pointer
    PROVE  /\ PtrSound(T!Clean(st, h))
           /\ T!Clean(st, h).ptr = [st.ptr EXCEPT ![h] = Null]
<1> DEFINE o == T!Clean(st, h)
           k == st.holders[h]
<1>1. CASE st.ptr[h] = Null
  BY <1>1 DEF T!Clean, PtrSound, PtrType
<1>2. CASE st.ptr[h] # Null
  <2>1. /\ h \in Holders(st) /\ k \in DOMAIN st.sets /\ st.sets[k] = SameDatum(st, h)
        /\ SameDatum(st, h) \subseteq Holders(st) /\ h \in SameDatum(st, h)
    BY <1>2 DEF Holders, PtrSound, PtrSets, PtrExact, SameDatum
  <2>2. IsFiniteSet(st.sets[k])
    BY <2>1, FS_Subset DEF PtrSound, PtrFinite
  <2>3. Cardinality(st.sets[k]) = 1 <=> st.sets[k] = {h}
    BY <2>1, <2>2, FS_Singleton
  <2>4. /\ o.ptr = [st.ptr EXCEPT ![h] = Null]
        /\ o.holders = [st.holders EXCEPT ![h] = Null]
        /\ o = [ptr |-> o.ptr, holders |-> o.holders, data |-> o.data, sets |-> o.sets]
        /\ SameDatum(st, h) = {h} =>
             /\ o.data = st.data \ {st.ptr[h]}
             /\ o.sets = [l \in DOMAIN st.sets \ {k} |-> st.sets[l]]
        /\ SameDatum(st, h) # {h} =>
             /\ o.data = st.data
             /\ o.sets = [st.sets EXCEPT ![k] = @ \ {h}]
    <3> DEFINE only == SameDatum(st, h) = {h}
               left == [st.sets EXCEPT ![k] = @ \ {h}]
               rest == [l \in DOMAIN st.sets \ {k} |-> st.sets[l]]
    <3>1. o = [ptr |-> [st.ptr EXCEPT ![h] = Null],
               holders |-> [st.holders EXCEPT ![h] = Null],
               data |-> IF only THEN st.data \ {st.ptr[h]} ELSE st.data,
               sets |-> IF only THEN rest ELSE left]
      <4>1. only <=> Cardinality(st.sets[k]) = 1
        BY <2>1, <2>3
      <4>2. CASE Cardinality(st.sets[k]) = 1
        BY <1>2, <4>1, <4>2, SameCardinality DEF T!Clean
      <4>3. CASE Cardinality(st.sets[k]) # 1
        BY <1>2, <4>1, <4>3, SameCardinality DEF T!Clean
      <4> QED BY <4>2, <4>3
    <3> HIDE DEF only, left, rest
    <3>2. /\ o.ptr = [st.ptr EXCEPT ![h] = Null]
          /\ o.holders = [st.holders EXCEPT ![h] = Null]
          /\ o = [ptr |-> o.ptr, holders |-> o.holders, data |-> o.data, sets |-> o.sets]
          /\ only => o.data = st.data \ {st.ptr[h]} /\ o.sets = rest
          /\ ~ only => o.data = st.data /\ o.sets = left
      BY <3>1
    <3> QED BY <3>2 DEF only, left, rest
  <2> HIDE DEF o
  <2>5. PtrType(o)
    BY <2>4 DEF PtrSound, PtrType
  <2>6. /\ o.ptr[h] = Null /\ o.holders[h] = Null
        /\ \A i \in Pointer : i # h => o.ptr[i] = st.ptr[i] /\ o.holders[i] = st.holders[i]
    BY <2>4 DEF PtrSound, PtrType
  <2>7. Holders(o) = Holders(st) \ {h}
    BY <2>6 DEF Holders
  <2>8. PtrFinite(o)
    BY <2>7, FS_RemoveElement DEF PtrFinite, PtrSound
  <2>9. PtrNull(o)
    BY <2>6 DEF PtrNull, PtrSound
  <2>10. PtrPaired(o)
    BY <2>6, <2>7 DEF PtrPaired, PtrSound, Holders
  <2>11. CASE SameDatum(st, h) = {h}
    <3>1. \A i \in Holders(o) : st.ptr[i] # st.ptr[h] /\ st.holders[i] # k /\ i # h /\ i \in Holders(st)
      BY <2>1, <2>7, <2>11 DEF SameDatum, PtrSound, PtrPaired, Holders
    <3>2. PtrData(o)
      BY <2>4, <2>6, <2>7, <2>11, <3>1 DEF PtrData, PtrSound
    <3>3. PtrSets(o)
      BY <2>1, <2>4, <2>6, <2>7, <2>11, <3>1 DEF PtrSets, PtrSound
    <3>4. ASSUME NEW i \in Holders(o) PROVE o.sets[o.holders[i]] = SameDatum(o, i)
      <4>1. o.sets[o.holders[i]] = SameDatum(st, i)
        BY <2>4, <2>6, <2>11, <3>1 DEF PtrSound, PtrExact, PtrSets
      <4>2. SameDatum(o, i) = SameDatum(st, i)
        BY <2>6, <2>7, <3>1 DEF SameDatum, Holders
      <4> QED BY <4>1, <4>2
    <3> QED BY <2>4, <2>5, <2>8, <2>9, <2>10, <3>2, <3>3, <3>4 DEF PtrSound, PtrExact, o
  <2>12. CASE SameDatum(st, h) # {h}
    <3>1. PICK g \in SameDatum(st, h) : g # h
      BY <2>1, <2>12
    <3>2. g \in Holders(o) /\ st.ptr[g] = st.ptr[h] /\ st.holders[g] = k
      BY <2>1, <2>7, <3>1 DEF SameDatum, PtrSound, PtrPaired
    <3>3. PtrData(o)
      BY <2>4, <2>6, <2>7, <2>12, <3>1, <3>2 DEF PtrData, PtrSound
    <3>4. PtrSets(o)
      BY <2>4, <2>6, <2>7, <2>12, <3>1, <3>2 DEF PtrSets, PtrSound, PtrType
    <3>5. ASSUME NEW i \in Holders(o) PROVE o.sets[o.holders[i]] = SameDatum(o, i)
      <4>1. /\ i # h /\ i \in Holders(st) /\ st.sets[st.holders[i]] = SameDatum(st, i)
            /\ st.holders[i] \in DOMAIN st.sets
        BY <2>7 DEF PtrSound, PtrExact, PtrSets
      <4>2. SameDatum(o, i) = SameDatum(st, i) \ {h}
        BY <2>6, <2>7, <4>1 DEF SameDatum, Holders
      <4>3. CASE st.holders[i] = k
        BY <2>4, <2>6, <2>12, <4>1, <4>2, <4>3 DEF PtrSound, PtrType
      <4>4. CASE st.holders[i] # k
        <5>1. h \notin SameDatum(st, i)
          BY <2>1, <4>1, <4>4 DEF SameDatum, PtrSound, PtrPaired
        <5> QED BY <2>4, <2>6, <2>12, <4>1, <4>2, <4>4, <5>1 DEF PtrSound, PtrType
      <4> QED BY <4>3, <4>4
    <3> QED BY <2>4, <2>5, <2>8, <2>9, <2>10, <3>3, <3>4, <3>5 DEF PtrSound, PtrExact, o
  <2> QED BY <2>11, <2>12
<1> QED BY <1>1, <1>2

PtrInv ==
    /\ PtrSound(mem)
    /\ alive \subseteq Pointer
    /\ \A h \in Pointer \ alive : mem.ptr[h] = Null

LEMMA PtrInit == T!Init => PtrInv
<1> SUFFICES ASSUME T!Init PROVE PtrInv
  OBVIOUS
<1>1. /\ mem.ptr = [h \in Pointer |-> Null] /\ mem.holders = [h \in Pointer |-> Null]
      /\ mem.data = {} /\ mem.sets = <<>> /\ alive = {}
      /\ mem = [ptr |-> mem.ptr, holders |-> mem.holders, data |-> mem.data,
                sets |-> mem.sets]
  BY DEF T!Init
<1>2. Holders(mem) = {}
  BY <1>1 DEF Holders
<1>3. PtrFinite(mem)
  BY <1>2, FS_EmptySet DEF PtrFinite
<1>4. PtrType(mem)
  BY <1>1 DEF PtrType
<1>5. PtrData(mem) /\ PtrSets(mem) /\ PtrNull(mem) /\ PtrExact(mem) /\ PtrPaired(mem)
  BY <1>1, <1>2 DEF PtrData, PtrSets, PtrNull, PtrExact, PtrPaired
<1> QED BY <1>1, <1>3, <1>4, <1>5 DEF PtrInv, PtrSound

LEMMA PtrStep ==
    ASSUME PtrInv, [T!Next]_(T!vars)
    PROVE  PtrInv'
<1> USE DEF PtrInv
<1>0. mem.ptr \in [Pointer -> Datum \cup {Null}]
  BY DEF PtrSound, PtrType
<1>1. ASSUME NEW h \in Pointer, T!Construct(h) PROVE PtrInv'
  <2>1. mem.ptr[h] = Null /\ alive' = alive \cup {h}
    BY <1>1 DEF T!Construct
  <2>2. CASE UNCHANGED mem
    BY <2>1, <2>2
  <2>3. ASSUME NEW dd \in Datum \ mem.data, NEW k \in HolderSet \ DOMAIN mem.sets,
               mem' = T!Own(mem, h, dd, k)
        PROVE  PtrInv'
    <3>1. PtrSound(mem')
      BY <2>1, <2>3, OwnSound
    <3>2. mem'.ptr = [mem.ptr EXCEPT ![h] = dd]
      BY <2>3 DEF T!Own
    <3> QED BY <1>0, <2>1, <3>1, <3>2
  <2> QED BY <1>1, <2>2, <2>3 DEF T!Construct, T!FreshDatum, T!FreshSet
<1>2. ASSUME NEW h \in Pointer, NEW g \in Pointer, T!ConstructCopy(h, g) PROVE PtrInv'
  <2>1. /\ mem.ptr[h] = Null /\ alive' = alive \cup {h}
        /\ mem' = T!Share(mem, h, g)
    BY <1>2 DEF T!ConstructCopy
  <2>2. PtrSound(mem')
    BY <2>1, ShareSound
  <2>3. mem'.ptr = [mem.ptr EXCEPT ![h] = mem.ptr[g]]
    BY <2>1, SharePtr
  <2> QED BY <1>0, <2>1, <2>2, <2>3
<1>3. ASSUME NEW h \in Pointer, NEW g \in Pointer, T!Assign(h, g) PROVE PtrInv'
  <2>1. CASE mem.ptr[h] = mem.ptr[g]
    BY <1>3, <2>1 DEF T!Assign
  <2>2. CASE mem.ptr[h] # mem.ptr[g]
    <3> DEFINE c == T!Clean(mem, h)
    <3>1. PtrSound(c) /\ c.ptr = [mem.ptr EXCEPT ![h] = Null]
      BY CleanSound
    <3> HIDE DEF c
    <3>2. c.ptr[h] = Null
      BY <1>0, <3>1
    <3>3. mem' = T!Share(c, h, g) /\ alive' = alive /\ h \in alive
      BY <1>3, <2>2 DEF T!Assign, c
    <3>4. PtrSound(T!Share(c, h, g))
      BY <3>1, <3>2, ShareSound
    <3>5. T!Share(c, h, g).ptr = [c.ptr EXCEPT ![h] = c.ptr[g]]
      BY <3>1 DEF T!Share, PtrSound, PtrType
    <3> QED BY <1>0, <3>1, <3>3, <3>4, <3>5
  <2> QED BY <2>1, <2>2
<1>4. ASSUME NEW h \in Pointer, T!AssignPtr(h) PROVE PtrInv'
  <2> DEFINE c == T!Clean(mem, h)
  <2>1. PtrSound(c) /\ c.ptr = [mem.ptr EXCEPT ![h] = Null]
    BY CleanSound
  <2> HIDE DEF c
  <2>2. alive' = alive /\ h \in alive /\ c.ptr[h] = Null
    BY <1>0, <1>4, <2>1 DEF T!AssignPtr
  <2>3. CASE mem' = c
    BY <1>0, <2>1, <2>2, <2>3
  <2>4. ASSUME NEW dd \in Datum \ mem.data, NEW k \in HolderSet \ DOMAIN c.sets,
               mem' = T!Own(c, h, dd, k)
        PROVE  PtrInv'
    <3>1. c.data \subseteq mem.data
      BY DEF T!Clean, c
    <3>2. PtrSound(mem')
      BY <2>1, <2>2, <2>4, <3>1, OwnSound
    <3>3. mem'.ptr = [c.ptr EXCEPT ![h] = dd]
      BY <2>4 DEF T!Own
    <3> QED BY <1>0, <2>1, <2>2, <3>2, <3>3
  <2> QED BY <1>4, <2>3, <2>4 DEF T!AssignPtr, T!FreshDatum, T!FreshSet, c
<1>5. ASSUME NEW h \in Pointer, T!Destroy(h) PROVE PtrInv'
  <2>1. PtrSound(mem') /\ mem'.ptr = [mem.ptr EXCEPT ![h] = Null]
    BY <1>5, CleanSound DEF T!Destroy
  <2> QED BY <1>0, <1>5, <2>1 DEF T!Destroy
<1>6. CASE UNCHANGED T!vars
  BY <1>6 DEF T!vars
<1> QED BY <1>1, <1>2, <1>3, <1>4, <1>5, <1>6 DEF T!Next

\* A datum, and the set of its holders, live exactly as long as a tracked_ptr
\* holds it; each set is exactly that of the pointers to its datum.
THEOREM DataLives == MCSpec => []DataLiveWhileHeld
<1>1. PtrInv => DataLiveWhileHeld
  <2> SUFFICES ASSUME PtrInv PROVE DataLiveWhileHeld
    OBVIOUS
  <2>1. T!Holding = Holders(mem)
    BY DEF T!Holding, Holders, PtrInv
  <2>2. T!DataLiveWhileHeld
    BY <2>1 DEF T!DataLiveWhileHeld, PtrInv, PtrSound, PtrData, PtrSets
  <2>3. ASSUME NEW h \in alive, mem.ptr[h] # Null
        PROVE  mem.sets[mem.holders[h]] = {g \in alive : mem.ptr[g] = mem.ptr[h]}
    <3>1. mem.sets[mem.holders[h]] = SameDatum(mem, h)
      BY <2>3 DEF PtrInv, PtrSound, PtrExact, Holders
    <3> QED BY <2>3, <3>1 DEF SameDatum, PtrInv
  <2>4. T!HoldersAreExact
    BY <2>3 DEF T!HoldersAreExact, PtrInv, PtrSound, PtrNull
  <2> QED BY <2>2, <2>4 DEF DataLiveWhileHeld
<1> QED BY <1>1, PtrInit, PtrStep, EachContainer, PTL DEF T!Spec

-----------------------------------------------------------------------------
(* Numbers.                                                                 *)

LEMMA LeastNat ==
    ASSUME NEW N \in SUBSET Nat, N # {}
    PROVE  \E m \in N : \A n \in N : m <= n
<1>1. PICK m \in N : \A n \in N : ~ (<<n, m>> \in OpToRel(<, Nat))
  BY NatLessThanWellFounded, WFMin
<1>2. ASSUME NEW n \in N PROVE m <= n
  <2>1. ~ (n < m)
    BY <1>1 DEF OpToRel
  <2> QED BY <2>1
<1> QED BY <1>2

\* A finite set of numbers has a greatest element, by the least size of a set
\* that would not.
LEMMA GreatestOfFinite ==
    ASSUME NEW S \in SUBSET Int, IsFiniteSet(S), S # {}
    PROVE  \E m \in S : \A n \in S : m >= n
<1> DEFINE Greatest(R) == \E m \in R : \A n \in R : m >= n
           Bad == {R \in SUBSET S : R # {} /\ ~ Greatest(R)}
           Sizes == {Cardinality(R) : R \in Bad}
<1>1. \A R \in SUBSET S : IsFiniteSet(R) /\ Cardinality(R) \in Nat
  BY FS_Subset, FS_CardinalityType
<1>2. SUFFICES ASSUME Bad # {} PROVE FALSE
  <2> S \in SUBSET S
    OBVIOUS
  <2> QED BY <1>2
<1>3. PICK size \in Sizes : \A n \in Sizes : size <= n
  <2>1. Sizes \in SUBSET Nat /\ Sizes # {}
    BY <1>1, <1>2
  <2> HIDE DEF Sizes
  <2> QED BY <2>1, LeastNat
<1>4. PICK R \in Bad : \A Q \in Bad : Cardinality(R) <= Cardinality(Q)
  BY <1>3
<1>5. PICK n \in R : TRUE
  OBVIOUS
<1>6. IsFiniteSet(R) /\ Cardinality(R \ {n}) = Cardinality(R) - 1 /\ Cardinality(R) \in Nat
  BY <1>1, <1>5, FS_RemoveElement
<1>7. R \ {n} \notin Bad
  <2>1. ~ (Cardinality(R) <= Cardinality(R \ {n}))
    BY <1>6
  <2> QED BY <1>4, <2>1
<1>8. CASE R \ {n} = {}
  <2>1. \A k \in R : n >= k
    BY <1>5, <1>8
  <2> QED BY <1>5, <2>1
<1>9. CASE R \ {n} # {}
  <2>1. PICK m \in R \ {n} : \A k \in R \ {n} : m >= k
    BY <1>7, <1>9
  <2>2. CASE m >= n
    <3>1. \A k \in R : m >= k
      BY <2>1, <2>2
    <3> QED BY <2>1, <3>1
  <2>3. CASE ~ (m >= n)
    <3>1. \A k \in R : n >= k
      BY <1>5, <2>1, <2>3
    <3> QED BY <1>5, <3>1
  <2> QED BY <2>2, <2>3
<1> QED BY <1>8, <1>9

-----------------------------------------------------------------------------
(* p_priority: sequences of sites and of pairs.                             *)

Pairs == Prio \X Elem

\* What two sequences hold at a priority, joined.
LEMMA SitesOfConcat ==
    ASSUME NEW v, NEW T1 \in Seq(Elem), NEW T2 \in Seq(Elem),
           NEW L1 \in Seq(Pairs), NEW L2 \in Seq(Pairs),
           P!AreSitesAt(T1, v, L1), P!AreSitesAt(T2, v, L2)
    PROVE  P!AreSitesAt(T1 \o T2, v, L1 \o L2)
<1> DEFINE Ts == T1 \o T2
           L == L1 \o L2
<1>1. /\ Ts \in Seq(Elem) /\ Len(Ts) = Len(T1) + Len(T2) /\ Len(T1) \in Nat /\ Len(T2) \in Nat
      /\ L \in Seq(Pairs) /\ Len(L) = Len(L1) + Len(L2) /\ Len(L1) \in Nat /\ Len(L2) \in Nat
      /\ \A k \in 1..Len(Ts) : Ts[k] = IF k <= Len(T1) THEN T1[k] ELSE T2[k - Len(T1)]
      /\ \A k \in 1..Len(L) : L[k] = IF k <= Len(L1) THEN L1[k] ELSE L2[k - Len(L1)]
  OBVIOUS
<1> HIDE DEF Ts, L
<1>2. PICK p1 \in [1..Len(T1) -> 1..Len(L1)] :
        /\ \A j, k \in 1..Len(T1) : j < k => p1[j] < p1[k]
        /\ \A k \in 1..Len(T1) : L1[p1[k]] = <<v, T1[k]>>
        /\ \A i \in 1..Len(L1) : L1[i][1] = v => \E k \in 1..Len(T1) : p1[k] = i
  BY DEF P!AreSitesAt
<1>3. PICK p2 \in [1..Len(T2) -> 1..Len(L2)] :
        /\ \A j, k \in 1..Len(T2) : j < k => p2[j] < p2[k]
        /\ \A k \in 1..Len(T2) : L2[p2[k]] = <<v, T2[k]>>
        /\ \A i \in 1..Len(L2) : L2[i][1] = v => \E k \in 1..Len(T2) : p2[k] = i
  BY DEF P!AreSitesAt
<1> DEFINE pos == [k \in 1..Len(Ts) |-> IF k <= Len(T1) THEN p1[k]
                                         ELSE p2[k - Len(T1)] + Len(L1)]
<1>4. \A k \in 1..Len(Ts) : pos[k] = IF k <= Len(T1) THEN p1[k]
                                                    ELSE p2[k - Len(T1)] + Len(L1)
  OBVIOUS
<1>8. pos = [k \in 1..Len(Ts) |-> pos[k]]
  OBVIOUS
<1> HIDE DEF pos
<1>11. ASSUME NEW k \in 1..Len(Ts), k <= Len(T1)
      PROVE  /\ k \in 1..Len(T1) /\ pos[k] = p1[k] /\ pos[k] \in 1..Len(L1)
             /\ pos[k] \in 1..Len(L) /\ L[pos[k]] = L1[p1[k]] /\ Ts[k] = T1[k]
  <2>1. k \in 1..Len(T1) /\ pos[k] = p1[k] /\ Ts[k] = T1[k] /\ pos[k] \in 1..Len(L1)
    BY <1>1, <1>11, <1>4
  <2> QED BY <1>1, <2>1
<1>12. ASSUME NEW k \in 1..Len(Ts), ~ (k <= Len(T1))
      PROVE  /\ k - Len(T1) \in 1..Len(T2) /\ pos[k] = p2[k - Len(T1)] + Len(L1)
             /\ p2[k - Len(T1)] \in 1..Len(L2) /\ pos[k] \in 1..Len(L)
             /\ L[pos[k]] = L2[p2[k - Len(T1)]] /\ Ts[k] = T2[k - Len(T1)]
  <2>1. /\ k - Len(T1) \in 1..Len(T2) /\ pos[k] = p2[k - Len(T1)] + Len(L1)
        /\ Ts[k] = T2[k - Len(T1)]
    BY <1>1, <1>12, <1>4
  <2> DEFINE i == p2[k - Len(T1)]
  <2>2. i \in 1..Len(L2) /\ pos[k] = i + Len(L1)
    BY <2>1
  <2> HIDE DEF i
  <2>3. pos[k] \in 1..Len(L) /\ ~ (pos[k] <= Len(L1)) /\ pos[k] - Len(L1) = i
    BY <1>1, <2>2
  <2>4. L[pos[k]] = L2[i]
    BY <1>1, <2>3
  <2> QED BY <2>1, <2>2, <2>3, <2>4 DEF i
<1>5. pos \in [1..Len(Ts) -> 1..Len(L)]
  BY <1>11, <1>12, <1>8
<1>6. ASSUME NEW j \in 1..Len(Ts), NEW k \in 1..Len(Ts), j < k PROVE pos[j] < pos[k]
  <2>1. CASE k <= Len(T1)
    <3>1. j <= Len(T1) /\ j \in 1..Len(T1) /\ k \in 1..Len(T1)
      BY <1>1, <1>6, <2>1
    <3>2. pos[j] = p1[j] /\ pos[k] = p1[k]
      BY <1>11, <2>1, <3>1
    <3> QED BY <1>2, <1>6, <3>1, <3>2
  <2>2. CASE ~ (k <= Len(T1)) /\ j <= Len(T1)
    <3>1. pos[j] \in 1..Len(L1)
      BY <1>11, <2>2
    <3>2. pos[k] = p2[k - Len(T1)] + Len(L1) /\ p2[k - Len(T1)] \in 1..Len(L2)
      BY <1>12, <2>2
    <3> QED BY SMTT(30), <1>1, <3>1, <3>2
  <2>3. CASE ~ (k <= Len(T1)) /\ ~ (j <= Len(T1))
    <3>1. PICK k2 \in 1..Len(T2) : /\ k2 = k - Len(T1) /\ pos[k] = p2[k2] + Len(L1)
                                   /\ p2[k2] \in 1..Len(L2)
      BY <1>12, <2>3
    <3>2. PICK j2 \in 1..Len(T2) : /\ j2 = j - Len(T1) /\ pos[j] = p2[j2] + Len(L1)
                                   /\ p2[j2] \in 1..Len(L2)
      BY <1>12, <2>3
    <3>3. j2 < k2
      BY <1>1, <1>6, <3>1, <3>2
    <3>4. p2[j2] < p2[k2]
      BY <1>3, <3>3
    <3> QED BY <1>1, <3>1, <3>2, <3>4
  <2> QED BY <1>6, <2>1, <2>2, <2>3
<1>7. ASSUME NEW k \in 1..Len(Ts) PROVE L[pos[k]] = <<v, Ts[k]>>
  <2>1. CASE k <= Len(T1)
    BY <1>2, <1>11, <2>1
  <2>2. CASE ~ (k <= Len(T1))
    <3>1. PICK j \in 1..Len(T2) : /\ j = k - Len(T1) /\ L[pos[k]] = L2[p2[j]]
                                  /\ Ts[k] = T2[j]
      BY <1>12, <2>2
    <3> QED BY <1>3, <3>1
  <2> QED BY <2>1, <2>2
<1>9. ASSUME NEW i \in 1..Len(L), L[i][1] = v
      PROVE  \E k \in 1..Len(Ts) : pos[k] = i
  <2>1. CASE i <= Len(L1)
    <3>1. i \in 1..Len(L1) /\ L1[i][1] = v
      BY <1>1, <1>9, <2>1
    <3>2. PICK k \in 1..Len(T1) : p1[k] = i
      BY <1>2, <3>1
    <3>3. k \in 1..Len(Ts) /\ k <= Len(T1)
      BY <1>1
    <3> QED BY <1>11, <3>2, <3>3
  <2>2. CASE ~ (i <= Len(L1))
    <3>1. i - Len(L1) \in 1..Len(L2) /\ L2[i - Len(L1)][1] = v
      BY <1>1, <1>9, <2>2
    <3>2. PICK k \in 1..Len(T2) : p2[k] = i - Len(L1)
      BY <1>3, <3>1
    <3>3. /\ k + Len(T1) \in 1..Len(Ts) /\ ~ (k + Len(T1) <= Len(T1))
          /\ (k + Len(T1)) - Len(T1) = k
      BY <1>1
    <3>4. pos[k + Len(T1)] = p2[k] + Len(L1)
      BY <1>12, <3>3
    <3>5. pos[k + Len(T1)] = i
      BY <1>1, <3>2, <3>4
    <3> QED BY <3>3, <3>5
  <2> QED BY <2>1, <2>2
<1> QED BY <1>5, <1>6, <1>7, <1>9 DEF P!AreSitesAt, Ts, L

\* One pair holds one site at its priority, and none at another.
LEMMA SitesOfPair ==
    ASSUME NEW v \in Prio, NEW w1 \in Prio, NEW e \in Elem
    PROVE  P!AreSitesAt(IF w1 = v THEN <<e>> ELSE <<>>, v, <<<<w1, e>>>>)
<1> DEFINE L == <<<<w1, e>>>>
<1>1. Len(L) = 1 /\ L[1] = <<w1, e>> /\ 1..Len(L) = {1}
  OBVIOUS
<1> HIDE DEF L
<1>2. CASE w1 = v
  <2> DEFINE pos == [k \in 1..1 |-> 1]
  <2>1. Len(<<e>>) = 1 /\ <<e>>[1] = e
    OBVIOUS
  <2>2. /\ pos \in [1..Len(<<e>>) -> 1..Len(L)]
        /\ \A j, k \in 1..Len(<<e>>) : j < k => pos[j] < pos[k]
        /\ \A k \in 1..Len(<<e>>) : L[pos[k]] = <<v, <<e>>[k]>>
        /\ \A i \in 1..Len(L) : L[i][1] = v => \E k \in 1..Len(<<e>>) : pos[k] = i
    BY <1>1, <1>2, <2>1
  <2> QED BY ZenonT(60), <1>2, <2>2 DEF P!AreSitesAt, L
<1>3. CASE w1 # v
  <2> DEFINE pos == [k \in 1..0 |-> 1]
  <2>1. Len(<<>>) = 0
    OBVIOUS
  <2>2. /\ pos \in [1..Len(<<>>) -> 1..Len(L)]
        /\ \A j, k \in 1..Len(<<>>) : j < k => pos[j] < pos[k]
        /\ \A k \in 1..Len(<<>>) : L[pos[k]] = <<v, <<>>[k]>>
        /\ \A i \in 1..Len(L) : L[i][1] = v => \E k \in 1..Len(<<>>) : pos[k] = i
    BY <1>1, <1>3, <2>1
  <2> QED BY <1>3, <2>2 DEF P!AreSitesAt, L
<1> QED BY <1>2, <1>3

\* M is L without its pair at j, and the sites Ts of priority v follow.
Follows(M, Ts, v, L, j) ==
    /\ M \in Seq(Pairs) /\ Len(M) = Len(L) - 1
    /\ L[j][1] = v => /\ Ts # <<>> /\ L[j][2] = Ts[1]
                      /\ P!AreSitesAt(Tail(Ts), v, M)
    /\ L[j][1] # v => P!AreSitesAt(Ts, v, M)

IsFirst(L, j) == \A i \in 1..(j - 1) : L[i][1] # L[j][1]

\* The first of the sites of a priority goes, with its pair: the sites of this
\* priority lose their head, the sites of the other ones stay.
LEMMA SitesOfRemoved ==
    ASSUME NEW v, NEW Ts \in Seq(Elem), NEW L \in Seq(Pairs), P!AreSitesAt(Ts, v, L),
           NEW j \in 1..Len(L), IsFirst(L, j)
    PROVE  Follows(P!RemoveAt(L, j), Ts, v, L, j)
<1> DEFINE R == P!RemoveAt(L, j)
<1>1. /\ R \in Seq(Pairs) /\ Len(L) \in Nat /\ Len(R) = Len(L) - 1 /\ Len(Ts) \in Nat
      /\ \A k \in 1..Len(R) : R[k] = IF k < j THEN L[k] ELSE L[k + 1]
  <2>1. /\ SubSeq(L, 1, j - 1) \in Seq(Pairs) /\ Len(SubSeq(L, 1, j - 1)) = j - 1
        /\ \A k \in 1..(j - 1) : SubSeq(L, 1, j - 1)[k] = L[k]
    OBVIOUS
  <2>2. /\ SubSeq(L, j + 1, Len(L)) \in Seq(Pairs)
        /\ Len(SubSeq(L, j + 1, Len(L))) = Len(L) - j
        /\ \A k \in 1..(Len(L) - j) : SubSeq(L, j + 1, Len(L))[k] = L[j + k]
    OBVIOUS
  <2> DEFINE A == SubSeq(L, 1, j - 1)
             B == SubSeq(L, j + 1, Len(L))
  <2> HIDE DEF A, B
  <2>3. /\ A \in Seq(Pairs) /\ Len(A) = j - 1 /\ \A k \in 1..(j - 1) : A[k] = L[k]
        /\ B \in Seq(Pairs) /\ Len(B) = Len(L) - j
        /\ \A k \in 1..(Len(L) - j) : B[k] = L[j + k]
        /\ R = A \o B
    BY <2>1, <2>2 DEF A, B, P!RemoveAt
  <2>4. /\ R \in Seq(Pairs) /\ Len(R) = Len(L) - 1
        /\ \A k \in 1..Len(R) : R[k] = IF k <= j - 1 THEN A[k] ELSE B[k - (j - 1)]
    <3>1. /\ Len(A \o B) = Len(A) + Len(B) /\ A \o B \in Seq(Pairs)
          /\ \A k \in 1..(Len(A) + Len(B)) :
               (A \o B)[k] = IF k <= Len(A) THEN A[k] ELSE B[k - Len(A)]
      BY <2>3, ConcatProperties
    <3>2. Len(A) + Len(B) = Len(L) - 1
      BY <2>3
    <3> QED BY <2>3, <3>1, <3>2
  <2> HIDE DEF R
  <2>5. ASSUME NEW k \in 1..Len(R) PROVE R[k] = IF k < j THEN L[k] ELSE L[k + 1]
    <3>1. CASE k < j
      BY <2>3, <2>4, <3>1
    <3>2. CASE ~ (k < j)
      <4>1. k - (j - 1) \in 1..(Len(L) - j) /\ j + (k - (j - 1)) = k + 1
        BY <2>4, <3>2
      <4> QED BY <2>3, <2>4, <3>2, <4>1
    <3> QED BY <3>1, <3>2
  <2> QED BY <2>4, <2>5
<1> HIDE DEF R
<1>2. PICK p \in [1..Len(Ts) -> 1..Len(L)] :
        /\ \A i, k \in 1..Len(Ts) : i < k => p[i] < p[k]
        /\ \A k \in 1..Len(Ts) : L[p[k]] = <<v, Ts[k]>>
        /\ \A i \in 1..Len(L) : L[i][1] = v => \E k \in 1..Len(Ts) : p[k] = i
  BY DEF P!AreSitesAt
<1> DEFINE Down(i) == IF i < j THEN i ELSE i - 1
\* The positions of a suffix of Ts, all different from j.
<1>3. ASSUME NEW n \in {0, 1}, NEW S \in Seq(Elem), Len(S) = Len(Ts) - n,
             \A k \in 1..Len(S) : S[k] = Ts[k + n] /\ p[k + n] # j,
             n = 1 => p[1] = j
      PROVE  P!AreSitesAt(S, v, R)
  <2> DEFINE pos == [k \in 1..Len(S) |-> Down(p[k + n])]
  <2>1. ASSUME NEW k \in 1..Len(S)
        PROVE  /\ k + n \in 1..Len(Ts) /\ p[k + n] \in 1..Len(L) /\ p[k + n] # j
               /\ pos[k] = Down(p[k + n]) /\ pos[k] \in 1..Len(R)
               /\ R[pos[k]] = <<v, S[k]>>
    <3>1. k + n \in 1..Len(Ts)
      BY <1>1, <1>3
    <3>2. PICK i \in 1..Len(L) : i = p[k + n] /\ i # j /\ L[i] = <<v, S[k]>>
      <4>1. S[k] = Ts[k + n] /\ p[k + n] # j
        BY <1>3
      <4>2. L[p[k + n]] = <<v, Ts[k + n]>> /\ p[k + n] \in 1..Len(L)
        BY <1>2, <3>1
      <4> QED BY <4>1, <4>2
    <3>3. pos[k] = Down(i)
      BY <3>2
    <3>4. Down(i) \in 1..Len(R) /\ R[Down(i)] = L[i]
      <4>1. CASE i < j
        <5>1. i \in 1..Len(R)
          BY <1>1, <4>1
        <5> QED BY <1>1, <4>1, <5>1
      <4>2. CASE ~ (i < j)
        <5>1. i - 1 \in 1..Len(R) /\ ~ (i - 1 < j) /\ (i - 1) + 1 = i
          BY SMTT(30), <1>1, <3>2, <4>2
        <5> QED BY <1>1, <4>2, <5>1
      <4> QED BY <4>1, <4>2
    <3> QED BY <3>1, <3>2, <3>3, <3>4
  <2>2. pos \in [1..Len(S) -> 1..Len(R)]
    BY <2>1
  <2>3. ASSUME NEW m \in 1..Len(S), NEW k \in 1..Len(S), m < k PROVE pos[m] < pos[k]
    <3>1. PICK i1 \in 1..Len(L) : i1 = p[m + n] /\ i1 # j /\ pos[m] = Down(i1)
      BY <2>1
    <3>2. PICK i2 \in 1..Len(L) : i2 = p[k + n] /\ i2 # j /\ pos[k] = Down(i2)
      BY <2>1
    <3>3. m + n \in 1..Len(Ts) /\ k + n \in 1..Len(Ts) /\ m + n < k + n
      BY <2>1, <2>3
    <3>4. i1 < i2
      BY <1>2, <3>1, <3>2, <3>3
    <3> QED BY <3>1, <3>2, <3>4
  <2>4. ASSUME NEW i \in 1..Len(R), R[i][1] = v
        PROVE  \E k \in 1..Len(S) : pos[k] = i
    <3> DEFINE u == IF i < j THEN i ELSE i + 1
    <3>1. u \in 1..Len(L) /\ L[u][1] = v /\ Down(u) = i /\ u # j
      BY <1>1, <2>4
    <3> HIDE DEF u
    <3>2. PICK k \in 1..Len(Ts) : p[k] = u
      BY <1>2, <3>1
    <3>3. k - n \in 1..Len(S) /\ (k - n) + n = k
      BY <1>1, <1>3, <3>1, <3>2
    <3>4. pos[k - n] = Down(p[(k - n) + n])
      BY <2>1, <3>3
    <3>5. pos[k - n] = i
      BY <3>1, <3>2, <3>3, <3>4
    <3> QED BY <3>3, <3>5
  <2> HIDE DEF pos
  <2> QED BY <2>1, <2>2, <2>3, <2>4 DEF P!AreSitesAt
<1>4. CASE L[j][1] = v
  <2>1. PICK k \in 1..Len(Ts) : p[k] = j
    BY <1>2, <1>4
  <2>2. k = 1
    <3>1. SUFFICES ASSUME k # 1 PROVE FALSE
      OBVIOUS
    <3>2. 1 \in 1..Len(Ts) /\ 1 < k
      BY <1>1, <3>1
    <3>3. p[1] \in 1..(j - 1) /\ L[p[1]][1] = v
      BY <1>2, <2>1, <3>2
    <3> QED BY <1>4, <3>3 DEF IsFirst
  <2>3. Ts # <<>> /\ L[j][2] = Ts[1]
    BY <1>2, <2>1, <2>2
  <2>4. /\ Tail(Ts) \in Seq(Elem) /\ Len(Tail(Ts)) = Len(Ts) - 1
        /\ \A i \in 1..Len(Tail(Ts)) : Tail(Ts)[i] = Ts[i + 1]
    BY <2>3
  <2>5. ASSUME NEW i \in 1..Len(Tail(Ts)) PROVE p[i + 1] # j
    <3>1. i + 1 \in 1..Len(Ts) /\ 1 \in 1..Len(Ts) /\ 1 < i + 1
      BY <1>1, <2>4
    <3>2. p[1] < p[i + 1]
      BY <1>2, <3>1
    <3> QED BY <2>1, <2>2, <3>1, <3>2
  <2>6. P!AreSitesAt(Tail(Ts), v, R)
    BY <1>3, <2>1, <2>2, <2>4, <2>5
  <2> QED BY <1>1, <1>4, <2>3, <2>6 DEF R, Follows
<1>5. CASE L[j][1] # v
  <2>1. ASSUME NEW k \in 1..Len(Ts) PROVE Ts[k] = Ts[k + 0] /\ p[k + 0] # j
    <3>1. k + 0 = k /\ L[p[k]][1] = v
      BY <1>2
    <3> QED BY <1>5, <3>1
  <2>2. Len(Ts) = Len(Ts) - 0
    BY <1>1
  <2>3. P!AreSitesAt(Ts, v, R)
    <3>1. 0 \in {0, 1} /\ 0 # 1
      OBVIOUS
    <3>2. \A k \in 1..Len(Ts) : Ts[k] = Ts[k + 0] /\ p[k + 0] # j
      BY <2>1
    <3> QED BY <1>3, <2>2, <3>1, <3>2
  <2> QED BY <1>1, <1>5, <2>3 DEF R, Follows
<1> QED BY <1>4, <1>5

-----------------------------------------------------------------------------
(* p_priority: queues that have never been cleared.                         *)

LiveQueue(Q) ==
    /\ Q = [q |-> Q.q, begin |-> Q.begin, end |-> Q.end]
    /\ Q.q \in Seq(Elem) /\ Q.begin \in Nat /\ Q.end = Len(Q.q)
    /\ Q.begin <= Q.end

LEMMA SitesOfLive ==
    ASSUME NEW Q, LiveQueue(Q)
    PROVE  /\ P!QueueSites(Q) \in Seq(Elem)
           /\ Len(P!QueueSites(Q)) = Q.end - Q.begin /\ Q.end \in Nat
           /\ \A k \in 1..(Q.end - Q.begin) :
                P!QueueSites(Q)[k] = Q.q[Q.begin + k] /\ Q.begin + k \in 1..Len(Q.q)
<1>1. Q.end \in Nat /\ Q.end - Q.begin \in Nat
  BY DEF LiveQueue
<1>2. \A k \in 1..(Q.end - Q.begin) : Q.begin + (k - 1) + 1 = Q.begin + k
                                      /\ Q.begin + k \in 1..Len(Q.q)
  BY <1>1 DEF LiveQueue
<1>3. P!QueueSites(Q) = [k \in 1..(Q.end - Q.begin) |-> Q.q[Q.begin + (k - 1) + 1]]
  BY DEF P!QueueSites, P!QueueNsites, P!QueueAt
<1>4. \A k \in 1..(Q.end - Q.begin) : Q.q[Q.begin + (k - 1) + 1] \in Elem
  BY <1>2 DEF LiveQueue
<1>5. P!QueueSites(Q) \in Seq(Elem) /\ Len(P!QueueSites(Q)) = Q.end - Q.begin
  BY <1>1, <1>3, <1>4
<1>6. ASSUME NEW k \in 1..(Q.end - Q.begin)
      PROVE  P!QueueSites(Q)[k] = Q.q[Q.begin + k]
  <2>1. P!QueueSites(Q)[k] = Q.q[Q.begin + (k - 1) + 1]
    BY <1>3
  <2> QED BY <1>2, <2>1
<1> QED BY <1>1, <1>2, <1>5, <1>6

LEMMA EmptyIsLive == LiveQueue(P!EmptyQueue) /\ P!QueueSites(P!EmptyQueue) = <<>>
<1>1. LiveQueue(P!EmptyQueue) /\ P!EmptyQueue.end - P!EmptyQueue.begin = 0
  BY DEF LiveQueue, P!EmptyQueue
<1>2. P!QueueSites(P!EmptyQueue) \in Seq(Elem) /\ Len(P!QueueSites(P!EmptyQueue)) = 0
  BY <1>1, SitesOfLive
<1> QED BY <1>1, <1>2

LEMMA PushAllSites ==
    ASSUME NEW Q, LiveQueue(Q), NEW S \in Seq(Elem)
    PROVE  /\ LiveQueue(P!QueuePushAll(Q, S))
           /\ P!QueueSites(P!QueuePushAll(Q, S)) = P!QueueSites(Q) \o S
<1> DEFINE R == P!QueuePushAll(Q, S)
           sites == P!QueueSites(Q)
<1>1. R.q = Q.q \o S /\ R.begin = Q.begin /\ R.end = Q.end + Len(S)
      /\ R = [q |-> R.q, begin |-> R.begin, end |-> R.end]
  BY DEF P!QueuePushAll
<1>2. LiveQueue(R)
  BY <1>1 DEF LiveQueue
<1>3. /\ sites \in Seq(Elem) /\ Len(sites) = Q.end - Q.begin
      /\ \A k \in 1..(Q.end - Q.begin) : sites[k] = Q.q[Q.begin + k]
  BY SitesOfLive
<1>4. /\ P!QueueSites(R) \in Seq(Elem) /\ Len(P!QueueSites(R)) = R.end - R.begin
      /\ \A k \in 1..(R.end - R.begin) : P!QueueSites(R)[k] = R.q[R.begin + k]
  BY <1>2, SitesOfLive
<1> HIDE DEF R, sites
<1>5. /\ Q.q \in Seq(Elem) /\ Q.begin \in Nat /\ Q.end = Len(Q.q) /\ Q.end \in Nat
      /\ Q.begin <= Q.end /\ Len(S) \in Nat
  BY DEF LiveQueue
<1>6. Len(P!QueueSites(R)) = Len(sites) + Len(S)
  BY <1>1, <1>3, <1>4, <1>5
<1>7. ASSUME NEW k \in 1..(Len(sites) + Len(S))
      PROVE  P!QueueSites(R)[k] = IF k <= Len(sites) THEN sites[k] ELSE S[k - Len(sites)]
  <2>1. P!QueueSites(R)[k] = (Q.q \o S)[Q.begin + k] /\ Q.begin + k \in 1..(Q.end + Len(S))
    <3>1. k \in 1..(R.end - R.begin)
      BY <1>4, <1>6, <1>7
    <3>2. Q.begin + k \in 1..(Q.end + Len(S))
      BY <1>3, <1>5
    <3> QED BY <1>1, <1>4, <3>1, <3>2
  <2>2. (Q.q \o S)[Q.begin + k] = IF Q.begin + k <= Q.end THEN Q.q[Q.begin + k]
                                   ELSE S[Q.begin + k - Q.end]
    BY SMTT(30), <1>5, <2>1, ConcatProperties
  <2>3. CASE k <= Len(sites)
    BY <1>3, <1>5, <2>1, <2>2, <2>3
  <2>4. CASE ~ (k <= Len(sites))
    <3>1. ~ (Q.begin + k <= Q.end) /\ Q.begin + k - Q.end = k - Len(sites)
      BY <1>3, <1>5, <2>4
    <3> QED BY <2>1, <2>2, <2>4, <3>1
  <2> QED BY <2>3, <2>4
<1>8. P!QueueSites(R) = sites \o S
  <2>1. /\ sites \o S \in Seq(Elem) /\ Len(sites \o S) = Len(sites) + Len(S)
        /\ \A k \in 1..(Len(sites) + Len(S)) :
             (sites \o S)[k] = IF k <= Len(sites) THEN sites[k] ELSE S[k - Len(sites)]
    BY <1>3, ConcatProperties
  <2> QED BY <1>4, <1>6, <1>7, <2>1, SeqEqual
<1> QED BY <1>2, <1>8 DEF R, sites

LEMMA PushSites ==
    ASSUME NEW Q, LiveQueue(Q), NEW e \in Elem
    PROVE  /\ LiveQueue(P!QueuePush(Q, e))
           /\ P!QueueSites(P!QueuePush(Q, e)) = P!QueueSites(Q) \o <<e>>
<1>1. <<e>> \in Seq(Elem) /\ Len(<<e>>) = 1
  OBVIOUS
<1>2. P!QueuePush(Q, e) = P!QueuePushAll(Q, <<e>>)
  <2>1. Append(Q.q, e) = Q.q \o <<e>>
    BY AppendIsConcat DEF LiveQueue
  <2> QED BY <1>1, <2>1 DEF P!QueuePush, P!QueuePushAll
<1> QED BY <1>1, <1>2, PushAllSites

LEMMA PopSites ==
    ASSUME NEW Q, LiveQueue(Q), Q.begin < Q.end
    PROVE  /\ LiveQueue(P!QueuePop(Q))
           /\ P!QueuePop(Q).end = Q.end /\ P!QueuePop(Q).begin = Q.begin + 1
           /\ P!QueueSites(P!QueuePop(Q)) = Tail(P!QueueSites(Q))
           /\ P!QueueFront(Q) = P!QueueSites(Q)[1]
<1> DEFINE R == P!QueuePop(Q)
           sites == P!QueueSites(Q)
<1>0. /\ Q.q \in Seq(Elem) /\ Q.begin \in Nat /\ Q.end = Len(Q.q) /\ Q.end \in Nat
      /\ Q.begin <= Q.end
  BY DEF LiveQueue
<1>1. R.q = Q.q /\ R.begin = Q.begin + 1 /\ R.end = Q.end
      /\ R = [q |-> R.q, begin |-> R.begin, end |-> R.end]
  BY DEF P!QueuePop, LiveQueue
<1>2. LiveQueue(R)
  BY <1>0, <1>1 DEF LiveQueue
<1>3. /\ sites \in Seq(Elem) /\ Len(sites) = Q.end - Q.begin
      /\ \A k \in 1..(Q.end - Q.begin) : sites[k] = Q.q[Q.begin + k]
  BY SitesOfLive
<1>4. /\ P!QueueSites(R) \in Seq(Elem) /\ Len(P!QueueSites(R)) = R.end - R.begin
      /\ \A k \in 1..(R.end - R.begin) : P!QueueSites(R)[k] = R.q[R.begin + k]
  BY <1>2, SitesOfLive
<1> HIDE DEF R, sites
<1>5. /\ Tail(sites) \in Seq(Elem) /\ Len(Tail(sites)) = Len(sites) - 1
      /\ \A k \in 1..(Len(sites) - 1) : Tail(sites)[k] = sites[k + 1]
  <2>1. sites # <<>>
    BY <1>0, <1>3
  <2> QED BY <1>3, <2>1, HeadTailProperties
<1>6. Len(P!QueueSites(R)) = Len(sites) - 1
  BY <1>0, <1>1, <1>3, <1>4
<1>7. ASSUME NEW k \in 1..(Len(sites) - 1) PROVE P!QueueSites(R)[k] = Tail(sites)[k]
  <2>1. /\ k + 1 \in 1..(Q.end - Q.begin) /\ k \in 1..(R.end - R.begin)
        /\ R.begin + k = Q.begin + (k + 1)
    <3>1. k + 1 \in 1..(Q.end - Q.begin)
      BY <1>0, <1>3
    <3>2. R.end - R.begin = Len(sites) - 1
      BY <1>0, <1>1, <1>3
    <3>3. R.begin + k = Q.begin + (k + 1)
      BY <1>0, <1>1
    <3> QED BY <3>1, <3>2, <3>3
  <2> QED BY <1>1, <1>3, <1>4, <1>5, <2>1
<1>8. P!QueueSites(R) = Tail(sites)
  BY <1>4, <1>5, <1>6, <1>7, SeqEqual
<1>9. P!QueueFront(Q) = sites[1]
  <2>1. Q.begin + 0 + 1 = Q.begin + 1 /\ 1 \in 1..(Q.end - Q.begin)
    BY <1>0
  <2> QED BY <1>3, <2>1 DEF P!QueueFront, P!QueueAt
<1> QED BY <1>1, <1>2, <1>8, <1>9 DEF R, sites

-----------------------------------------------------------------------------
(* p_priority: the calls.                                                   *)

SitesAt(Pq, v) == P!QueueSites(P!PriorityAt(Pq, v))

\* The p_priority Pq stands for the pairs L.
PrioType(Pq) ==
    /\ Pq = [p |-> Pq.p, q |-> Pq.q, n |-> Pq.n]
    /\ Pq.p \subseteq Prio /\ IsFiniteSet(Pq.p)
    /\ Pq.q = [v \in Pq.p |-> Pq.q[v]]
PrioQueues(Pq) ==
    \A v \in Pq.p : LiveQueue(Pq.q[v]) /\ Pq.q[v].begin < Pq.q[v].end
PrioSound(Pq, L) ==
    /\ PrioType(Pq)
    /\ PrioQueues(Pq)
    /\ L \in Seq(Pairs) /\ Pq.n = Len(L)
    /\ \A v \in Prio : P!AreSitesAt(SitesAt(Pq, v), v, L)

\* The queue at a priority, in use or not.
LEMMA QueueAtPriority ==
    ASSUME NEW Pq, NEW L, PrioSound(Pq, L), NEW v
    PROVE  /\ P!QueueOf(Pq, v) = P!PriorityAt(Pq, v)
           /\ LiveQueue(P!PriorityAt(Pq, v))
           /\ SitesAt(Pq, v) \in Seq(Elem)
           /\ v \in Pq.p => /\ P!PriorityAt(Pq, v) = Pq.q[v]
                            /\ SitesAt(Pq, v) # <<>>
           /\ v \notin Pq.p => SitesAt(Pq, v) = <<>>
<1>1. DOMAIN Pq.q = Pq.p
  BY DEF PrioSound, PrioType
<1>2. CASE v \in Pq.p
  <2>1. LiveQueue(Pq.q[v]) /\ Pq.q[v].begin < Pq.q[v].end /\ P!PriorityAt(Pq, v) = Pq.q[v]
    BY <1>2 DEF PrioSound, PrioQueues, P!PriorityAt
  <2>2. /\ P!QueueSites(Pq.q[v]) \in Seq(Elem)
        /\ Len(P!QueueSites(Pq.q[v])) = Pq.q[v].end - Pq.q[v].begin
        /\ Pq.q[v].begin \in Nat /\ Pq.q[v].end \in Nat
    BY <2>1, SitesOfLive DEF LiveQueue
  <2>3. P!QueueSites(Pq.q[v]) # <<>>
    BY <2>1, <2>2
  <2> QED BY <1>1, <1>2, <2>1, <2>2, <2>3 DEF P!QueueOf, SitesAt
<1>3. CASE v \notin Pq.p
  <2>1. P!PriorityAt(Pq, v) = P!EmptyQueue /\ P!QueueOf(Pq, v) = P!EmptyQueue
    BY <1>1, <1>3 DEF P!PriorityAt, P!QueueOf
  <2> QED BY <1>3, <2>1, EmptyIsLive DEF SitesAt
<1> QED BY <1>2, <1>3

LEMMA EmptySound == PrioSound(P!EmptyPriority, <<>>)
<1> DEFINE E == P!EmptyPriority
<1>1. E.p = {} /\ E.q = <<>> /\ E.n = 0 /\ E = [p |-> E.p, q |-> E.q, n |-> E.n]
  BY DEF P!EmptyPriority
<1> HIDE DEF E
<1>2. PrioType(E) /\ PrioQueues(E)
  BY <1>1, FS_EmptySet DEF PrioType, PrioQueues
<1>3. ASSUME NEW v \in Prio PROVE P!AreSitesAt(SitesAt(E, v), v, <<>>)
  <2>1. SitesAt(E, v) = <<>>
    BY <1>1, EmptyIsLive DEF SitesAt, P!PriorityAt
  <2>2. Len(<<>>) = 0 /\ 1..0 = {}
    OBVIOUS
  <2> DEFINE pos == [k \in 1..Len(<<>>) |-> 1]
  <2>3. pos \in [1..Len(<<>>) -> 1..Len(<<>>)]
    BY <2>2
  <2> HIDE DEF pos
  <2> QED BY <2>1, <2>2, <2>3 DEF P!AreSitesAt
<1>4. <<>> \in Seq(Pairs) /\ Len(<<>>) = 0
  OBVIOUS
<1> QED BY <1>1, <1>2, <1>3, <1>4 DEF PrioSound, E

LEMMA PushSound ==
    ASSUME NEW Pq, NEW L, PrioSound(Pq, L), NEW v \in Prio, NEW e \in Elem
    PROVE  PrioSound(P!PriorityPush(Pq, v, e), Append(L, <<v, e>>))
<1> DEFINE R == P!PriorityPush(Pq, v, e)
           Q == P!QueuePush(P!QueueOf(Pq, v), e)
<1>0. /\ DOMAIN Pq.q = Pq.p /\ L \in Seq(Pairs) /\ Pq.n = Len(L) /\ Len(L) \in Nat
      /\ <<v, e>> \in Pairs
  BY DEF PrioSound, PrioType, Pairs
<1>1. /\ R.p = Pq.p \cup {v} /\ R.n = Pq.n + 1
      /\ R.q = [w1 \in Pq.p \cup {v} |-> IF w1 = v THEN Q ELSE Pq.q[w1]]
      /\ R = [p |-> R.p, q |-> R.q, n |-> R.n]
  BY <1>0 DEF P!PriorityPush, P!SetQueue
<1> HIDE DEF R
<1>2. PrioType(R)
  <2>1. IsFiniteSet(R.p)
    BY <1>1, FS_AddElement DEF PrioSound, PrioType
  <2> QED BY <1>1, <2>1 DEF PrioSound, PrioType
<1>3. /\ LiveQueue(Q) /\ P!QueueSites(Q) = SitesAt(Pq, v) \o <<e>>
  BY QueueAtPriority, PushSites DEF SitesAt
<1>4. Q.begin < Q.end
  <2>1. LiveQueue(P!QueueOf(Pq, v))
    BY QueueAtPriority
  <2> QED BY <2>1 DEF LiveQueue, P!QueuePush
<1> HIDE DEF Q
<1>5. PrioQueues(R)
  BY <1>1, <1>3, <1>4 DEF PrioSound, PrioQueues
<1>6. Append(L, <<v, e>>) = L \o <<<<v, e>>>>
  BY <1>0, AppendIsConcat
<1>7. ASSUME NEW w1 \in Prio PROVE P!AreSitesAt(SitesAt(R, w1), w1, Append(L, <<v, e>>))
  <2> DEFINE one == IF v = w1 THEN <<e>> ELSE <<>>
  <2>1. one \in Seq(Elem) /\ <<<<v, e>>>> \in Seq(Pairs) /\ P!AreSitesAt(one, w1, <<<<v, e>>>>)
    BY <1>0, SitesOfPair
  <2>2. SitesAt(Pq, w1) \in Seq(Elem) /\ P!AreSitesAt(SitesAt(Pq, w1), w1, L)
    BY QueueAtPriority DEF PrioSound
  <2>3. P!AreSitesAt(SitesAt(Pq, w1) \o one, w1, L \o <<<<v, e>>>>)
    <3> HIDE DEF one
    <3> QED BY <1>0, <2>1, <2>2, SitesOfConcat
  <2>4. SitesAt(R, w1) = SitesAt(Pq, w1) \o one
    <3>1. CASE w1 = v
      BY <1>1, <1>3, <3>1 DEF SitesAt, P!PriorityAt
    <3>2. CASE w1 # v
      <4>1. SitesAt(R, w1) = SitesAt(Pq, w1)
        BY <1>1, <3>2 DEF SitesAt, P!PriorityAt
      <4>2. SitesAt(Pq, w1) \o <<>> = SitesAt(Pq, w1)
        BY <2>2, ConcatEmptySeq
      <4> QED BY <3>2, <4>1, <4>2
    <3> QED BY <3>1, <3>2
  <2> HIDE DEF one
  <2> QED BY <1>6, <2>3, <2>4
<1>8. Append(L, <<v, e>>) \in Seq(Pairs) /\ R.n = Len(Append(L, <<v, e>>))
  BY <1>0, <1>1
<1> QED BY <1>2, <1>5, <1>7, <1>8 DEF PrioSound, R

LEMMA InsertSound ==
    ASSUME NEW Pq, NEW L, PrioSound(Pq, L), NEW other, NEW M, PrioSound(other, M)
    PROVE  PrioSound(P!PriorityInsert(Pq, other), L \o M)
<1> DEFINE R == P!PriorityInsert(Pq, other)
           Both(v) == P!QueuePushAll(P!QueueOf(Pq, v), P!QueueSites(other.q[v]))
<1>0. /\ DOMAIN Pq.q = Pq.p /\ L \in Seq(Pairs) /\ Pq.n = Len(L) /\ Len(L) \in Nat
      /\ DOMAIN other.q = other.p /\ M \in Seq(Pairs) /\ other.n = Len(M) /\ Len(M) \in Nat
  BY DEF PrioSound, PrioType
<1>1. /\ R.p = Pq.p \cup other.p /\ R.n = Pq.n + other.n
      /\ R.q = [v \in Pq.p \cup other.p |-> IF v \in other.p THEN Both(v) ELSE Pq.q[v]]
      /\ R = [p |-> R.p, q |-> R.q, n |-> R.n]
  BY <1>0 DEF P!PriorityInsert
<1> HIDE DEF R
<1>2. PrioType(R)
  <2>1. IsFiniteSet(R.p)
    <3>1. IsFiniteSet(Pq.p) /\ IsFiniteSet(other.p)
      BY DEF PrioSound, PrioType
    <3>2. IsFiniteSet(Pq.p \cup other.p)
      BY <3>1, FS_Union
    <3> QED BY <1>1, <3>2
  <2> QED BY <1>1, <2>1 DEF PrioSound, PrioType
<1>3. ASSUME NEW v \in other.p
      PROVE  /\ LiveQueue(Both(v)) /\ Both(v).begin < Both(v).end
             /\ P!QueueSites(Both(v)) = SitesAt(Pq, v) \o SitesAt(other, v)
  <2>1. /\ LiveQueue(P!QueueOf(Pq, v)) /\ SitesAt(Pq, v) = P!QueueSites(P!QueueOf(Pq, v))
        /\ SitesAt(other, v) = P!QueueSites(other.q[v]) /\ SitesAt(other, v) \in Seq(Elem)
        /\ SitesAt(other, v) # <<>>
    BY QueueAtPriority DEF SitesAt
  <2>2. LiveQueue(Both(v)) /\ P!QueueSites(Both(v)) = SitesAt(Pq, v) \o SitesAt(other, v)
    BY <2>1, PushAllSites
  <2>3. Len(SitesAt(other, v)) \in Nat /\ Len(SitesAt(other, v)) > 0
    BY <2>1
  <2>4. Both(v).begin < Both(v).end
    BY <2>1, <2>3 DEF LiveQueue, P!QueuePushAll
  <2> QED BY <2>2, <2>4
<1> HIDE DEF Both
<1>4. PrioQueues(R)
  BY <1>1, <1>3 DEF PrioSound, PrioQueues
<1>5. ASSUME NEW v \in Prio PROVE P!AreSitesAt(SitesAt(R, v), v, L \o M)
  <2>1. /\ SitesAt(Pq, v) \in Seq(Elem) /\ P!AreSitesAt(SitesAt(Pq, v), v, L)
        /\ SitesAt(other, v) \in Seq(Elem) /\ P!AreSitesAt(SitesAt(other, v), v, M)
    BY QueueAtPriority DEF PrioSound
  <2>2. P!AreSitesAt(SitesAt(Pq, v) \o SitesAt(other, v), v, L \o M)
    BY <1>0, <2>1, SitesOfConcat
  <2>3. SitesAt(R, v) = SitesAt(Pq, v) \o SitesAt(other, v)
    <3>1. CASE v \in other.p
      BY <1>1, <1>3, <3>1 DEF SitesAt, P!PriorityAt
    <3>2. CASE v \notin other.p
      <4>1. SitesAt(R, v) = SitesAt(Pq, v)
        BY <1>1, <3>2 DEF SitesAt, P!PriorityAt
      <4>2. SitesAt(other, v) = <<>>
        BY <3>2, QueueAtPriority
      <4> QED BY <2>1, <4>1, <4>2, ConcatEmptySeq
    <3> QED BY <3>1, <3>2
  <2> QED BY <2>2, <2>3
<1>6. L \o M \in Seq(Pairs) /\ R.n = Len(L \o M)
  BY <1>0, <1>1
<1> QED BY <1>2, <1>4, <1>5, <1>6 DEF PrioSound, R

\* The pair to serve: see IsServed of PPriorityClient.
Serves(L, k) ==
    /\ \A j \in 1..Len(L) : L[j][1] <= L[k][1]
    /\ \A j \in 1..(k - 1) : L[j][1] < L[k][1]

LEMMA LogIsInUse ==
    ASSUME NEW Pq, NEW L, PrioSound(Pq, L), NEW k \in 1..Len(L)
    PROVE  /\ L[k][1] \in Pq.p /\ L[k][1] \in Prio /\ L[k][1] \in Int
           /\ L[k] = <<L[k][1], L[k][2]>>
<1>1. L[k] \in Pairs
  BY DEF PrioSound
<1>2. L[k][1] \in Prio /\ L[k] = <<L[k][1], L[k][2]>>
  BY <1>1 DEF Pairs
<1>3. SitesAt(Pq, L[k][1]) # <<>>
  <2>1. P!AreSitesAt(SitesAt(Pq, L[k][1]), L[k][1], L)
    BY <1>2 DEF PrioSound
  <2>2. SitesAt(Pq, L[k][1]) \in Seq(Elem)
    BY QueueAtPriority
  <2>3. \E m \in 1..Len(SitesAt(Pq, L[k][1])) : TRUE
    BY <2>1 DEF P!AreSitesAt
  <2> QED BY <2>2, <2>3
<1> QED BY <1>2, <1>3, QueueAtPriority, PrioAssumption

\* The other way round: what is in use is in the log, in the order of the queue.
LEMMA InUseIsLogged ==
    ASSUME NEW Pq, NEW L, PrioSound(Pq, L), NEW v \in Pq.p
    PROVE  \E k \in 1..Len(L) : /\ L[k][1] = v
                                /\ \A j \in 1..(k - 1) : L[j][1] # v
<1> DEFINE Ts == SitesAt(Pq, v)
<1>1. Ts \in Seq(Elem) /\ Ts # <<>> /\ v \in Prio
  BY QueueAtPriority DEF PrioSound, PrioType
<1>2. P!AreSitesAt(Ts, v, L)
  BY <1>1 DEF PrioSound
<1> HIDE DEF Ts
<1>3. PICK pos \in [1..Len(Ts) -> 1..Len(L)] :
        /\ \A j, k \in 1..Len(Ts) : j < k => pos[j] < pos[k]
        /\ \A k \in 1..Len(Ts) : L[pos[k]] = <<v, Ts[k]>>
        /\ \A i \in 1..Len(L) : L[i][1] = v => \E k \in 1..Len(Ts) : pos[k] = i
  BY <1>2 DEF P!AreSitesAt
<1>4. 1 \in 1..Len(Ts) /\ pos[1] \in 1..Len(L) /\ L[pos[1]][1] = v
  BY <1>1, <1>3
<1>5. ASSUME NEW j \in 1..(pos[1] - 1), L[j][1] = v PROVE FALSE
  <2>1. j \in 1..Len(L) /\ j < pos[1]
    BY <1>4
  <2>2. PICK k \in 1..Len(Ts) : pos[k] = j
    BY <1>3, <1>5, <2>1
  <2>3. k = 1 \/ 1 < k
    OBVIOUS
  <2>4. 1 < k => pos[1] < pos[k]
    BY <1>3, <1>4
  <2> QED BY <1>4, <2>1, <2>2, <2>3, <2>4
<1> QED BY <1>4, <1>5

\* Some pair of a queue that is not empty is to be served.
LEMMA SomeIsServed ==
    ASSUME NEW Pq, NEW L, PrioSound(Pq, L), Pq.n # 0
    PROVE  /\ P!HighestPriority(Pq) \in Pq.p
           /\ \A v \in Pq.p : v <= P!HighestPriority(Pq)
           /\ \E k \in 1..Len(L) : Serves(L, k)
           /\ \A k \in 1..Len(L) : Serves(L, k) => L[k][1] = P!HighestPriority(Pq)
<1>1. L \in Seq(Pairs) /\ Len(L) \in Nat /\ Len(L) # 0 /\ 1 \in 1..Len(L)
  BY DEF PrioSound
<1>2. Pq.p # {} /\ Pq.p \in SUBSET Int /\ IsFiniteSet(Pq.p)
  BY <1>1, LogIsInUse, PrioAssumption DEF PrioSound, PrioType
<1>3. \E m \in Pq.p : \A n \in Pq.p : m >= n
  BY <1>2, GreatestOfFinite
<1> DEFINE top == P!HighestPriority(Pq)
<1>4. top \in Pq.p /\ \A n \in Pq.p : top >= n
  BY <1>3 DEF P!HighestPriority, P!Max
<1> HIDE DEF top
<1>5. \A v \in Pq.p : v <= top
  BY <1>2, <1>4
<1>6. PICK k \in 1..Len(L) : L[k][1] = top /\ \A j \in 1..(k - 1) : L[j][1] # top
  BY <1>4, InUseIsLogged
<1>7. \A j \in 1..Len(L) : L[j][1] <= top /\ L[j][1] \in Int
  BY <1>5, LogIsInUse
<1>8. Serves(L, k)
  <2>1. \A j \in 1..(k - 1) : j \in 1..Len(L)
    BY <1>1
  <2>2. top \in Int
    BY <1>2, <1>4
  <2> QED BY <1>6, <1>7, <2>1, <2>2 DEF Serves
<1>9. ASSUME NEW i \in 1..Len(L), Serves(L, i) PROVE L[i][1] = top
  <2>1. L[k][1] <= L[i][1]
    BY <1>9 DEF Serves
  <2>2. top \in Int
    BY <1>2, <1>4
  <2> QED BY <1>6, <1>7, <2>1, <2>2
<1> QED BY <1>4, <1>5, <1>8, <1>9 DEF top

LEMMA PopSound ==
    ASSUME NEW Pq, NEW L, PrioSound(Pq, L), Pq.n # 0,
           NEW k \in 1..Len(L), Serves(L, k)
    PROVE  /\ P!PriorityFront(Pq) = L[k][2]
           /\ PrioSound(P!PriorityPop(Pq), P!RemoveAt(L, k))
<1> DEFINE top == P!HighestPriority(Pq)
           Q == P!QueuePop(Pq.q[top])
           R == P!PriorityPop(Pq)
           M == P!RemoveAt(L, k)
<1>0. L \in Seq(Pairs) /\ Pq.n = Len(L) /\ Len(L) \in Nat /\ DOMAIN Pq.q = Pq.p
  BY DEF PrioSound, PrioType
<1>1. top \in Pq.p /\ top \in Prio /\ L[k][1] = top
  BY SomeIsServed DEF PrioSound, PrioType
<1>2. LiveQueue(Pq.q[top]) /\ Pq.q[top].begin < Pq.q[top].end
      /\ SitesAt(Pq, top) = P!QueueSites(Pq.q[top]) /\ SitesAt(Pq, top) \in Seq(Elem)
  BY <1>1, QueueAtPriority DEF PrioSound, PrioQueues, SitesAt
<1>3. /\ LiveQueue(Q) /\ P!QueueSites(Q) = Tail(SitesAt(Pq, top))
      /\ P!PriorityFront(Pq) = SitesAt(Pq, top)[1]
  BY <1>2, PopSites DEF P!PriorityFront
<1>4. IsFirst(L, k)
  <2>1. ASSUME NEW i \in 1..(k - 1) PROVE L[i][1] # L[k][1]
    <3>1. i \in 1..Len(L) /\ L[i][1] < L[k][1]
      BY <1>0 DEF Serves
    <3> QED BY <3>1, LogIsInUse
  <2> QED BY <2>1 DEF IsFirst
<1>5. ASSUME NEW v \in Prio
      PROVE  /\ M \in Seq(Pairs) /\ Len(M) = Len(L) - 1
             /\ v = top => /\ L[k][2] = SitesAt(Pq, v)[1]
                           /\ P!AreSitesAt(Tail(SitesAt(Pq, v)), v, M)
             /\ v # top => P!AreSitesAt(SitesAt(Pq, v), v, M)
  <2>1. SitesAt(Pq, v) \in Seq(Elem) /\ P!AreSitesAt(SitesAt(Pq, v), v, L)
    BY QueueAtPriority DEF PrioSound
  <2>2. Follows(M, SitesAt(Pq, v), v, L, k)
    BY <1>0, <1>4, <2>1, SitesOfRemoved
  <2> HIDE DEF M
  <2> QED BY <1>1, <2>2 DEF Follows
<1> HIDE DEF M
<1>6. P!PriorityFront(Pq) = L[k][2]
  BY <1>1, <1>3, <1>5
<1>7. R.n = Len(M) /\ R.n = Pq.n - 1
  BY <1>0, <1>1, <1>5 DEF P!PriorityPop, P!PopAt
<1>8. CASE Q.end = Q.begin
  <2>1. /\ R.p = Pq.p \ {top} /\ R.q = [v \in Pq.p \ {top} |-> Pq.q[v]]
        /\ R = [p |-> R.p, q |-> R.q, n |-> R.n]
    BY <1>0, <1>8 DEF P!PriorityPop, P!PopAt, P!EraseQueue, P!QueueIsEmpty
  <2> HIDE DEF R
  <2>2. IsFiniteSet(R.p)
    BY <2>1, FS_RemoveElement DEF PrioSound, PrioType
  <2>3. PrioType(R) /\ PrioQueues(R)
    BY <2>1, <2>2 DEF PrioSound, PrioType, PrioQueues
  <2>4. ASSUME NEW v \in Prio PROVE P!AreSitesAt(SitesAt(R, v), v, M)
    <3>1. CASE v = top
      <4>1. SitesAt(R, v) = <<>>
        BY <2>1, <3>1, EmptyIsLive DEF SitesAt, P!PriorityAt
      <4>2. P!QueueSites(Q) \in Seq(Elem) /\ Len(P!QueueSites(Q)) = 0
        <5>1. Q.end \in Nat /\ Q.end - Q.begin = 0
          BY <1>3, <1>8 DEF LiveQueue
        <5> QED BY <1>3, <5>1, SitesOfLive
      <4>3. Tail(SitesAt(Pq, v)) = <<>>
        BY <1>3, <3>1, <4>2
      <4> QED BY <1>5, <3>1, <4>1, <4>3
    <3>2. CASE v # top
      <4>1. SitesAt(R, v) = SitesAt(Pq, v)
        BY <2>1, <3>2 DEF SitesAt, P!PriorityAt
      <4> QED BY <1>5, <3>2, <4>1
    <3> QED BY <3>1, <3>2
  <2> QED BY <1>1, <1>5, <1>6, <1>7, <2>3, <2>4 DEF PrioSound, R, M
<1>9. CASE Q.end # Q.begin
  <2>1. /\ R.p = Pq.p /\ R.q = [v \in Pq.p |-> IF v = top THEN Q ELSE Pq.q[v]]
        /\ R = [p |-> R.p, q |-> R.q, n |-> R.n]
    <3>1. Pq.p \cup {top} = Pq.p
      BY <1>1
    <3> QED BY <1>0, <1>9, <3>1 DEF P!PriorityPop, P!PopAt, P!SetQueue, P!QueueIsEmpty
  <2>2. Q.begin < Q.end
    BY <1>3, <1>9 DEF LiveQueue
  <2> HIDE DEF R, Q
  <2>3. PrioType(R) /\ PrioQueues(R)
    BY <1>3, <2>1, <2>2 DEF PrioSound, PrioType, PrioQueues
  <2>4. ASSUME NEW v \in Prio PROVE P!AreSitesAt(SitesAt(R, v), v, M)
    <3>1. CASE v = top
      <4>1. SitesAt(R, v) = Tail(SitesAt(Pq, v))
        BY <1>1, <1>3, <2>1, <3>1 DEF SitesAt, P!PriorityAt
      <4> QED BY <1>5, <3>1, <4>1
    <3>2. CASE v # top
      <4>1. SitesAt(R, v) = SitesAt(Pq, v)
        BY <2>1, <3>2 DEF SitesAt, P!PriorityAt
      <4> QED BY <1>5, <3>2, <4>1
    <3> QED BY <3>1, <3>2
  <2> QED BY <1>1, <1>5, <1>6, <1>7, <2>3, <2>4 DEF PrioSound, R, M
<1> QED BY <1>8, <1>9

LEMMA ServedServes ==
    ASSUME NEW o, PrioSound(pq[o], log[o]), pq[o].n # 0
    PROVE  P!Served(o) \in 1..Len(log[o]) /\ Serves(log[o], P!Served(o))
<1>1. \A k : P!IsServed(o, k) <=> Serves(log[o], k)
  BY DEF P!IsServed, Serves
<1>2. \E k \in 1..Len(log[o]) : P!IsServed(o, k)
  BY <1>1, SomeIsServed
<1>3. P!Served(o) \in 1..Len(log[o]) /\ P!IsServed(o, P!Served(o))
  BY <1>2 DEF P!Served
<1> QED BY <1>1, <1>3

PrioInv ==
    /\ DOMAIN pq = Obj /\ pq = [o \in Obj |-> pq[o]]
    /\ DOMAIN log = Obj /\ log = [o \in Obj |-> log[o]]
    /\ \A o \in Obj : PrioSound(pq[o], log[o])

LEMMA PrioInit == P!Init => PrioInv
BY EmptySound DEF P!Init, PrioInv

LEMMA PrioStep ==
    ASSUME PrioInv, [P!Next]_(P!vars)
    PROVE  PrioInv'
<1> USE DEF PrioInv
<1>1. ASSUME NEW o \in Obj, NEW v \in Prio, NEW e \in Elem, P!Push(o, v, e)
      PROVE  PrioInv'
  <2>1. PrioSound(P!PriorityPush(pq[o], v, e), Append(log[o], <<v, e>>))
    BY PushSound
  <2> QED BY <1>1, <2>1 DEF P!Push
<1>2. ASSUME NEW o \in Obj, NEW other \in Obj, P!Insert(o, other) PROVE PrioInv'
  <2>1. PrioSound(P!PriorityInsert(pq[o], pq[other]), log[o] \o log[other])
    BY InsertSound
  <2> QED BY <1>2, <2>1 DEF P!Insert
<1>3. ASSUME NEW o \in Obj, P!Pop(o) PROVE PrioInv'
  <2>1. pq[o].n # 0 /\ pq' = [pq EXCEPT ![o] = P!PriorityPop(@)]
        /\ log' = [log EXCEPT ![o] = P!RemoveAt(@, P!Served(o))]
    BY <1>3 DEF P!Pop, P!PriorityIsEmpty
  <2>2. P!Served(o) \in 1..Len(log[o]) /\ Serves(log[o], P!Served(o))
    BY <2>1, ServedServes
  <2>3. PrioSound(P!PriorityPop(pq[o]), P!RemoveAt(log[o], P!Served(o)))
    BY <2>1, <2>2, PopSound
  <2> QED BY <2>1, <2>3
<1>4. ASSUME NEW o \in Obj, P!Clear(o) PROVE PrioInv'
  BY <1>4, EmptySound DEF P!Clear
<1>5. CASE UNCHANGED P!vars
  BY <1>5 DEF P!vars
<1> QED BY <1>1, <1>2, <1>3, <1>4, <1>5 DEF P!Next

\* What run_() asserts around each call holds: the two containers agree and
\* hold no empty queue; the queues hold what was inserted and not popped, in
\* order, and n_ counts it.
THEOREM PriorityHolds == MCSpec => []PriorityHoldsLog
<1>1. PrioInv => PriorityHoldsLog
  <2> SUFFICES ASSUME PrioInv PROVE PriorityHoldsLog
    OBVIOUS
  <2>1. ASSUME NEW o \in Obj PROVE P!PriorityRun(pq[o])
    <3>1. PrioSound(pq[o], log[o])
      BY DEF PrioInv
    <3>2. pq[o].n = 0 => pq[o].p = {}
      <4>1. ASSUME pq[o].n = 0, NEW v \in pq[o].p PROVE FALSE
        <5>1. \E k \in 1..Len(log[o]) : TRUE
          BY <3>1, InUseIsLogged
        <5> QED BY <3>1, <4>1, <5>1 DEF PrioSound
      <4> QED BY <4>1
    <3>3. pq[o].p = DOMAIN pq[o].q
      BY <3>1 DEF PrioSound, PrioType
    <3>4. ASSUME NEW v \in pq[o].p PROVE P!QueueNsites(P!PriorityAt(pq[o], v)) > 0
      <4>1. /\ P!PriorityAt(pq[o], v) = pq[o].q[v] /\ LiveQueue(pq[o].q[v])
            /\ pq[o].q[v].begin < pq[o].q[v].end
        BY <3>1 DEF PrioSound, PrioQueues, P!PriorityAt
      <4>2. pq[o].q[v].begin \in Nat /\ pq[o].q[v].end \in Nat
        BY <4>1 DEF LiveQueue
      <4> QED BY <4>1, <4>2 DEF P!QueueNsites
    <3> QED BY <3>2, <3>3, <3>4 DEF P!PriorityRun
  <2>2. P!RunHolds
    BY <2>1 DEF P!RunHolds
  <2>3. P!CountsElements /\ P!QueuesHoldLog
    BY DEF P!CountsElements, P!QueuesHoldLog, PrioInv, PrioSound, SitesAt
  <2> QED BY <2>2, <2>3 DEF PriorityHoldsLog
<1> QED BY <1>1, PrioInit, PrioStep, EachContainer, PTL DEF P!Spec

\* front() gives the least recent of the elements of the highest priority.
THEOREM PriorityServes == MCSpec => []FrontIsServed
<1>1. PrioInv => FrontIsServed
  <2> SUFFICES ASSUME PrioInv, NEW o \in Obj, pq[o].n # 0
               PROVE  P!PriorityFront(pq[o]) = log[o][P!Served(o)][2]
    BY DEF FrontIsServed, P!FrontIsServed, P!PriorityIsEmpty
  <2>1. PrioSound(pq[o], log[o])
    BY DEF PrioInv
  <2>2. P!Served(o) \in 1..Len(log[o]) /\ Serves(log[o], P!Served(o))
    BY <2>1, ServedServes
  <2> QED BY <2>1, <2>2, PopSound
<1> QED BY <1>1, PrioInit, PrioStep, EachContainer, PTL DEF P!Spec

-----------------------------------------------------------------------------
(* util::set: the sorted vector and its bisection.                          *)

Increasing(v) == \A i, j \in 1..Len(v) : i < j => v[i] < v[j]

\* The equation of the bisection of v for e.
Bisection(v, e, dic) ==
    dic = [r \in (0..Len(v)) \X (0..Len(v)) |->
           IF r[2] - r[1] <= 1 THEN r[1]
           ELSE LET med == (r[1] + r[2]) \div 2
                IN IF e < v[med + 1] THEN dic[<<r[1], med>>] ELSE dic[<<med, r[2]>>]]

\* The bisection of a part of v stops at the last cell that does not exceed e.
Stops(v, e, beg, end, i) ==
    /\ i \in beg..(end - 1)
    /\ i = beg \/ v[i + 1] <= e
    /\ \A j \in (i + 1)..(end - 1) : e < v[j + 1]

LEMMA BisectionExists ==
    ASSUME NEW v \in Seq(Int), NEW e \in Int, Increasing(v)
    PROVE  \E dic : Bisection(v, e, dic)
<1> DEFINE n == Len(v)
           D == (0..n) \X (0..n)
           Low(beg, end) == CHOOSE i \in beg..(end - 1) : Stops(v, e, beg, end, i)
           dic == [r \in D |-> IF r[2] - r[1] <= 1 THEN r[1] ELSE Low(r[1], r[2])]
<1>0. n \in Nat /\ \A i \in 1..n : v[i] \in Int
  OBVIOUS
<1>1. ASSUME NEW beg \in 0..n, NEW end \in 0..n, beg < end
      PROVE  Low(beg, end) \in beg..(end - 1) /\ Stops(v, e, beg, end, Low(beg, end))
  <2> DEFINE S == {i \in beg..(end - 1) : i = beg \/ v[i + 1] <= e}
  <2>1. S \in SUBSET Int /\ beg \in S
    BY <1>0, <1>1
  <2>2. IsFiniteSet(S)
    <3>1. IsFiniteSet(beg..(end - 1))
      BY <1>0, FS_Interval
    <3>2. S \subseteq beg..(end - 1)
      OBVIOUS
    <3> QED BY <3>1, <3>2, FS_Subset
  <2>3. PICK i \in S : \A j \in S : i >= j
    <3> HIDE DEF S
    <3> QED BY <2>1, <2>2, GreatestOfFinite
  <2>4. ASSUME NEW j \in (i + 1)..(end - 1) PROVE e < v[j + 1]
    <3>1. j \in beg..(end - 1) /\ j # beg /\ ~ (i >= j) /\ v[j + 1] \in Int
      BY <1>0, <1>1
    <3>2. j \notin S
      BY <2>3, <3>1
    <3> QED BY <3>1, <3>2
  <2>5. i \in beg..(end - 1) /\ (i = beg \/ v[i + 1] <= e)
    OBVIOUS
  <2>6. Stops(v, e, beg, end, i)
    BY <2>4, <2>5 DEF Stops
  <2> QED BY <2>5, <2>6
<1>2. ASSUME NEW beg \in 0..n, NEW end \in 0..n, NEW i, NEW j,
             Stops(v, e, beg, end, i), Stops(v, e, beg, end, j)
      PROVE  i = j
  <2>1. ASSUME NEW k \in beg..(end - 1), NEW l \in beg..(end - 1), k < l,
               Stops(v, e, beg, end, k), Stops(v, e, beg, end, l)
        PROVE FALSE
    <3>1. l \in (k + 1)..(end - 1) /\ l # beg /\ v[l + 1] \in Int
      BY <1>0, <2>1
    <3>2. e < v[l + 1] /\ v[l + 1] <= e
      BY <2>1, <3>1 DEF Stops
    <3> QED BY <3>1, <3>2
  <2>2. i \in beg..(end - 1) /\ j \in beg..(end - 1)
    BY <1>2 DEF Stops
  <2>3. i < j \/ j < i \/ i = j
    BY <2>2
  <2> QED BY <1>2, <2>1, <2>2, <2>3
<1> HIDE DEF Low
<1>3. ASSUME NEW beg \in 0..n, NEW end \in 0..n, end - beg > 1, NEW med, med = (beg + end) \div 2
      PROVE  /\ med \in 1..(n - 1) /\ beg < med /\ med < end /\ med \in 0..n
             /\ v[med + 1] \in Int
             /\ e < v[med + 1] => dic[<<beg, med>>] = Low(beg, end)
             /\ ~ (e < v[med + 1]) => dic[<<med, end>>] = Low(beg, end)
  <2>1. med \in 1..(n - 1) /\ beg < med /\ med < end /\ med \in 0..n /\ v[med + 1] \in Int
    BY <1>0, <1>3
  <2>2. ASSUME e < v[med + 1] PROVE dic[<<beg, med>>] = Low(beg, end)
    <3>1. ASSUME NEW i, Stops(v, e, beg, med, i) PROVE Stops(v, e, beg, end, i)
      <4>1. i \in beg..(med - 1) /\ i \in beg..(end - 1) /\ (i = beg \/ v[i + 1] <= e)
        BY <1>0, <2>1, <3>1 DEF Stops
      <4>2. ASSUME NEW j \in (i + 1)..(end - 1) PROVE e < v[j + 1]
        <5>1. CASE j < med
          <6>1. j \in (i + 1)..(med - 1)
            BY <2>1, <4>1, <5>1
          <6> QED BY <3>1, <6>1 DEF Stops
        <5>2. CASE j = med
          BY <2>2, <5>2
        <5>3. CASE j > med
          <6>1. v[med + 1] < v[j + 1] /\ v[j + 1] \in Int
            BY <1>0, <2>1, <4>1, <5>3 DEF Increasing
          <6> QED BY <2>1, <2>2, <6>1
        <5> QED BY <2>1, <4>1, <5>1, <5>2, <5>3
      <4> QED BY <4>1, <4>2 DEF Stops
    <3>2. CASE med - beg <= 1
      <4>1. Stops(v, e, beg, med, beg)
        BY <2>1, <3>2 DEF Stops
      <4>2. beg = Low(beg, end)
        BY <1>1, <1>2, <1>3, <2>1, <3>1, <4>1
      <4> QED BY <2>1, <3>2, <4>2
    <3>3. CASE ~ (med - beg <= 1)
      <4>1. Low(beg, med) = Low(beg, end)
        BY <1>1, <1>2, <1>3, <2>1, <3>1
      <4> QED BY <2>1, <3>3, <4>1
    <3> QED BY <3>2, <3>3
  <2>3. ASSUME ~ (e < v[med + 1]) PROVE dic[<<med, end>>] = Low(beg, end)
    <3>1. ASSUME NEW i, Stops(v, e, med, end, i) PROVE Stops(v, e, beg, end, i)
      <4>1. i \in med..(end - 1) /\ i \in beg..(end - 1) /\ (i = med \/ v[i + 1] <= e)
        BY <1>0, <2>1, <3>1 DEF Stops
      <4>2. v[i + 1] <= e
        BY <2>1, <2>3, <4>1
      <4> QED BY <3>1, <4>1, <4>2 DEF Stops
    <3>2. CASE end - med <= 1
      <4>1. Stops(v, e, med, end, med)
        BY <2>1, <3>2 DEF Stops
      <4>2. med = Low(beg, end)
        BY <1>1, <1>2, <1>3, <2>1, <3>1, <4>1
      <4> QED BY <2>1, <3>2, <4>2
    <3>3. CASE ~ (end - med <= 1)
      <4>1. Low(med, end) = Low(beg, end)
        BY <1>1, <1>2, <1>3, <2>1, <3>1
      <4> QED BY <2>1, <3>3, <4>1
    <3> QED BY <3>2, <3>3
  <2> QED BY <2>1, <2>2, <2>3
<1>4. ASSUME NEW r \in D
      PROVE  dic[r] = IF r[2] - r[1] <= 1 THEN r[1]
                    ELSE LET med == (r[1] + r[2]) \div 2
                         IN IF e < v[med + 1] THEN dic[<<r[1], med>>] ELSE dic[<<med, r[2]>>]
  <2>1. r[1] \in 0..n /\ r[2] \in 0..n /\ r = <<r[1], r[2]>>
    OBVIOUS
  <2>2. CASE r[2] - r[1] <= 1
    BY <2>1, <2>2
  <2>3. CASE ~ (r[2] - r[1] <= 1)
    <3>1. dic[r] = Low(r[1], r[2]) /\ r[2] - r[1] > 1
      BY <1>0, <2>1, <2>3
    <3>2. PICK beg \in 0..n, end \in 0..n : r = <<beg, end>> /\ end - beg > 1
      BY <2>1, <3>1
    <3>3. PICK med : med = (beg + end) \div 2
      OBVIOUS
    <3> HIDE DEF dic
    <3>4. dic[r] = IF e < v[med + 1] THEN dic[<<beg, med>>] ELSE dic[<<med, end>>]
      BY SMTT(30), <1>3, <3>1, <3>2, <3>3
    <3> QED BY <2>3, <3>2, <3>3, <3>4
  <2> QED BY <2>2, <2>3
<1>5. Bisection(v, e, dic)
  <2>1. dic = [r \in D |-> dic[r]]
    OBVIOUS
  <2> HIDE DEF dic
  <2> QED BY <1>4, <2>1 DEF Bisection
<1> QED BY <1>5

LEMMA BisectionStops ==
    ASSUME NEW v \in Seq(Int), NEW e \in Int, Increasing(v), NEW dic, Bisection(v, e, dic),
           Len(v) > 0
    PROVE  Stops(v, e, 0, Len(v), dic[<<0, Len(v)>>])
<1> DEFINE n == Len(v)
           D == (0..n) \X (0..n)
           Bad == {r \in D : r[1] < r[2] /\ ~ Stops(v, e, r[1], r[2], dic[r])}
           Sizes == {r[2] - r[1] : r \in Bad}
<1>0. n \in Nat /\ \A i \in 1..n : v[i] \in Int
  OBVIOUS
<1>1. SUFFICES ASSUME Bad # {} PROVE FALSE
  <2>1. <<0, n>> \in D /\ 0 < n
    BY <1>0
  <2> QED BY <1>1, <2>1
<1>2. PICK size \in Sizes : \A k \in Sizes : size <= k
  <2>1. Sizes \in SUBSET Nat /\ Sizes # {}
    BY <1>0, <1>1
  <2> HIDE DEF Sizes
  <2> QED BY <2>1, LeastNat
<1>3. PICK r \in Bad : \A q \in Bad : r[2] - r[1] <= q[2] - q[1]
  BY <1>2
<1>4. PICK beg \in 0..n, end \in 0..n : r = <<beg, end>> /\ beg < end
  OBVIOUS
<1>5. ~ Stops(v, e, beg, end, dic[<<beg, end>>])
  BY <1>4
<1>6. CASE end - beg <= 1
  <2>1. dic[<<beg, end>>] = beg
    BY <1>6 DEF Bisection
  <2> QED BY <1>0, <1>4, <1>5, <1>6, <2>1 DEF Stops
<1>7. CASE ~ (end - beg <= 1)
  <2>1. PICK med : med = (beg + end) \div 2
    OBVIOUS
  <2>2. med \in 0..(n - 1) /\ beg < med /\ med < end /\ med \in 0..n /\ v[med + 1] \in Int
    BY SMTT(30), <1>0, <1>7, <2>1
  <2>3. dic[<<beg, end>>] = IF e < v[med + 1] THEN dic[<<beg, med>>] ELSE dic[<<med, end>>]
    BY <1>7, <2>1 DEF Bisection
  <2>4. Stops(v, e, beg, med, dic[<<beg, med>>])
    <3>1. ~ (end - beg <= med - beg)
      BY <2>2
    <3>2. <<beg, med>> \in D /\ <<beg, med>> \notin Bad
      BY <1>3, <1>4, <2>2, <3>1
    <3> QED BY <2>2, <3>2
  <2>5. Stops(v, e, med, end, dic[<<med, end>>])
    <3>1. ~ (end - beg <= end - med)
      BY <2>2
    <3>2. <<med, end>> \in D /\ <<med, end>> \notin Bad
      BY <1>3, <1>4, <2>2, <3>1
    <3> QED BY <2>2, <3>2
  <2>8. PICK p \in Int : p = v[med + 1]
    BY <2>2
  <2>6. CASE e < p
    <3>1. PICK i : i = dic[<<beg, med>>]
      OBVIOUS
    <3>2. Stops(v, e, beg, med, i)
      BY <2>4, <3>1
    <3>3. i \in beg..(end - 1) /\ i < med /\ i \in Int /\ (i = beg \/ v[i + 1] <= e)
      BY <2>2, <3>2 DEF Stops
    <3>4. ASSUME NEW j \in (i + 1)..(end - 1) PROVE e < v[j + 1]
      <4>1. CASE j < med
        BY <2>2, <3>2, <3>3, <4>1 DEF Stops
      <4>2. CASE j = med
        BY <2>6, <2>8, <4>2
      <4>3. CASE j > med
        <5>0. j \in Int /\ j + 1 <= end /\ end <= n /\ med \in Int /\ 0 <= med
          BY <2>2, <3>3
        <5>1. j + 1 \in 1..n /\ med + 1 \in 1..n /\ med + 1 < j + 1
          BY SMTT(30), <1>0, <4>3, <5>0
        <5>2. PICK q \in Int : q = v[j + 1]
          BY <1>0, <5>1
        <5>3. p < q
          BY <2>8, <5>1, <5>2 DEF Increasing
        <5>4. e < q
          BY <2>6, <5>3
        <5> QED BY <5>2, <5>4
      <4> QED BY <2>2, <3>3, <4>1, <4>2, <4>3
    <3>5. Stops(v, e, beg, end, i)
      BY <3>3, <3>4 DEF Stops
    <3> QED BY <1>5, <2>3, <2>6, <2>8, <3>1, <3>5
  <2>7. CASE ~ (e < p)
    <3>1. PICK i : i = dic[<<med, end>>]
      OBVIOUS
    <3>2. Stops(v, e, med, end, i)
      BY <2>5, <3>1
    <3>3. i \in beg..(end - 1) /\ i \in med..(end - 1) /\ (i = med \/ v[i + 1] <= e)
      BY <1>0, <2>2, <3>2 DEF Stops
    <3>4. v[i + 1] <= e
      <4>1. v[med + 1] <= e
        BY SMTT(30), <2>7, <2>8
      <4> QED BY <3>3, <4>1
    <3>5. Stops(v, e, beg, end, i)
      BY <3>2, <3>3, <3>4 DEF Stops
    <3> QED BY <1>5, <2>3, <2>7, <2>8, <3>1, <3>5
  <2> QED BY <2>6, <2>7
<1> QED BY <1>6, <1>7

\* dicho_ gives the cell of e when it is there.
LEMMA DichoStops ==
    ASSUME NEW v \in Seq(Int), NEW e \in Int, Increasing(v), Len(v) > 0
    PROVE  Stops(v, e, 0, Len(v), U!Dicho(v, e))
<1> DEFINE dic == CHOOSE f : Bisection(v, e, f)
<1>1. Bisection(v, e, dic)
  BY BisectionExists
<1>2. U!Dicho(v, e) = dic[<<0, Len(v)>>]
  BY DEF U!Dicho, Bisection
<1> HIDE DEF dic
<1> QED BY <1>1, <1>2, BisectionStops

LEMMA SetCardinality == \A S : U!Cardinality(S) = Cardinality(S)
  BY DEF U!Cardinality, Cardinality

LEMMA FunctionIsSeq ==
    ASSUME NEW k \in Nat, NEW S, NEW f \in [1..k -> S], S \subseteq Int
    PROVE  f \in Seq(Int) /\ Len(f) = k /\ DOMAIN f = 1..k
<1>1. f \in [1..k -> Int] /\ DOMAIN f = 1..k
  OBVIOUS
<1>2. f \in Seq(Int)
  BY <1>1, SeqDef
<1>3. Len(f) \in Nat /\ DOMAIN f = 1..Len(f)
  BY <1>2
<1>4. Len(f) = k
  BY <1>1, <1>3
<1> QED BY <1>1, <1>2, <1>4

\* v is the set S in increasing order.
Sorts(v, S) ==
    v \in [1..Cardinality(S) -> S] /\ U!ToSet(v) = S /\ Increasing(v)

\* Every finite set of integers can be sorted: otherwise take the smallest one
\* that cannot, and its greatest element away from it.
LEMMA SortedExists ==
    ASSUME NEW S \in SUBSET Int, IsFiniteSet(S)
    PROVE  \E v : Sorts(v, S)
<1> DEFINE Bad == {R \in SUBSET S : ~ \E v : Sorts(v, R)}
           Sizes == {Cardinality(R) : R \in Bad}
<1>1. \A R \in SUBSET S : IsFiniteSet(R) /\ Cardinality(R) \in Nat
  BY FS_Subset, FS_CardinalityType
<1>2. SUFFICES ASSUME Bad # {} PROVE FALSE
  <2> S \in SUBSET S
    OBVIOUS
  <2> QED BY <1>2
<1>3. PICK size \in Sizes : \A n \in Sizes : size <= n
  <2>1. Sizes \in SUBSET Nat /\ Sizes # {}
    BY <1>1, <1>2
  <2> HIDE DEF Sizes
  <2> QED BY <2>1, LeastNat
<1>4. PICK R \in Bad : \A Q \in Bad : Cardinality(R) <= Cardinality(Q)
  BY <1>3
<1>5. R # {}
  <2>1. Sorts(<<>>, {})
    <3>1. Cardinality({}) = 0
      BY FS_EmptySet
    <3> QED BY <3>1 DEF Sorts, Increasing, U!ToSet
  <2> QED BY <2>1
<1>6. PICK m \in R : \A n \in R : m >= n
  BY <1>1, <1>5, GreatestOfFinite
<1> DEFINE Q == R \ {m}
<1>7. /\ Cardinality(R) \in Nat /\ Cardinality(Q) \in Nat
      /\ Cardinality(Q) + 1 = Cardinality(R)
  <2>1. R \in SUBSET S /\ Q \in SUBSET S /\ m \in R
    BY <1>6
  <2>2. IsFiniteSet(R) /\ Cardinality(R) \in Nat /\ Cardinality(Q) \in Nat
    BY <1>1, <2>1
  <2>3. Cardinality(Q) = Cardinality(R) - 1
    BY <2>1, <2>2, FS_RemoveElement
  <2> QED BY <2>2, <2>3
<1>8. PICK v : Sorts(v, Q)
  <2>1. Q \in SUBSET S /\ ~ (Cardinality(R) <= Cardinality(Q))
    BY <1>7
  <2> QED BY <1>4, <2>1
<1>9. PICK k \in Nat : k = Cardinality(Q) /\ Cardinality(R) = k + 1
  BY <1>7
<1> DEFINE vw == Append(v, m)
<1>10. /\ v \in Seq(Int) /\ Len(v) = k /\ DOMAIN v = 1..k
       /\ \A i \in 1..k : v[i] \in Q /\ v[i] \in Int
       /\ \A q \in Q : \E i \in 1..k : v[i] = q
       /\ \A i, j \in 1..k : i < j => v[i] < v[j]
  <2>1. v \in [1..k -> Q] /\ U!ToSet(v) = Q /\ Increasing(v)
    BY <1>8, <1>9 DEF Sorts
  <2>2. Q \subseteq Int
    OBVIOUS
  <2> HIDE DEF Q
  <2>3. v \in Seq(Int) /\ Len(v) = k /\ DOMAIN v = 1..k
    BY <2>1, <2>2, FunctionIsSeq
  <2>4. \A q \in Q : \E i \in 1..k : v[i] = q
    BY <2>1, <2>3 DEF U!ToSet
  <2>5. \A i, j \in 1..k : i < j => v[i] < v[j]
    BY <2>1, <2>3 DEF Increasing
  <2> QED BY <2>1, <2>2, <2>3, <2>4, <2>5
<1>11. /\ Len(vw) = k + 1 /\ DOMAIN vw = 1..(k + 1) /\ vw \in Seq(Int)
       /\ vw[k + 1] = m /\ \A i \in 1..k : vw[i] = v[i]
  BY <1>10
<1> HIDE DEF vw
<1>12. vw \in [1..(k + 1) -> R]
  BY <1>10, <1>11
<1>13. \A q \in R : \E i \in 1..(k + 1) : vw[i] = q
  <2>1. ASSUME NEW q \in R, q # m PROVE \E i \in 1..(k + 1) : vw[i] = q
    BY <1>10, <1>11, <2>1
  <2> QED BY <1>11, <2>1
<1>14. ASSUME NEW i \in 1..(k + 1), NEW j \in 1..(k + 1), i < j PROVE vw[i] < vw[j]
  <2>1. CASE j = k + 1
    <3>1. i \in 1..k /\ vw[i] = v[i] /\ v[i] \in Q /\ vw[j] = m
      BY <1>10, <1>11, <1>14, <2>1
    <3>2. v[i] \in Int /\ m \in Int /\ v[i] # m /\ m >= v[i]
      BY <1>6, <3>1
    <3> QED BY <3>1, <3>2
  <2>2. CASE j # k + 1
    BY <1>10, <1>11, <1>14, <2>2
  <2> QED BY <2>1, <2>2
<1>15. Sorts(vw, R)
  <2>1. U!ToSet(vw) = R
    BY <1>11, <1>12, <1>13 DEF U!ToSet
  <2>2. Increasing(vw)
    BY <1>11, <1>14 DEF Increasing
  <2> QED BY <1>9, <1>12, <2>1, <2>2 DEF Sorts
<1> QED BY <1>15

\* What the sorted vector is, in the terms the methods read it.
LEMMA SortedSorts ==
    ASSUME NEW S \in SUBSET Int, IsFiniteSet(S)
    PROVE  Sorts(U!Sorted(S), S)
<1> DEFINE Good(v) == U!ToSet(v) = S /\ \A i, j \in DOMAIN v : i < j => v[i] < v[j]
<1>1. PICK v : Sorts(v, S)
  BY SortedExists
<1>2. ASSUME NEW u \in [1..Cardinality(S) -> S] PROVE DOMAIN u = 1..Len(u)
  BY <1>2, FS_CardinalityType
<1>3. \E u \in [1..U!Cardinality(S) -> S] : Good(u)
  BY <1>1, <1>2, SetCardinality DEF Sorts, Increasing
<1>4. U!Sorted(S) \in [1..U!Cardinality(S) -> S] /\ Good(U!Sorted(S))
  <2> U!Sorted(S) = CHOOSE u \in [1..U!Cardinality(S) -> S] : Good(u)
    BY DEF U!Sorted
  <2> HIDE DEF Good
  <2> QED BY <1>3
<1> QED BY <1>2, <1>4, SetCardinality DEF Sorts, Increasing

\* What the fields of a util::set that stands for E are: its elements are in
\* the container in use, sorted if it is the vector, and the other one is empty.
SetSound(c, E) ==
    /\ c = [s |-> c.s, v |-> c.v, frozen |-> c.frozen] /\ c.frozen \in BOOLEAN
    /\ E \in SUBSET SetElem /\ IsFiniteSet(E)
    /\ IF c.frozen THEN c.s = {} /\ c.v = U!Sorted(E) ELSE c.v = <<>> /\ c.s = E

LEMMA SortedElements ==
    ASSUME NEW E \in SUBSET SetElem, IsFiniteSet(E)
    PROVE  /\ Sorts(U!Sorted(E), E) /\ U!Sorted(E) \in Seq(Int)
           /\ U!ToSet(U!Sorted(E)) = E /\ Len(U!Sorted(E)) = Cardinality(E)
<1>1. E \in SUBSET Int /\ Cardinality(E) \in Nat
  BY SetElemAssumption, FS_CardinalityType
<1>2. Sorts(U!Sorted(E), E)
  BY <1>1, SortedSorts
<1>3. U!Sorted(E) \in [1..Cardinality(E) -> E] /\ U!ToSet(U!Sorted(E)) = E
  BY <1>2 DEF Sorts
<1> HIDE DEF U!Sorted
<1>4. U!Sorted(E) \in Seq(Int) /\ Len(U!Sorted(E)) = Cardinality(E)
  BY <1>1, <1>3, FunctionIsSeq
<1> QED BY <1>2, <1>3, <1>4

LEMMA EmptySetSound == SetSound(U!EmptySet, {})
BY FS_EmptySet DEF SetSound, U!EmptySet

LEMMA ThawedSound ==
    ASSUME NEW c, NEW E, SetSound(c, E)
    PROVE  SetSound(U!Thawed(c), E) /\ ~ U!Thawed(c).frozen
BY SortedElements DEF SetSound, U!Thawed, U!SetUnfreeze

LEMMA ReadSound ==
    ASSUME NEW c, NEW E, SetSound(c, E)
    PROVE  SetSound(U!Read(c), E) /\ U!Read(c).frozen
<1>1. <<>> \o U!Sorted(E) = U!Sorted(E)
  BY SortedElements DEF SetSound
<1> QED BY <1>1 DEF SetSound, U!Read, U!SetFreeze

LEMMA SetInsertSound ==
    ASSUME NEW c, NEW E, SetSound(c, E), NEW e \in SetElem
    PROVE  SetSound(U!SetInsert(c, e), E \cup {e})
<1>1. PICK t : t = U!Thawed(c)
  OBVIOUS
<1>2. SetSound(t, E) /\ ~ t.frozen
  BY <1>1, ThawedSound
<1>3. U!SetInsert(c, e) = [t EXCEPT !.s = t.s \cup {e}]
  BY <1>1 DEF U!SetInsert
<1>4. IsFiniteSet(E \cup {e}) /\ E \cup {e} \in SUBSET SetElem
  BY <1>2, FS_AddElement DEF SetSound
<1> QED BY <1>2, <1>3, <1>4 DEF SetSound

LEMMA SetRemoveSound ==
    ASSUME NEW c, NEW E, SetSound(c, E), NEW e \in SetElem
    PROVE  SetSound(U!SetRemove(c, e), E \ {e})
BY ThawedSound, FS_RemoveElement, FS_Subset DEF SetSound, U!SetRemove

LEMMA SetClearSound ==
    ASSUME NEW c, NEW E, SetSound(c, E)
    PROVE  SetSound(U!SetClear(c), {})
BY FS_EmptySet DEF SetSound, U!SetClear

SetInv ==
    /\ DOMAIN set = Obj /\ set = [o \in Obj |-> set[o]]
    /\ DOMAIN elts = Obj /\ elts = [o \in Obj |-> elts[o]]
    /\ \A o \in Obj : SetSound(set[o], elts[o])

LEMMA SetStep ==
    ASSUME SetInv, [U!Next]_(U!vars)
    PROVE  SetInv'
<1> USE DEF SetInv
<1>1. ASSUME NEW o \in Obj, NEW e \in SetElem, U!Insert(o, e) PROVE SetInv'
  BY <1>1, SetInsertSound DEF U!Insert
<1>2. ASSUME NEW o \in Obj, NEW e \in SetElem, U!Erase(o, e) PROVE SetInv'
  BY <1>2, SetRemoveSound DEF U!Erase
<1>3. ASSUME NEW o \in Obj, U!Clear(o) PROVE SetInv'
  BY <1>3, SetClearSound DEF U!Clear
<1>4. ASSUME NEW o \in Obj, U!ReadByIndex(o) PROVE SetInv'
  BY <1>4, ReadSound DEF U!ReadByIndex
<1>5. ASSUME NEW o \in Obj, NEW other \in Obj \ {o}, U!InsertAll(o, other) PROVE SetInv'
  <2> DEFINE c == U!Thawed(set[o])
             r == U!Read(set[other])
             j == [c EXCEPT !.s = @ \cup U!ToSet(r.v)]
             E == elts[o] \cup elts[other]
  <2>1. set' = [p \in Obj |-> IF p = o THEN j ELSE IF p = other THEN r ELSE set[p]]
    BY <1>5 DEF U!InsertAll
  <2>2. elts' = [p \in Obj |-> IF p = o THEN E ELSE elts[p]]
    BY <1>5 DEF U!InsertAll
  <2>3. SetSound(r, elts[other]) /\ r.frozen
    BY ReadSound
  <2>4. SetSound(c, elts[o]) /\ ~ c.frozen
    BY ThawedSound
  <2>5. U!ToSet(r.v) = elts[other]
    BY <2>3, SortedElements DEF SetSound
  <2> HIDE DEF c, r
  <2>6. SetSound(j, E)
    <3>1. IsFiniteSet(E) /\ E \in SUBSET SetElem
      BY <2>3, <2>4, FS_Union DEF SetSound
    <3>2. j = [c EXCEPT !.s = c.s \cup elts[other]]
      BY <2>5
    <3> HIDE DEF j
    <3> QED BY <2>4, <3>1, <3>2 DEF SetSound
  <2> HIDE DEF j, E
  <2> QED BY <2>1, <2>2, <2>3, <2>6
<1>6. CASE UNCHANGED U!vars
  BY <1>6 DEF U!vars
<1> QED BY <1>1, <1>2, <1>3, <1>4, <1>5, <1>6 DEF U!Next, U!Call

LEMMA SetInit == U!Init => SetInv
BY EmptySetSound DEF U!Init, SetInv

\* The methods that only read answer for E.
LEMMA SetAnswers ==
    ASSUME NEW c, NEW E, SetSound(c, E)
    PROVE  /\ U!SetNelements(c) = U!Cardinality(E)
           /\ \A e \in SetElem : U!SetHas(c, e) <=> e \in E
           /\ E # {} => U!SetFirst(c) = U!Min(E) /\ U!SetLast(c) = U!Max(E)
<1> DEFINE V == U!Sorted(E)
<1>0. E \in SUBSET Int /\ IsFiniteSet(E) /\ SetElem \subseteq Int
  BY SetElemAssumption DEF SetSound
<1>1. PICK N \in Nat : N = Cardinality(E)
  BY <1>0, FS_CardinalityType
<1>2. /\ V \in Seq(Int) /\ Len(V) = N /\ Increasing(V)
      /\ \A i \in 1..N : V[i] \in E /\ V[i] \in Int
      /\ \A q \in E : \E i \in 1..N : V[i] = q
      /\ \A i, j \in 1..N : i < j => V[i] < V[j]
  BY <1>0, <1>1, SortedElements DEF SetSound, Sorts, Increasing, U!ToSet
<1>3. c.frozen => c.v = V
  BY DEF SetSound
<1>4. ~ c.frozen => c.s = E
  BY DEF SetSound
<1> HIDE DEF V
<1>5. U!SetNelements(c) = U!Cardinality(E)
  BY <1>1, <1>2, <1>3, <1>4, SetCardinality DEF U!SetNelements
<1>6. ASSUME c.frozen, NEW e \in SetElem PROVE U!SetHas(c, e) <=> e \in E
  <2> DEFINE Here == N > 0 /\ V[1] <= e /\ e <= V[N] /\ V[U!Dicho(V, e) + 1] = e
  <2>1. U!SetHas(c, e) <=> Here
    BY <1>2, <1>3, <1>6 DEF U!SetHas
  <2>2. CASE N = 0
    BY <1>2, <2>1, <2>2
  <2>3. CASE N # 0
    <3>1. PICK i : i = U!Dicho(V, e)
      OBVIOUS
    <3>2. Stops(V, e, 0, N, i)
      BY <1>0, <1>2, <2>3, <3>1, DichoStops
    <3>3. i \in 0..(N - 1) /\ i + 1 \in 1..N
      BY <1>1, <3>2 DEF Stops
    <3>4. ASSUME Here PROVE e \in E
      BY <1>2, <3>1, <3>3, <3>4
    <3>5. ASSUME e \in E PROVE Here
      <4>1. PICK k \in 1..N : V[k] = e
        BY <1>2, <3>5
      <4>2. 1 \in 1..N /\ N \in 1..N
        BY <1>1, <2>3
      <4>3. V[1] <= e
        <5>1. k = 1 \/ 1 < k
          OBVIOUS
        <5> QED BY <1>0, <1>2, <4>1, <4>2, <5>1
      <4>4. e <= V[N]
        <5>1. k = N \/ k < N
          OBVIOUS
        <5> QED BY <1>0, <1>2, <4>1, <4>2, <5>1
      <4>5. ~ (i + 1 < k)
        <5>1. ASSUME i + 1 < k PROVE FALSE
          <6>1. k - 1 \in (i + 1)..(N - 1) /\ (k - 1) + 1 = k
            BY <3>3, <5>1
          <6>2. e < V[(k - 1) + 1]
            BY <3>2, <6>1 DEF Stops
          <6> QED BY <1>0, <4>1, <6>1, <6>2
        <5> QED BY <5>1
      <4>6. ~ (k < i + 1)
        <5>1. ASSUME k < i + 1 PROVE FALSE
          <6>1. i # 0
            BY <5>1
          <6>2. V[i + 1] <= e
            BY <3>2, <6>1 DEF Stops
          <6>3. V[k] < V[i + 1]
            BY <1>2, <3>3, <5>1
          <6>4. PICK p \in Int : p = V[i + 1]
            BY <1>2, <3>3
          <6>5. p <= e /\ e < p
            BY <4>1, <6>2, <6>3, <6>4
          <6> QED BY <1>0, <6>4, <6>5
        <5> QED BY <5>1
      <4>7. i + 1 = k
        BY <3>3, <4>5, <4>6
      <4>8. V[U!Dicho(V, e) + 1] = e
        BY <3>1, <4>1, <4>7
      <4> QED BY <2>3, <1>1, <4>3, <4>4, <4>8
    <3> HIDE DEF Here
    <3> QED BY <2>1, <3>4, <3>5
  <2> QED BY <2>2, <2>3
<1>7. ASSUME ~ c.frozen, NEW e \in SetElem PROVE U!SetHas(c, e) <=> e \in E
  BY <1>4, <1>7 DEF U!SetHas
<1>8. ASSUME E # {} PROVE U!SetFirst(c) = U!Min(E) /\ U!SetLast(c) = U!Max(E)
  <2>1. 1 \in 1..N /\ N \in 1..N
    BY <1>1, <1>2, <1>8
  <2>2. U!SetFirst(c) = V[1] /\ U!SetLast(c) = V[N]
    BY <1>1, <1>2, <1>3, <1>4, SetCardinality DEF U!SetFirst, U!SetLast, V
  <2>3. ASSUME NEW q \in E PROVE V[1] <= q /\ V[N] >= q
    <3>1. PICK k \in 1..N : V[k] = q
      BY <1>2
    <3>2. (k = 1 \/ 1 < k) /\ (k = N \/ k < N)
      OBVIOUS
    <3> QED BY <1>0, <1>2, <2>1, <3>1, <3>2
  <2>4. V[1] \in E /\ V[N] \in E
    BY <1>2, <2>1
  <2>5. \A q \in E : (\A r \in E : q <= r) => q = V[1]
    <3>1. ASSUME NEW q \in E, \A r \in E : q <= r PROVE q = V[1]
      <4>1. q <= V[1] /\ V[1] <= q /\ q \in Int /\ V[1] \in Int
        BY <1>0, <2>3, <2>4, <3>1
      <4> QED BY <4>1
    <3> QED BY <3>1
  <2>6. \A q \in E : (\A r \in E : q >= r) => q = V[N]
    <3>1. ASSUME NEW q \in E, \A r \in E : q >= r PROVE q = V[N]
      <4>1. q >= V[N] /\ V[N] >= q /\ q \in Int /\ V[N] \in Int
        BY <1>0, <2>3, <2>4, <3>1
      <4> QED BY <4>1
    <3> QED BY <3>1
  <2>7. U!Min(E) = V[1]
    BY <2>3, <2>4, <2>5 DEF U!Min
  <2>8. U!Max(E) = V[N]
    BY <2>3, <2>4, <2>6 DEF U!Max
  <2> QED BY <2>2, <2>7, <2>8
<1> QED BY <1>5, <1>6, <1>7, <1>8 DEF SetSound

\* util::set keeps one representation, loses nothing between them, and answers
\* for what was inserted and not removed, by the tree or by the bisection.
THEOREM SetHolds == MCSpec => []SetHoldsElements
<1>1. SetInv => SetHoldsElements
  <2> SUFFICES ASSUME SetInv PROVE SetHoldsElements
    OBVIOUS
  <2>1. U!OneRepresentation
    BY DEF U!OneRepresentation, SetInv, SetSound
  <2>2. U!HoldsElements
    BY SortedElements DEF U!HoldsElements, SetInv, SetSound, U!ToSet
  <2>3. U!AnswersAgree
    BY SetAnswers DEF U!AnswersAgree, SetInv
  <2> QED BY <2>1, <2>2, <2>3 DEF SetHoldsElements
<1> QED BY <1>1, SetInit, SetStep, EachContainer, PTL DEF U!Spec
=============================================================================
