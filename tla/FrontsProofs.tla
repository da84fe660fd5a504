---------------------------- MODULE FrontsProofs ----------------------------
(***************************************************************************)
(* What the algorithms that expand a front promise, whichever runs, on any  *)
(* image, with any neighborhood, any number of labels and any order of the  *)
(* sites of equal value.  MCInit starts flooding from the markers that two  *)
(* sort orders give, found in a way that suits TLC; here each algorithm     *)
(* starts as its own module says.                                           *)
(***************************************************************************)
EXTENDS MCFronts, RegionsProofs

(***************************************************************************)
(* Flooding: basins never touch, the queue holds the front and serves the   *)
(* lowest level, what is left unmarked is the line, and each basin is in    *)
(* one piece.                                                               *)
(***************************************************************************)
-----------------------------------------------------------------------------
(* The priority queue: each level in use has a queue of sites of that       *)
(* level, each site is in one cell, and n counts the sites.                 *)

Live(Q) == (Q.begin + 1)..Q.end
SitesIn(Q) == {Q.q[x] : x \in Live(Q)}

QueueSound(Q, v, lv) ==
    /\ Q = [q |-> Q.q, begin |-> Q.begin, end |-> Q.end]
    /\ Q.q \in Seq(Site) /\ Q.begin \in Nat /\ Q.end = Len(Q.q) /\ Q.begin <= Q.end
    /\ \A x \in Live(Q) : lv[Q.q[x]] = v
    /\ \A x, y \in Live(Q) : Q.q[x] = Q.q[y] => x = y

HeldBy(Pq) == {e \in Site : \E v \in Pq.p : e \in SitesIn(Pq.q[v])}

PrioritySound(Pq, lv) ==
    /\ Pq.p \subseteq 0..MaxValue /\ DOMAIN Pq.q = Pq.p
    /\ \A v \in Pq.p : QueueSound(Pq.q[v], v, lv) /\ Pq.q[v].begin < Pq.q[v].end
    /\ Pq.n = Cardinality(HeldBy(Pq))

LEMMA LiveSites ==
    ASSUME NEW Q, NEW v, NEW lv, QueueSound(Q, v, lv)
    PROVE  \A x \in Live(Q) : x \in 1..Len(Q.q) /\ Q.q[x] \in Site
<1>1. \A x \in Live(Q) : x \in 1..Len(Q.q)
  BY DEF QueueSound, Live
<1> QED BY <1>1 DEF QueueSound

LEMMA QueuePushSound ==
    ASSUME NEW Q, NEW v, NEW lv, QueueSound(Q, v, lv),
           NEW e \in Site, lv[e] = v, e \notin SitesIn(Q)
    PROVE  /\ QueueSound(QueuePush(Q, e), v, lv)
           /\ QueuePush(Q, e).begin < QueuePush(Q, e).end
           /\ \A r : r \in SitesIn(QueuePush(Q, e)) <=> r \in SitesIn(Q) \/ r = e
<1> DEFINE R == QueuePush(Q, e)
           z == Q.end + 1
<1>1. /\ R.q = Append(Q.q, e) /\ R.begin = Q.begin /\ R.end = z
      /\ R = [q |-> R.q, begin |-> R.begin, end |-> R.end]
  BY DEF QueuePush
<1>2. Q.q \in Seq(Site) /\ Q.begin \in Nat /\ Q.end = Len(Q.q) /\ Q.begin <= Q.end /\ Q.end \in Nat
  BY DEF QueueSound
<1>3. R.q \in Seq(Site) /\ Len(R.q) = z /\ R.q[z] = e
  BY <1>1, <1>2
<1>4. \A x \in Live(Q) : x \in Live(R) /\ R.q[x] = Q.q[x] /\ x # z
  BY <1>1, <1>2 DEF Live
<1>5. \A x \in Live(R) : x \in Live(Q) \/ x = z
  BY <1>1, <1>2 DEF Live
<1>6. z \in Live(R) /\ R.begin < R.end
  BY <1>1, <1>2 DEF Live
<1>7. \A x \in Live(Q) : Q.q[x] # e
  BY DEF SitesIn
<1> HIDE DEF R, z
<1>8. \A x \in Live(R) : lv[R.q[x]] = v
  BY <1>3, <1>4, <1>5 DEF QueueSound
<1>9. ASSUME NEW x \in Live(R), NEW y \in Live(R), R.q[x] = R.q[y] PROVE x = y
  <2>1. \A a, b \in Live(Q) : Q.q[a] = Q.q[b] => a = b
    BY DEF QueueSound
  <2> QED BY <1>3, <1>4, <1>5, <1>7, <1>9, <2>1
<1>10. QueueSound(R, v, lv)
  <2>1. R.begin \in Nat /\ R.end = Len(R.q) /\ R.end \in Nat /\ R.begin <= R.end
    BY <1>1, <1>2, <1>3, <1>6
  <2>2. \A x, y \in Live(R) : R.q[x] = R.q[y] => x = y
    BY <1>9
  <2> QED BY <1>1, <1>3, <1>8, <2>1, <2>2 DEF QueueSound
<1>11. \A r : r \in SitesIn(R) <=> r \in SitesIn(Q) \/ r = e
  BY <1>3, <1>4, <1>5, <1>6 DEF SitesIn
<1> QED BY <1>6, <1>10, <1>11 DEF R

\* What pops leaves; the queue is not empty.
LEMMA QueuePopSound ==
    ASSUME NEW Q, NEW v, NEW lv, QueueSound(Q, v, lv), Q.begin < Q.end
    PROVE  /\ QueueSound(QueuePop(Q), v, lv)
           /\ QueueFront(Q) \in SitesIn(Q) /\ QueueFront(Q) \in Site
           /\ \A r : r \in SitesIn(QueuePop(Q)) <=> r \in SitesIn(Q) /\ r # QueueFront(Q)
           /\ ~ QueueIsEmpty(QueuePop(Q)) => QueuePop(Q).begin < QueuePop(Q).end
           /\ QueueIsEmpty(QueuePop(Q)) => SitesIn(QueuePop(Q)) = {}
<1> DEFINE R == QueuePop(Q)
           a == Q.begin + 1
<1>1. Q.q \in Seq(Site) /\ Q.begin \in Nat /\ Q.end = Len(Q.q) /\ Q.end \in Nat
  BY DEF QueueSound
<1>2. Q = [q |-> Q.q, begin |-> Q.begin, end |-> Q.end]
  BY DEF QueueSound
<1>3. R = [q |-> Q.q, begin |-> a, end |-> Q.end]
  BY <1>2 DEF QueuePop
<1>4. a \in Live(Q) /\ QueueFront(Q) = Q.q[a]
  BY <1>1 DEF Live, QueueFront, QueueAt
<1>5. \A x : x \in Live(R) <=> x \in Live(Q) /\ x # a
  BY <1>1, <1>3 DEF Live
<1>6. R.begin <= R.end /\ R.begin \in Nat
  BY <1>1, <1>3
<1>7. \A x, y \in Live(Q) : Q.q[x] = Q.q[y] => x = y
  BY DEF QueueSound
<1>8. \A x \in Live(Q) : lv[Q.q[x]] = v
  BY DEF QueueSound
<1>9. QueueSound(R, v, lv)
  BY <1>1, <1>3, <1>5, <1>6, <1>7, <1>8 DEF QueueSound
<1>10. R.q = Q.q
  BY <1>3
<1>11. \A r : r \in SitesIn(R) <=> r \in SitesIn(Q) /\ r # Q.q[a]
  BY <1>4, <1>5, <1>7, <1>10 DEF SitesIn
<1>12. ~ QueueIsEmpty(R) => R.begin < R.end
  BY <1>1, <1>3, <1>6 DEF QueueIsEmpty
<1>13. QueueIsEmpty(R) => SitesIn(R) = {}
  <2>1. QueueIsEmpty(R) => Live(R) = {}
    BY <1>1, <1>3, <1>6 DEF QueueIsEmpty, Live
  <2> QED BY <2>1 DEF SitesIn
<1>14. QueueFront(Q) \in SitesIn(Q) /\ QueueFront(Q) \in Site
  BY <1>4, LiveSites DEF SitesIn
<1> QED BY <1>4, <1>9, <1>11, <1>12, <1>13, <1>14

\* A site is held at its own level only.
LEMMA HeldAtLevel ==
    ASSUME NEW Pq, NEW lv, PrioritySound(Pq, lv)
    PROVE  /\ \A v \in Pq.p : \A e \in SitesIn(Pq.q[v]) : e \in HeldBy(Pq) /\ lv[e] = v
           /\ IsFiniteSet(HeldBy(Pq)) /\ Cardinality(HeldBy(Pq)) \in 0..N
           /\ Pq.n \in 0..N /\ (PriorityIsEmpty(Pq) <=> HeldBy(Pq) = {})
<1>1. ASSUME NEW v \in Pq.p, NEW e \in SitesIn(Pq.q[v])
      PROVE  e \in HeldBy(Pq) /\ lv[e] = v
  <2>1. QueueSound(Pq.q[v], v, lv)
    BY DEF PrioritySound
  <2>2. PICK x \in Live(Pq.q[v]) : e = Pq.q[v].q[x]
    BY DEF SitesIn
  <2>3. e \in Site
    BY <2>1, <2>2, LiveSites
  <2>4. lv[e] = v
    BY <2>1, <2>2 DEF QueueSound
  <2> QED BY <2>3, <2>4 DEF HeldBy
<1>2. IsFiniteSet(HeldBy(Pq)) /\ Cardinality(HeldBy(Pq)) \in 0..N
  <2>1. HeldBy(Pq) \subseteq Site
    BY DEF HeldBy
  <2>2. IsFiniteSet(HeldBy(Pq)) /\ Cardinality(HeldBy(Pq)) <= N
    BY <2>1, SitesAreFinite, FS_Subset
  <2> QED BY <2>2, FS_CardinalityType, SitesAreFinite
<1>3. Pq.n = Cardinality(HeldBy(Pq))
  BY DEF PrioritySound
<1>4. Cardinality(HeldBy(Pq)) = 0 <=> HeldBy(Pq) = {}
  BY <1>2, FS_EmptySet
<1> QED BY <1>1, <1>2, <1>3, <1>4 DEF PriorityIsEmpty

LEMMA EmptyPrioritySound ==
    ASSUME NEW lv
    PROVE  PrioritySound(EmptyPriority, lv) /\ HeldBy(EmptyPriority) = {}
<1>1. HeldBy(EmptyPriority) = {} /\ EmptyPriority.p = {} /\ EmptyPriority.n = 0
  BY DEF HeldBy, EmptyPriority
<1>2. DOMAIN EmptyPriority.q = {}
  BY DEF EmptyPriority
<1>3. Cardinality(HeldBy(EmptyPriority)) = 0
  BY <1>1, FS_EmptySet
<1> QED BY <1>1, <1>2, <1>3 DEF PrioritySound

LEMMA PushSound ==
    ASSUME NEW lv \in [Site -> 0..MaxValue], NEW Pq, PrioritySound(Pq, lv),
           NEW e \in Site, e \notin HeldBy(Pq)
    PROVE  /\ PrioritySound(PriorityPush(Pq, lv[e], e), lv)
           /\ HeldBy(PriorityPush(Pq, lv[e], e)) = HeldBy(Pq) \cup {e}
<1> DEFINE v == lv[e]
           R == PriorityPush(Pq, v, e)
           Q == QueueOf(Pq, v)
<1>1. /\ R.p = Pq.p \cup {v} /\ R.n = Pq.n + 1
      /\ R.q = SetQueue(Pq, v, QueuePush(Q, e))
  BY DEF PriorityPush
<1>2. DOMAIN Pq.q = Pq.p /\ Pq.p \subseteq 0..MaxValue /\ v \in 0..MaxValue
  BY DEF PrioritySound
<1>3. /\ DOMAIN R.q = R.p /\ R.q[v] = QueuePush(Q, e)
      /\ \A w \in Pq.p : w # v => R.q[w] = Pq.q[w]
  BY <1>1, <1>2 DEF SetQueue
<1>4. QueueSound(Q, v, lv) /\ SitesIn(Q) \subseteq HeldBy(Pq)
      /\ (v \in Pq.p => Q = Pq.q[v]) /\ (v \notin Pq.p => SitesIn(Q) = {})
  <2>1. CASE v \in Pq.p
    <3>1. Q = Pq.q[v]
      BY <1>2, <2>1 DEF QueueOf
    <3> QED BY <2>1, <3>1, HeldAtLevel DEF PrioritySound
  <2>2. CASE v \notin Pq.p
    <3>1. Q = [q |-> <<>>, begin |-> 0, end |-> 0]
      BY <1>2, <2>2 DEF QueueOf, EmptyQueue
    <3>2. Live(Q) = {}
      BY <3>1 DEF Live
    <3>3. Q.q \in Seq(Site) /\ Q.begin = 0 /\ Q.end = 0 /\ Len(Q.q) = 0
          /\ Q = [q |-> Q.q, begin |-> Q.begin, end |-> Q.end]
      BY <3>1
    <3> QED BY <2>2, <3>2, <3>3 DEF QueueSound, SitesIn
  <2> QED BY <2>1, <2>2
<1>5. /\ QueueSound(QueuePush(Q, e), v, lv)
      /\ QueuePush(Q, e).begin < QueuePush(Q, e).end
      /\ \A r : r \in SitesIn(QueuePush(Q, e)) <=> r \in SitesIn(Q) \/ r = e
  BY <1>4, QueuePushSound
<1> HIDE DEF Q, R, v
<1>6. ASSUME NEW r \in Site PROVE r \in HeldBy(R) <=> r \in HeldBy(Pq) \cup {e}
  <2>1. r \in HeldBy(R) <=> r \in SitesIn(R.q[v]) \/ \E w \in Pq.p : w # v /\ r \in SitesIn(R.q[w])
    BY <1>1 DEF HeldBy
  <2>2. r \in HeldBy(R) <=>
          r \in SitesIn(Q) \/ r = e \/ \E w \in Pq.p : w # v /\ r \in SitesIn(Pq.q[w])
    BY <1>3, <1>5, <2>1
  <2>3. r \in HeldBy(Pq) <=> r \in SitesIn(Q) \/ \E w \in Pq.p : w # v /\ r \in SitesIn(Pq.q[w])
    BY <1>4 DEF HeldBy
  <2> QED BY <2>2, <2>3
<1>7. HeldBy(R) = HeldBy(Pq) \cup {e}
  <2>1. HeldBy(R) \subseteq Site /\ HeldBy(Pq) \subseteq Site
    BY DEF HeldBy
  <2> QED BY <1>6, <2>1
<1>8. R.n = Cardinality(HeldBy(R))
  <2>1. IsFiniteSet(HeldBy(Pq)) /\ Pq.n = Cardinality(HeldBy(Pq))
    BY HeldAtLevel DEF PrioritySound
  <2>2. Cardinality(HeldBy(Pq) \cup {e}) = Cardinality(HeldBy(Pq)) + 1
    BY <2>1, FS_AddElement
  <2> QED BY <1>1, <1>7, <2>1, <2>2
<1>9. \A w \in R.p : QueueSound(R.q[w], w, lv) /\ R.q[w].begin < R.q[w].end
  BY <1>1, <1>3, <1>5 DEF PrioritySound
<1> QED BY <1>1, <1>2, <1>3, <1>7, <1>8, <1>9 DEF PrioritySound, v, R

\* The front is a held site of the highest level, and pops leaves the others.
LEMMA PopSound ==
    ASSUME NEW lv \in [Site -> 0..MaxValue], NEW Pq, PrioritySound(Pq, lv),
           ~ PriorityIsEmpty(Pq)
    PROVE  /\ PriorityFront(Pq) \in HeldBy(Pq)
           /\ \A e \in HeldBy(Pq) : lv[e] <= lv[PriorityFront(Pq)]
           /\ PrioritySound(PriorityPop(Pq), lv)
           /\ HeldBy(PriorityPop(Pq)) = HeldBy(Pq) \ {PriorityFront(Pq)}
<1> DEFINE v == HighestPriority(Pq)
           e == PriorityFront(Pq)
           R == PriorityPop(Pq)
           Q == QueuePop(Pq.q[v])
<1>1. Pq.p # {} /\ Pq.p \subseteq 0..MaxValue /\ DOMAIN Pq.q = Pq.p
  BY HeldAtLevel DEF PrioritySound, HeldBy
<1>2. v \in Pq.p /\ \A w \in Pq.p : w <= v
  <2> DEFINE Below == {MaxValue - w : w \in Pq.p}
  <2>1. Below \in SUBSET Nat /\ Below # {}
    BY <1>1, FloodingAssumption
  <2>2. PICK m \in Below : \A x \in Below : m <= x
    BY <2>1, LeastNat
  <2>3. \E w \in Pq.p : \A y \in Pq.p : w >= y
    <3>1. PICK w \in Pq.p : m = MaxValue - w
      BY <2>2
    <3>2. \A y \in Pq.p : m <= MaxValue - y /\ y \in Int /\ MaxValue \in Int
      BY <1>1, <2>2, FloodingAssumption
    <3>3. \A y \in Pq.p : w >= y
      BY <3>1, <3>2
    <3> QED BY <3>3
  <2>4. v \in Pq.p /\ \A w \in Pq.p : v >= w
    BY <2>3 DEF HighestPriority, Max
  <2> QED BY <1>1, <2>4
<1>3. QueueSound(Pq.q[v], v, lv) /\ Pq.q[v].begin < Pq.q[v].end
  BY <1>2 DEF PrioritySound
<1>4. e = QueueFront(Pq.q[v])
  BY DEF PriorityFront
<1>5. /\ QueueSound(Q, v, lv)
      /\ e \in SitesIn(Pq.q[v]) /\ e \in Site
      /\ \A r : r \in SitesIn(Q) <=> r \in SitesIn(Pq.q[v]) /\ r # e
      /\ ~ QueueIsEmpty(Q) => Q.begin < Q.end
      /\ QueueIsEmpty(Q) => SitesIn(Q) = {}
  BY <1>3, <1>4, QueuePopSound
<1>6. e \in HeldBy(Pq) /\ lv[e] = v
  BY <1>2, <1>5, HeldAtLevel
<1>7. \A r \in HeldBy(Pq) : lv[r] <= lv[e]
  <2>1. ASSUME NEW r \in HeldBy(Pq) PROVE lv[r] \in Pq.p
    <3>1. PICK w \in Pq.p : r \in SitesIn(Pq.q[w])
      BY DEF HeldBy
    <3> QED BY <3>1, HeldAtLevel
  <2> QED BY <1>2, <1>6, <2>1
<1>8. /\ R.n = Pq.n - 1 /\ R.p \subseteq Pq.p /\ DOMAIN R.q = R.p
      /\ \A w \in Pq.p : w # v => w \in R.p /\ R.q[w] = Pq.q[w]
      /\ IF QueueIsEmpty(Q) THEN v \notin R.p ELSE v \in R.p /\ R.q[v] = Q
  <2>1. R = PopAt(Pq, v)
    BY DEF PriorityPop
  <2>2. CASE QueueIsEmpty(Q)
    <3>1. R = [p |-> Pq.p \ {v}, q |-> EraseQueue(Pq, v), n |-> Pq.n - 1]
      BY <2>1, <2>2 DEF PopAt
    <3>2. R.p = Pq.p \ {v} /\ R.n = Pq.n - 1 /\ R.q = [w \in Pq.p \ {v} |-> Pq.q[w]]
      BY <1>1, <3>1 DEF EraseQueue
    <3> HIDE DEF R, Q, v
    <3> QED BY <2>2, <3>2
  <2>3. CASE ~ QueueIsEmpty(Q)
    <3>1. R = [p |-> Pq.p, q |-> SetQueue(Pq, v, Q), n |-> Pq.n - 1]
      BY <2>1, <2>3 DEF PopAt
    <3>2. /\ R.p = Pq.p /\ R.n = Pq.n - 1
          /\ R.q = [w \in Pq.p |-> IF w = v THEN Q ELSE Pq.q[w]]
      BY <1>1, <1>2, <3>1 DEF SetQueue
    <3> HIDE DEF R, Q, v
    <3> QED BY <1>2, <2>3, <3>2
  <2> QED BY <2>2, <2>3
<1> HIDE DEF R, Q, v, e
<1>9. ASSUME NEW r \in Site PROVE r \in HeldBy(R) <=> r \in HeldBy(Pq) /\ r # e
  <2>1. r \in HeldBy(R) <=> r \in SitesIn(Q) \/ \E w \in Pq.p : w # v /\ r \in SitesIn(Pq.q[w])
    <3>1. CASE QueueIsEmpty(Q)
      <4>1. r \notin SitesIn(Q) /\ \A w : w \in R.p <=> w \in Pq.p /\ w # v
        BY <1>5, <1>8, <3>1
      <4> QED BY <1>8, <4>1 DEF HeldBy
    <3>2. CASE ~ QueueIsEmpty(Q)
      <4>1. R.q[v] = Q /\ v \in R.p /\ \A w : w \in R.p /\ w # v <=> w \in Pq.p /\ w # v
        BY <1>8, <3>2
      <4> QED BY <1>8, <4>1 DEF HeldBy
    <3> QED BY <3>1, <3>2
  <2>2. \A w \in Pq.p : w # v => e \notin SitesIn(Pq.q[w])
    BY <1>6, HeldAtLevel
  <2>3. r \in HeldBy(Pq) <=> \E w \in Pq.p : r \in SitesIn(Pq.q[w])
    BY DEF HeldBy
  <2> QED BY <1>2, <1>5, <2>1, <2>2, <2>3
<1>10. HeldBy(R) = HeldBy(Pq) \ {e}
  <2>1. HeldBy(R) \subseteq Site /\ HeldBy(Pq) \subseteq Site
    BY DEF HeldBy
  <2> QED BY <1>9, <2>1
<1>11. R.n = Cardinality(HeldBy(R))
  <2>1. IsFiniteSet(HeldBy(Pq)) /\ Pq.n = Cardinality(HeldBy(Pq))
    BY HeldAtLevel DEF PrioritySound
  <2> QED BY <1>6, <1>8, <1>10, <2>1, FS_RemoveElement
<1>12. \A w \in R.p : QueueSound(R.q[w], w, lv) /\ R.q[w].begin < R.q[w].end
  <2>1. ASSUME NEW w \in R.p, w # v PROVE QueueSound(R.q[w], w, lv) /\ R.q[w].begin < R.q[w].end
    BY <1>8, <2>1 DEF PrioritySound
  <2>2. v \in R.p => QueueSound(R.q[v], v, lv) /\ R.q[v].begin < R.q[v].end
    BY <1>5, <1>8
  <2> QED BY <2>1, <2>2
<1>13. PrioritySound(R, lv)
  BY <1>1, <1>8, <1>11, <1>12 DEF PrioritySound
<1> QED BY <1>6, <1>7, <1>10, <1>13 DEF R, e

Levels == [q \in Site |-> Level(q)]

LEMMA LevelsFit ==
    ASSUME input \in [Site -> 0..MaxValue]
    PROVE  /\ Levels \in [Site -> 0..MaxValue]
           /\ \A q \in Site : Levels[q] = Level(q)
           /\ \A q, r \in Site : Levels[q] <= Levels[r] => input[r] <= input[q]
BY FloodingAssumption DEF Levels, Level

\* What a step of the loop of PushUpTo makes of what was pushed so far.
PushOne(p, out, j, st) ==
    IF Fresh(Nbh[p][j], out, st.waiting)
      THEN [queue |-> PriorityPush(st.queue, Level(Nbh[p][j]), Nbh[p][j]),
            waiting |-> [st.waiting EXCEPT ![Nbh[p][j]] = TRUE]]
      ELSE st

Pushes(g, p, m, rest, out) ==
    g = [j \in 0..m |-> IF j = 0 THEN [queue |-> rest, waiting |-> in_queue]
                                 ELSE PushOne(p, out, j, g[j - 1])]

LEMMA PushesExist ==
    ASSUME NEW p, NEW n \in Nat, NEW rest, NEW out
    PROVE  \E g : Pushes(g, p, n, rest, out)
<1> DEFINE Bad == {m \in 0..n : ~ \E g : Pushes(g, p, m, rest, out)}
           Base == [queue |-> rest, waiting |-> in_queue]
<1>1. SUFFICES ASSUME Bad # {} PROVE FALSE
  BY <1>1
<1>2. PICK m \in Bad : \A l \in Bad : m <= l
  <2>1. Bad \in SUBSET Nat
    OBVIOUS
  <2> HIDE DEF Bad
  <2> QED BY <1>1, <2>1, LeastNat
<1>3. m # 0
  <2>1. Pushes([j \in 0..0 |-> Base], p, 0, rest, out)
    BY DEF Pushes
  <2> QED BY <2>1
<1>4. m \in 1..n /\ m - 1 \in 0..n /\ m - 1 \notin Bad
  BY <1>2, <1>3
<1>5. PICK g : Pushes(g, p, m - 1, rest, out)
  BY <1>4
<1> DEFINE h == [j \in 0..m |-> IF j = m THEN PushOne(p, out, m, g[m - 1]) ELSE g[j]]
<1>6. \A j \in 0..(m - 1) : g[j] = IF j = 0 THEN Base ELSE PushOne(p, out, j, g[j - 1])
  BY <1>5 DEF Pushes
<1>7. ASSUME NEW j \in 0..m
      PROVE  h[j] = IF j = 0 THEN Base ELSE PushOne(p, out, j, h[j - 1])
  <2>1. CASE j = m
    <3>1. h[j - 1] = g[m - 1] /\ h[j] = PushOne(p, out, m, g[m - 1])
      BY <1>4, <2>1
    <3> QED BY <1>4, <2>1, <3>1
  <2>2. CASE j # m
    <3>1. j \in 0..(m - 1) /\ h[j] = g[j]
      BY <1>4, <2>2
    <3>2. j # 0 => h[j - 1] = g[j - 1]
      BY <1>4, <2>2
    <3> QED BY <1>6, <3>1, <3>2
  <2> QED BY <2>1, <2>2
<1>8. h = [j \in 0..m |-> IF j = 0 THEN Base ELSE PushOne(p, out, j, h[j - 1])]
  <2>1. h = [j \in 0..m |-> h[j]]
    OBVIOUS
  <2> HIDE DEF h
  <2> QED BY <1>7, <2>1
<1>9. Pushes(h, p, m, rest, out)
  <2> HIDE DEF h
  <2> QED BY <1>8 DEF Pushes
<1> QED BY <1>4, <1>9

\* The unmarked neighbours of p among its first m ones.
FreeUpTo(p, m, out) == {q \in Site : out[q] = unmarked /\ \E x \in 1..m : Nbh[p][x] = q}

\* What PushUpTo has made of the queue and of in_queue.
Pushed(st, free, rest) ==
    /\ PrioritySound(st.queue, Levels)
    /\ st.waiting \in [Site -> BOOLEAN]
    /\ \A q \in Site : st.waiting[q] <=> in_queue[q] \/ q \in free
    /\ HeldBy(st.queue) = HeldBy(rest) \cup {q \in free : ~ in_queue[q]}

LEMMA PushOneSound ==
    ASSUME input \in [Site -> 0..MaxValue], NEW rest,
           \A q \in HeldBy(rest) : in_queue[q],
           NEW p \in Site, NEW out, NEW m \in 1..Len(Nbh[p]), NEW st,
           Pushed(st, FreeUpTo(p, m - 1, out), rest)
    PROVE  Pushed(PushOne(p, out, m, st), FreeUpTo(p, m, out), rest)
<1> DEFINE q == Nbh[p][m]
           F == FreeUpTo(p, m - 1, out)
           R == PushOne(p, out, m, st)
<1>1. q \in Site \cup {Outside} /\ Outside \notin Site
  BY RegionsAssumption DEF Site, Outside
<1>2. \A r : r \in FreeUpTo(p, m, out) <=> r \in F \/ (r = q /\ r \in Site /\ out[r] = unmarked)
  <2>1. Len(Nbh[p]) \in Nat
    BY RegionsAssumption
  <2>2. \A x : x \in 1..m <=> x \in 1..(m - 1) \/ x = m
    BY <2>1
  <2> QED BY <2>2 DEF FreeUpTo
<1>3. \A r \in F : r \in Site /\ out[r] = unmarked
  BY DEF FreeUpTo
<1> HIDE DEF F, q
<1>4. CASE Fresh(q, out, st.waiting)
  <2>1. q \in Site /\ out[q] = unmarked /\ ~ st.waiting[q]
    BY <1>1, <1>4 DEF Fresh
  <2>2. ~ in_queue[q] /\ q \notin F
    BY <2>1 DEF Pushed, F
  <2>3. q \notin HeldBy(st.queue)
    BY <2>2 DEF Pushed, F
  <2>4. R.queue = PriorityPush(st.queue, Level(q), q) /\ R.waiting = [st.waiting EXCEPT ![q] = TRUE]
    BY <1>4 DEF PushOne, q
  <2>5. Level(q) = Levels[q]
    BY <2>1, LevelsFit
  <2>6. /\ PrioritySound(R.queue, Levels)
        /\ HeldBy(R.queue) = HeldBy(st.queue) \cup {q}
    BY <2>1, <2>3, <2>4, <2>5, PushSound, LevelsFit DEF Pushed
  <2>7. R.waiting \in [Site -> BOOLEAN] /\ \A r \in Site : R.waiting[r] <=> st.waiting[r] \/ r = q
    BY <2>1, <2>4 DEF Pushed
  <2>8. FreeUpTo(p, m, out) = F \cup {q}
    BY <1>2, <2>1
  <2> HIDE DEF R
  <2>9. \A r \in Site : R.waiting[r] <=> in_queue[r] \/ r \in F \cup {q}
    BY <2>7 DEF Pushed, F
  <2>10. HeldBy(R.queue) = HeldBy(rest) \cup {r \in F \cup {q} : ~ in_queue[r]}
    BY <2>2, <2>6 DEF Pushed, F
  <2> QED BY <2>6, <2>7, <2>8, <2>9, <2>10 DEF Pushed, R
<1>5. CASE ~ Fresh(q, out, st.waiting)
  <2>1. R = st
    BY <1>5 DEF PushOne, q
  <2>2. CASE q \in Site /\ out[q] = unmarked
    <3>1. st.waiting[q]
      BY <1>1, <1>5, <2>2 DEF Fresh
    <3>2. in_queue[q] \/ q \in F
      BY <2>2, <3>1 DEF Pushed, F
    <3>3. FreeUpTo(p, m, out) = F \cup {q}
      BY <1>2, <2>2
    <3> HIDE DEF R
    <3>4. \A r \in Site : st.waiting[r] <=> in_queue[r] \/ r \in F \cup {q}
      BY <3>2 DEF Pushed, F
    <3>5. {r \in F \cup {q} : ~ in_queue[r]} = {r \in F : ~ in_queue[r]}
      BY <3>2
    <3> QED BY <2>1, <3>3, <3>4, <3>5 DEF Pushed, F, R
  <2>3. CASE ~ (q \in Site /\ out[q] = unmarked)
    <3>1. FreeUpTo(p, m, out) = F
      BY <1>2, <2>3
    <3> QED BY <2>1, <3>1 DEF F
  <2> QED BY <2>2, <2>3
<1> QED BY <1>4, <1>5 DEF q

PushChosen(p, out, j, st) == CHOOSE now \in {Push(p, j, out, seen) : seen \in {st}} : TRUE

LEMMA PushChosenIs == \A p, out, j, st : PushChosen(p, out, j, st) = PushOne(p, out, j, st)
<1> TAKE p, out, j, st
<1>1. Push(p, j, out, st) = PushOne(p, out, j, st)
  BY DEF Push, PushOne
<1>2. {Push(p, j, out, seen) : seen \in {st}} = {Push(p, j, out, st)}
  OBVIOUS
<1>3. PushChosen(p, out, j, st) \in {Push(p, j, out, st)}
  BY <1>2 DEF PushChosen
<1> QED BY <1>1, <1>3

LEMMA PushFreshSound ==
    ASSUME input \in [Site -> 0..MaxValue], in_queue \in [Site -> BOOLEAN],
           NEW rest, PrioritySound(rest, Levels), \A q \in HeldBy(rest) : in_queue[q],
           NEW p \in Site, NEW out
    PROVE  Pushed(PushFresh(p, rest, out), {q \in Neighbours[p] : out[q] = unmarked}, rest)
<1> DEFINE n == Len(Nbh[p])
           Base == [queue |-> rest, waiting |-> in_queue]
           Loop(g) == [j \in 0..n |-> IF j = 0 THEN Base ELSE PushChosen(p, out, j, g[j - 1])]
           after == CHOOSE g : g = Loop(g)
<1>1. n \in Nat
  BY RegionsAssumption
<1>2. Pushes(after, p, n, rest, out)
  <2>1. PICK g : Pushes(g, p, n, rest, out)
    BY <1>1, PushesExist
  <2>2. \A f : Loop(f) = [j \in 0..n |-> IF j = 0 THEN Base ELSE PushOne(p, out, j, f[j - 1])]
    BY PushChosenIs
  <2>3. g = Loop(g)
    BY <2>1, <2>2 DEF Pushes
  <2> HIDE DEF Loop
  <2>4. after = Loop(after)
    BY <2>3
  <2> QED BY <2>2, <2>4 DEF Pushes
<1>3. PushFresh(p, rest, out) = after[n]
  BY DEF PushFresh, PushUpTo, PushChosen
<1> HIDE DEF Loop, after
<1>4. \A j \in 0..n : after[j] = IF j = 0 THEN Base ELSE PushOne(p, out, j, after[j - 1])
  BY <1>2 DEF Pushes
<1> DEFINE Bad == {j \in 0..n : ~ Pushed(after[j], FreeUpTo(p, j, out), rest)}
<1>5. ASSUME Bad # {} PROVE FALSE
  <2>1. PICK m \in Bad : \A j \in Bad : m <= j
    <3>1. Bad \in SUBSET Nat
      BY <1>1
    <3> HIDE DEF Bad
    <3> QED BY <1>5, <3>1, LeastNat
  <2>2. m # 0
    <3>1. FreeUpTo(p, 0, out) = {} /\ after[0] = Base
      BY <1>1, <1>4 DEF FreeUpTo
    <3>2. Pushed(Base, {}, rest)
      BY DEF Pushed
    <3> QED BY <3>1, <3>2
  <2>3. m \in 1..n /\ m - 1 \in 0..n /\ m - 1 \notin Bad
    BY <1>1, <2>1, <2>2
  <2>4. Pushed(after[m - 1], FreeUpTo(p, m - 1, out), rest)
    BY <2>3
  <2>5. Pushed(PushOne(p, out, m, after[m - 1]), FreeUpTo(p, m, out), rest)
    BY <2>3, <2>4, PushOneSound
  <2> QED BY <1>4, <2>1, <2>3, <2>5
<1>6. Pushed(after[n], FreeUpTo(p, n, out), rest)
  BY <1>1, <1>5
<1>7. FreeUpTo(p, n, out) = {q \in Neighbours[p] : out[q] = unmarked}
  <2>1. DOMAIN Nbh[p] = 1..n
    BY RegionsAssumption
  <2> QED BY <2>1 DEF FreeUpTo, Neighbours
<1> QED BY <1>3, <1>6, <1>7

-----------------------------------------------------------------------------
(* Minima and markers.                                                      *)

Zone(q) == FlatZone(input, q)

\* What is around a minimum is higher.
LEMMA OutsideIsHigher ==
    ASSUME input \in [Site -> 0..MaxValue], NEW q \in Site, Zone(q) \in Minima(input),
           NEW p \in Zone(q), NEW r \in Neighbours[p], r \notin Zone(q)
    PROVE  p \in Site /\ r \in Site /\ input[p] = input[q] /\ input[p] < input[r]
<1>1. p \in Site /\ FlatZone(input, p) = FlatZone(input, q) /\ input[p] = input[q]
  BY ZoneFacts DEF Zone
<1>2. r \in Site
  BY <1>1, NeighboursSymmetric
<1>3. input[p] <= input[r]
  BY MinimumIsZone
<1>4. input[p] # input[r]
  BY <1>1, ZoneFacts DEF Zone
<1>5. input[p] \in Int /\ input[r] \in Int
  BY <1>1, <1>2, FloodingAssumption
<1> QED BY <1>1, <1>2, <1>3, <1>4, <1>5

\* Markers number minima, or parts of them.
AreMarkers(m) ==
    /\ m \in [Site -> 0..MaxLabel]
    /\ \A q \in Site : m[q] # unmarked => Zone(q) \in Minima(input)
    /\ \A q, r \in Site : m[q] # unmarked /\ m[r] # unmarked =>
         (m[q] = m[r] <=> Zone(q) = Zone(r))

LEMMA MarkersNumberMinima ==
    ASSUME input \in [Site -> 0..MaxValue], NEW s, IsSiteArray(s)
    PROVE  AreMarkers(Markers(Minima(input), s))
<1> DEFINE full == Numbered(Minima(input), s)
           m == Markers(Minima(input), s)
           stop == {j \in 1..N : full[s[j]] > MaxLabel}
<1>1. Parted(Minima(input))
  <2>1. Minima(input) \in SUBSET FlatZones(input)
    BY DEF Minima
  <2> QED BY <2>1, ZonesParted
<1>2. /\ \A q \in Site : q \notin UNION Minima(input) => full[q] = 0
      /\ \A Z \in Minima(input) : \A q \in Z : full[q] \in 1..Cardinality(Minima(input))
      /\ \A Y, Z \in Minima(input) : \A q \in Y, r \in Z : full[q] = full[r] => Y = Z
      /\ \A Z \in Minima(input) : \A q \in Z :
           full[q] = Cardinality(MetBy(Minima(input), s, FirstIn(Z, s)))
  BY <1>1, NumberedFacts
<1>3. Cardinality(Minima(input)) \in Nat
  BY <1>1, PartedFinite
<1>4. m = [q \in Site |-> IF \E j \in 1..N : s[j] = q /\ \A l \in stop : j < l
                            THEN full[q] ELSE unmarked]
  BY DEF Markers
<1> HIDE DEF full, m
<1>5. ASSUME NEW q \in Site
      PROVE  /\ m[q] \in 0..MaxLabel
             /\ m[q] # unmarked => q \in UNION Minima(input) /\ m[q] = full[q]
  <2>1. CASE \E j \in 1..N : s[j] = q /\ \A l \in stop : j < l
    <3>1. m[q] = full[q]
      BY <1>4, <2>1
    <3>2. PICK j \in 1..N : s[j] = q /\ \A l \in stop : j < l
      BY <2>1
    <3>3. j \notin stop
      BY <3>2
    <3>4. ~ (full[q] > MaxLabel)
      BY <3>2, <3>3
    <3>5. full[q] \in Nat
      BY <1>2, <1>3
    <3>6. full[q] # 0 => q \in UNION Minima(input)
      BY <1>2
    <3> QED BY <3>1, <3>4, <3>5, <3>6, FloodingAssumption DEF unmarked
  <2>2. CASE ~ \E j \in 1..N : s[j] = q /\ \A l \in stop : j < l
    BY <1>4, <2>2, FloodingAssumption DEF unmarked
  <2> QED BY <2>1, <2>2
<1>6. \A q \in Site : q \in UNION Minima(input) => Zone(q) \in Minima(input) /\ q \in Zone(q)
  BY MinimumIsZone DEF Zone
<1>7. ASSUME NEW q \in Site, NEW r \in Site, m[q] # unmarked, m[r] # unmarked
      PROVE  m[q] = m[r] <=> Zone(q) = Zone(r)
  <2>1. /\ Zone(q) \in Minima(input) /\ q \in Zone(q) /\ m[q] = full[q]
        /\ Zone(r) \in Minima(input) /\ r \in Zone(r) /\ m[r] = full[r]
    BY <1>5, <1>6, <1>7
  <2>2. ASSUME full[q] = full[r] PROVE Zone(q) = Zone(r)
    BY <1>2, <2>1, <2>2
  <2>3. Zone(q) = Zone(r) => m[q] = m[r]
    BY <1>2, <2>1
  <2> QED BY <2>1, <2>2, <2>3
<1>8. m \in [Site -> 0..MaxLabel]
  BY <1>4, <1>5
<1> QED BY <1>5, <1>6, <1>7, <1>8 DEF AreMarkers, m

LEMMA MarksFinite ==
    ASSUME NEW out, NEW p \in Site
    PROVE  /\ IsFiniteSet({out[r] : r \in Neighbours[p]} \ {unmarked})
           /\ Cardinality({out[r] : r \in Neighbours[p]} \ {unmarked}) \in Nat
<1>1. IsFiniteSet(Neighbours[p])
  BY SitesAreFinite, FS_Subset DEF Neighbours
<1> DEFINE L == {out[r] : r \in Neighbours[p]}
           g == [r \in Neighbours[p] |-> out[r]]
<1>2. g \in Surjection(Neighbours[p], L)
  BY DEF Surjection
<1>3. IsFiniteSet(L)
  BY <1>1, <1>2, FS_Surjection
<1> QED BY <1>3, FS_Subset, FS_CardinalityType

LEMMA PairCounts ==
    ASSUME NEW S, IsFiniteSet(S), NEW a \in S, NEW b \in S, a # b
    PROVE  Cardinality(S) >= 2
<1>1. IsFiniteSet({a}) /\ Cardinality({a}) = 1
  BY FS_Singleton
<1>2. {a, b} = {a} \cup {b} /\ b \notin {a}
  OBVIOUS
<1>3. IsFiniteSet({a, b}) /\ Cardinality({a, b}) = 2
  BY <1>1, <1>2, FS_AddElement
<1>4. Cardinality({a, b}) <= Cardinality(S) /\ Cardinality(S) \in Nat
  BY FS_Subset, FS_CardinalityType
<1> QED BY <1>3, <1>4

\* When a single label is found around p, every marked neighbour has it.
LEMMA AdjacentMarkerIsOnly ==
    ASSUME NEW p \in Site, SingleMarker(p), MarksAround(p) # {}
    PROVE  /\ AdjacentMarker(p) \in MarksAround(p)
           /\ \A l \in MarksAround(p) : l = AdjacentMarker(p)
<1>1. AdjacentMarker(p) \in MarksAround(p)
  BY DEF AdjacentMarker
<1>2. IsFiniteSet(MarksAround(p)) /\ Cardinality(MarksAround(p)) \in Nat
  BY MarksFinite DEF MarksAround
<1>3. ASSUME NEW l \in MarksAround(p), l # AdjacentMarker(p) PROVE FALSE
  <2>1. Cardinality(MarksAround(p)) >= 2
    BY <1>1, <1>2, <1>3, PairCounts
  <2> QED BY <1>2, <2>1 DEF SingleMarker
<1> QED BY <1>1, <1>3

-----------------------------------------------------------------------------
(* The inductive invariant.                                                 *)

TypesInv ==
    /\ input \in [Site -> 0..MaxValue]
    /\ output \in [Site -> 0..MaxLabel]
    /\ in_queue \in [Site -> BOOLEAN]
    /\ pc \in {"seed", "flood", "done"}
    /\ i \in Site

\* What waits: unmarked sites next to a marked one, each at its own level.
WaitInv ==
    /\ PrioritySound(queue, Levels)
    /\ \A q \in HeldBy(queue) : output[q] = unmarked /\ in_queue[q] /\ MarksAround(q) # {}

\* An unmarked site that entered the queue waits, or was found between basins.
LineInv ==
    \A q \in Site : output[q] = unmarked /\ in_queue[q] =>
       q \in HeldBy(queue) \/ Cardinality(MarksAround(q)) >= 2

\* No site next to a marked one is forgotten; the seeding has still to see
\* those from i on.
SeenInv ==
    /\ \A q \in Site : (pc = "seed" => q < i) /\ output[q] = unmarked /\ MarksAround(q) # {}
                         => in_queue[q]
    /\ pc = "seed" => \A q \in i..N : ~ in_queue[q]
    /\ pc = "done" => HeldBy(queue) = {}

FrontInv == TypesInv /\ WaitInv /\ LineInv /\ SeenInv

\* The basin of a label, which starts from the marker m of a site of a minimum.
Basin(l) == {q \in Site : output[q] = l}

\* Marks last, and each label given is that of a marker.
KeptInv(m) ==
    /\ \A q \in Site : m[q] # unmarked => output[q] = m[q]
    /\ \A q \in Site : output[q] # unmarked => \E r \in Site : m[r] = output[q]

Incomplete(Z) == \E p \in Z : output[p] = unmarked

\* As long as a site of the minimum has no label, no site around it has one.
ApartInv(m) ==
    \A q \in Site : m[q] # unmarked /\ Incomplete(Zone(q)) =>
       \A p \in Zone(q) : \A r \in Neighbours[p] : r \notin Zone(q) => output[r] = unmarked

\* A minimum that has a marker gets no other label.
OwnInv(m) ==
    \A q \in Site : m[q] # unmarked =>
       \A p \in Zone(q) : output[p] \in {unmarked, m[q]}

\* A basin is a part of its minimum, until it contains it.
GrowInv(m) ==
    \A q \in Site : m[q] # unmarked =>
       \/ Basin(m[q]) \subseteq Zone(q)
       \/ Zone(q) \subseteq Basin(m[q]) /\ IsConnected(Basin(m[q]))

BasinInv(m) == AreMarkers(m) /\ KeptInv(m) /\ ApartInv(m) /\ OwnInv(m) /\ GrowInv(m)

FloodInv == FrontInv /\ BasinsSeparate /\ \E m \in [Site -> 0..MaxLabel] : BasinInv(m)

\* Once the sites are seeded, an incomplete minimum that has a marker has a
\* site in the queue.
LEMMA IncompleteWaits ==
    ASSUME FrontInv, pc # "seed", NEW m, BasinInv(m),
           NEW q \in Site, m[q] # unmarked, Incomplete(Zone(q))
    PROVE  \E u \in Zone(q) : u \in HeldBy(queue)
<1> DEFINE Z == Zone(q)
           C == {p \in Z : output[p] # unmarked}
<1>1. q \in Z /\ Z \subseteq Site
  BY ZoneFacts DEF Zone
<1>2. q \in C /\ C \in (SUBSET Z) \ {{}, Z}
  <2>1. q \in C
    BY <1>1 DEF BasinInv, KeptInv
  <2>2. C # Z
    BY DEF Incomplete
  <2> QED BY <2>1, <2>2
<1>3. IsConnected(Z)
  BY ZoneIsConnected DEF Zone
<1>4. PICK w \in C : Neighbours[w] \cap (Z \ C) # {}
  <2> HIDE DEF C, Z
  <2> QED BY <1>2, <1>3 DEF IsConnected
<1>5. PICK u : u \in Neighbours[w] /\ u \in Z \ C
  BY <1>4
<1>6. u \in Site /\ w \in Neighbours[u] /\ output[u] = unmarked /\ output[w] # unmarked
  BY <1>1, <1>5, NeighboursSymmetric
<1>7. MarksAround(u) # {}
  BY <1>6 DEF MarksAround
<1>8. \A l \in MarksAround(u) : l = m[q]
  <2>1. ASSUME NEW r \in Neighbours[u], output[r] # unmarked PROVE output[r] = m[q]
    <3>1. r \in Z
      BY <1>5, <2>1 DEF BasinInv, ApartInv
    <3> QED BY <2>1, <3>1 DEF BasinInv, OwnInv
  <2> QED BY <2>1 DEF MarksAround
<1>9. Cardinality(MarksAround(u)) = 1
  <2>1. MarksAround(u) = {m[q]}
    BY <1>7, <1>8
  <2> QED BY <2>1, FS_Singleton
<1>10. in_queue[u]
  BY <1>6, <1>7 DEF FrontInv, SeenInv
<1>11. u \in HeldBy(queue)
  BY <1>6, <1>9, <1>10 DEF FrontInv, LineInv
<1> QED BY <1>5, <1>11

-----------------------------------------------------------------------------
(* The steps.                                                               *)

\* Nothing that BasinInv and BasinsSeparate are about changes.
LEMMA SameOutput ==
    ASSUME UNCHANGED <<input, output>>
    PROVE  /\ BasinsSeparate => BasinsSeparate'
           /\ \A m : BasinInv(m) => BasinInv(m)'
           /\ \A q \in Site : MarksAround(q)' = MarksAround(q)
           /\ Levels' = Levels
<1>1. BasinsSeparate => BasinsSeparate'
  BY DEF BasinsSeparate
<1>2. ASSUME NEW m, BasinInv(m) PROVE BasinInv(m)'
  <2>1. AreMarkers(m)' /\ KeptInv(m)'
    BY <1>2 DEF BasinInv, AreMarkers, KeptInv, Zone
  <2>2. ApartInv(m)' /\ OwnInv(m)'
    BY <1>2 DEF BasinInv, ApartInv, OwnInv, Zone, Incomplete
  <2>3. GrowInv(m)'
    BY <1>2 DEF BasinInv, GrowInv, Zone, Basin
  <2> QED BY <2>1, <2>2, <2>3 DEF BasinInv
<1>3. \A q \in Site : MarksAround(q)' = MarksAround(q)
  BY DEF MarksAround
<1>4. Levels' = Levels
  BY DEF Levels, Level
<1> QED BY <1>1, <1>2, <1>3, <1>4

LEMMA SeedStep ==
    ASSUME FloodInv, Seed
    PROVE  FloodInv'
<1>1. UNCHANGED <<input, output>> /\ pc = "seed" /\ NextSite
  BY DEF Seed
<1>2. /\ TypesInv /\ WaitInv /\ LineInv /\ SeenInv
  BY DEF FloodInv, FrontInv
<1>3. /\ Levels' = Levels
      /\ \A q \in Site : MarksAround(q)' = MarksAround(q)
  BY <1>1, SameOutput
<1>4. N \in Nat /\ i \in Site /\ ~ in_queue[i]
  BY <1>1, <1>2, RegionsAssumption DEF SeenInv, TypesInv, Site
<1> DEFINE pushes == output[i] = unmarked /\ MarksAround(i) # {}
<1>5. /\ PrioritySound(queue', Levels)
      /\ in_queue' \in [Site -> BOOLEAN]
      /\ \A q \in Site : in_queue'[q] <=> in_queue[q] \/ (q = i /\ pushes)
      /\ \A q \in Site : q \in HeldBy(queue') <=> q \in HeldBy(queue) \/ (q = i /\ pushes)
  <2>1. CASE pushes
    <3>1. queue' = PriorityPush(queue, Level(i), i) /\ in_queue' = [in_queue EXCEPT ![i] = TRUE]
      BY <2>1 DEF Seed
    <3>2. i \notin HeldBy(queue)
      BY <1>2, <1>4 DEF WaitInv
    <3>3. Level(i) = Levels[i]
      BY <1>4 DEF Levels
    <3>4. PrioritySound(queue', Levels) /\ HeldBy(queue') = HeldBy(queue) \cup {i}
      BY <1>2, <1>4, <3>1, <3>2, <3>3, PushSound, LevelsFit DEF TypesInv, WaitInv
    <3>5. \A q \in Site : in_queue'[q] <=> in_queue[q] \/ q = i
      BY <1>2, <3>1 DEF TypesInv
    <3>6. in_queue' \in [Site -> BOOLEAN]
      BY <1>2, <3>1 DEF TypesInv
    <3> QED BY <2>1, <3>4, <3>5, <3>6
  <2>2. CASE ~ pushes
    <3>1. queue' = queue /\ in_queue' = in_queue
      BY <2>2 DEF Seed
    <3> QED BY <1>2, <2>2, <3>1 DEF TypesInv, WaitInv
  <2> QED BY <2>1, <2>2
<1>6. /\ i' \in Site /\ pc' \in {"seed", "flood"}
      /\ pc' = "seed" => i' = i + 1
      /\ pc' # "seed" => i = N
  BY <1>1, <1>4 DEF NextSite, Site
<1> HIDE DEF pushes
<1>7. TypesInv'
  BY <1>1, <1>2, <1>5, <1>6 DEF TypesInv
<1>8. WaitInv'
  <2>1. \A q \in HeldBy(queue') : q \in Site
    BY DEF HeldBy
  <2>2. ASSUME NEW q \in HeldBy(queue')
        PROVE  output'[q] = unmarked /\ in_queue'[q] /\ MarksAround(q)' # {}
    BY <1>1, <1>2, <1>3, <1>5, <2>1, <2>2 DEF WaitInv, pushes
  <2> QED BY <1>3, <1>5, <2>2 DEF WaitInv
<1>9. LineInv'
  BY <1>1, <1>2, <1>3, <1>5 DEF LineInv
<1>10. SeenInv'
  <2>1. ASSUME NEW q \in Site, pc' = "seed" => q < i', output'[q] = unmarked, MarksAround(q)' # {}
        PROVE  in_queue'[q]
    <3>1. q < i \/ q = i
      BY <1>4, <1>6, <2>1 DEF Site
    <3>2. CASE q < i
      BY <1>1, <1>2, <1>3, <1>5, <2>1, <3>2 DEF SeenInv
    <3>3. CASE q = i
      BY <1>1, <1>3, <1>5, <2>1, <3>3 DEF pushes
    <3> QED BY <3>1, <3>2, <3>3
  <2>2. ASSUME pc' = "seed", NEW q \in i'..N PROVE ~ in_queue'[q]
    <3>1. q \in i..N /\ q # i /\ q \in Site
      BY <1>4, <1>6, <2>2 DEF Site
    <3> QED BY <1>1, <1>2, <1>5, <3>1 DEF SeenInv
  <2>3. pc' # "done"
    BY <1>6
  <2> QED BY <2>1, <2>2, <2>3 DEF SeenInv
<1>11. BasinsSeparate' /\ \E m \in [Site -> 0..MaxLabel] : BasinInv(m)'
  BY <1>1, SameOutput DEF FloodInv
<1> QED BY <1>7, <1>8, <1>9, <1>10, <1>11 DEF FloodInv, FrontInv

\* The front of the queue, when it is served.
LEMMA FrontServed ==
    ASSUME FrontInv, ~ PriorityIsEmpty(queue)
    PROVE  LET p == PriorityFront(queue) IN
           /\ p \in Site /\ output[p] = unmarked /\ in_queue[p] /\ MarksAround(p) # {}
           /\ p \in HeldBy(queue) /\ \A q \in HeldBy(queue) : input[p] <= input[q]
           /\ PrioritySound(PriorityPop(queue), Levels)
           /\ HeldBy(PriorityPop(queue)) = HeldBy(queue) \ {p}
<1> DEFINE p == PriorityFront(queue)
<1>1. input \in [Site -> 0..MaxValue] /\ PrioritySound(queue, Levels)
  BY DEF FrontInv, TypesInv, WaitInv
<1>2. /\ p \in HeldBy(queue)
      /\ \A q \in HeldBy(queue) : Levels[q] <= Levels[p]
      /\ PrioritySound(PriorityPop(queue), Levels)
      /\ HeldBy(PriorityPop(queue)) = HeldBy(queue) \ {p}
  BY <1>1, PopSound, LevelsFit
<1>3. \A q \in HeldBy(queue) : q \in Site
  BY DEF HeldBy
<1> HIDE DEF p
<1>4. \A q \in HeldBy(queue) : input[p] <= input[q]
  BY <1>1, <1>2, <1>3, LevelsFit
<1>5. output[p] = unmarked /\ in_queue[p] /\ MarksAround(p) # {}
  BY <1>2 DEF FrontInv, WaitInv
<1> QED BY <1>2, <1>3, <1>4, <1>5 DEF p

\* The front lies between basins.
LEMMA LeaveStep ==
    ASSUME FloodInv, pc = "flood", ~ PriorityIsEmpty(queue),
           ~ SingleMarker(PriorityFront(queue)),
           queue' = PriorityPop(queue), UNCHANGED <<output, in_queue, input, pc, i>>
    PROVE  FloodInv'
<1> DEFINE p == PriorityFront(queue)
<1>1. FrontInv
  BY DEF FloodInv
<1>2. /\ p \in Site /\ PrioritySound(queue', Levels)
      /\ HeldBy(queue') = HeldBy(queue) \ {p}
  BY <1>1, FrontServed
<1>3. Levels' = Levels /\ \A q \in Site : MarksAround(q)' = MarksAround(q)
  BY SameOutput
<1>4. Cardinality(MarksAround(p)) >= 2
  BY <1>2, MarksFinite DEF SingleMarker, MarksAround
<1> HIDE DEF p
<1>5. TypesInv'
  BY <1>1 DEF FrontInv, TypesInv
<1>6. WaitInv'
  <2>1. \A q \in HeldBy(queue') : q \in Site /\ q \in HeldBy(queue)
    BY <1>2 DEF HeldBy
  <2> QED BY <1>1, <1>2, <1>3, <2>1 DEF FrontInv, WaitInv
<1>7. LineInv'
  BY <1>1, <1>2, <1>3, <1>4 DEF FrontInv, LineInv
<1>8. SeenInv'
  BY <1>1, <1>3 DEF FrontInv, SeenInv
<1>9. BasinsSeparate' /\ \E m \in [Site -> 0..MaxLabel] : BasinInv(m)'
  BY SameOutput DEF FloodInv
<1> QED BY <1>5, <1>6, <1>7, <1>8, <1>9 DEF FloodInv, FrontInv

LEMMA ReturnStep ==
    ASSUME FloodInv, Return
    PROVE  FloodInv'
<1>1. UNCHANGED <<input, output, queue, in_queue, i>> /\ pc = "flood" /\ pc' = "done"
      /\ PriorityIsEmpty(queue)
  BY DEF Return
<1>2. FrontInv
  BY DEF FloodInv
<1>3. Levels' = Levels /\ \A q \in Site : MarksAround(q)' = MarksAround(q)
  BY <1>1, SameOutput
<1>4. HeldBy(queue) = {}
  BY <1>1, <1>2, HeldAtLevel DEF FrontInv, WaitInv
<1>5. TypesInv'
  BY <1>1, <1>2 DEF FrontInv, TypesInv
<1>6. WaitInv'
  <2>1. HeldBy(queue') = {} /\ PrioritySound(queue', Levels')
    BY <1>1, <1>2, <1>3, <1>4 DEF FrontInv, WaitInv
  <2> QED BY <2>1 DEF WaitInv
<1>7. LineInv'
  BY <1>1, <1>2, <1>3 DEF FrontInv, LineInv
<1>8. SeenInv'
  BY <1>1, <1>2, <1>3, <1>4 DEF FrontInv, SeenInv
<1>9. BasinsSeparate' /\ \E m \in [Site -> 0..MaxLabel] : BasinInv(m)'
  BY <1>1, SameOutput DEF FloodInv
<1> QED BY <1>5, <1>6, <1>7, <1>8, <1>9 DEF FloodInv, FrontInv

\* The front is marked: what is around it, and what becomes of the basins.
LEMMA MarkedFront ==
    ASSUME FloodInv, pc = "flood", ~ PriorityIsEmpty(queue), NEW p,
           p = PriorityFront(queue), SingleMarker(p), NEW m, BasinInv(m)
    PROVE  /\ \A q \in Site : m[q] # unmarked /\ Incomplete(Zone(q)) /\ p \notin Zone(q) =>
                \A r \in Zone(q) : p \notin Neighbours[r]
           /\ m[p] = unmarked
           /\ \A q \in Site : m[q] # unmarked /\ p \in Zone(q) => AdjacentMarker(p) = m[q]
           /\ \E w \in Neighbours[p] : w \in Site /\ output[w] = AdjacentMarker(p)
<1>1. FrontInv /\ pc # "seed" /\ input \in [Site -> 0..MaxValue] /\ AreMarkers(m)
  BY DEF FloodInv, FrontInv, TypesInv, BasinInv
<1>2. /\ p \in Site /\ output[p] = unmarked /\ MarksAround(p) # {}
      /\ \A q \in HeldBy(queue) : input[p] <= input[q]
  BY <1>1, FrontServed
<1>3. /\ AdjacentMarker(p) \in MarksAround(p)
      /\ \A l \in MarksAround(p) : l = AdjacentMarker(p)
  BY <1>2, AdjacentMarkerIsOnly
<1>4. PICK w \in Neighbours[p] : output[w] = AdjacentMarker(p) /\ output[w] # unmarked
  BY <1>3 DEF MarksAround
<1>5. w \in Site
  BY <1>2, NeighboursSymmetric
<1>6. ASSUME NEW q \in Site, m[q] # unmarked, Incomplete(Zone(q)), p \notin Zone(q),
             NEW r \in Zone(q), p \in Neighbours[r]
      PROVE  FALSE
  <2>1. PICK u \in Zone(q) : u \in HeldBy(queue)
    BY <1>1, <1>6, IncompleteWaits
  <2>2. Zone(q) \in Minima(input)
    BY <1>1, <1>6 DEF AreMarkers
  <2>3. r \in Site /\ input[r] = input[q] /\ input[r] < input[p]
    BY <1>1, <1>6, <2>2, OutsideIsHigher
  <2>4. input[u] = input[q] /\ u \in Site
    BY <1>6, <2>1, ZoneFacts DEF Zone
  <2>5. input[p] <= input[u]
    BY <1>2, <2>1
  <2>6. input[p] \in Int /\ input[u] \in Int
    BY <1>1, <1>2, <2>4, FloodingAssumption
  <2> QED BY <2>3, <2>4, <2>5, <2>6
<1>7. m[p] = unmarked
  BY <1>2 DEF BasinInv, KeptInv
<1>8. ASSUME NEW q \in Site, m[q] # unmarked, p \in Zone(q)
      PROVE  AdjacentMarker(p) = m[q]
  <2>1. Incomplete(Zone(q))
    BY <1>2, <1>8 DEF Incomplete
  <2>2. w \in Zone(q)
    BY <1>4, <1>8, <2>1 DEF BasinInv, ApartInv
  <2> QED BY <1>4, <1>8, <2>2 DEF BasinInv, OwnInv
<1> QED BY <1>4, <1>5, <1>6, <1>7, <1>8

LEMMA MarkKeepsBasins ==
    ASSUME FloodInv, pc = "flood", ~ PriorityIsEmpty(queue), NEW p,
           p = PriorityFront(queue), SingleMarker(p),
           output' = [output EXCEPT ![p] = AdjacentMarker(p)], input' = input,
           NEW m, BasinInv(m)
    PROVE  BasinInv(m)'
<1> DEFINE x == AdjacentMarker(p)
<1>1. /\ FrontInv /\ AreMarkers(m) /\ KeptInv(m) /\ ApartInv(m) /\ OwnInv(m) /\ GrowInv(m)
      /\ output \in [Site -> 0..MaxLabel] /\ input \in [Site -> 0..MaxValue]
  BY DEF FloodInv, FrontInv, TypesInv, BasinInv
<1>2. p \in Site /\ output[p] = unmarked /\ MarksAround(p) # {}
  BY <1>1, FrontServed
<1>3. /\ \A q \in Site : m[q] # unmarked /\ Incomplete(Zone(q)) /\ p \notin Zone(q) =>
           \A r \in Zone(q) : p \notin Neighbours[r]
      /\ m[p] = unmarked
      /\ \A q \in Site : m[q] # unmarked /\ p \in Zone(q) => x = m[q]
  BY MarkedFront
<1>4. PICK w \in Neighbours[p] : w \in Site /\ output[w] = x
  BY MarkedFront
<1>5. x # unmarked
  BY <1>2, AdjacentMarkerIsOnly DEF MarksAround
<1>6. \A q \in Site : output'[q] = IF q = p THEN x ELSE output[q]
  BY <1>1
<1>7. \A q \in Site : Zone(q)' = Zone(q) /\ Zone(q) \subseteq Site /\ q \in Zone(q)
  BY ZoneFacts DEF Zone
<1> HIDE DEF x
<1>8. \A q \in Site : Incomplete(Zone(q))' => Incomplete(Zone(q))
  BY <1>2, <1>6, <1>7 DEF Incomplete
<1>9. AreMarkers(m)'
  BY <1>1, <1>7 DEF AreMarkers
<1>10. KeptInv(m)'
  <2>1. \A q \in Site : m[q] # unmarked => output'[q] = m[q]
    BY <1>1, <1>3, <1>6 DEF KeptInv
  <2>2. \E r \in Site : m[r] = x
    BY <1>1, <1>4, <1>5 DEF KeptInv
  <2>3. \A q \in Site : output'[q] # unmarked => \E r \in Site : m[r] = output'[q]
    BY <1>1, <1>6, <2>2 DEF KeptInv
  <2> QED BY <2>1, <2>3 DEF KeptInv
<1>11. ApartInv(m)'
  <2>1. ASSUME NEW q \in Site, m[q] # unmarked, Incomplete(Zone(q))',
               NEW s \in Zone(q), NEW r \in Neighbours[s], r \notin Zone(q)
        PROVE  output'[r] = unmarked
    <3>1. s \in Site /\ r \in Site
      BY <1>7, <2>1, NeighboursSymmetric
    <3>2. Incomplete(Zone(q)) /\ output[r] = unmarked
      BY <1>1, <1>8, <2>1 DEF ApartInv
    <3>3. r # p
      BY <1>3, <2>1, <3>2
    <3> QED BY <1>6, <3>1, <3>2, <3>3
  <2> QED BY <1>7, <2>1 DEF ApartInv
<1>12. OwnInv(m)'
  <2>1. ASSUME NEW q \in Site, m[q] # unmarked, NEW s \in Zone(q)
        PROVE  output'[s] \in {unmarked, m[q]}
    <3>1. s \in Site
      BY <1>7, <2>1
    <3> QED BY <1>1, <1>3, <1>6, <2>1, <3>1 DEF OwnInv
  <2> QED BY <1>7, <2>1 DEF OwnInv
<1>13. GrowInv(m)'
  <2> SUFFICES ASSUME NEW q \in Site, m[q] # unmarked
               PROVE  \/ Basin(m[q])' \subseteq Zone(q)
                      \/ Zone(q) \subseteq Basin(m[q])' /\ IsConnected(Basin(m[q])')
    BY <1>7 DEF GrowInv
  <2> DEFINE L == Basin(m[q])
             Z == Zone(q)
             M == {r \in Site : output'[r] = m[q]}
  <2>1. L' = M
    BY DEF Basin
  <2>2. L \subseteq Z \/ (Z \subseteq L /\ IsConnected(L))
    BY <1>1 DEF GrowInv
  <2>3. L \subseteq Site /\ \A r \in L : output[r] = m[q]
    BY DEF Basin
  <2>4. CASE x # m[q]
    <3>1. M = L
      BY <1>2, <1>6, <2>4 DEF Basin
    <3> QED BY <2>1, <2>2, <3>1
  <2>5. CASE x = m[q]
    <3>1. M = L \cup {p} /\ w \in L
      BY <1>2, <1>4, <1>6, <2>5 DEF Basin
    <3>2. ASSUME Z \subseteq L, IsConnected(L)
          PROVE  Z \subseteq M /\ IsConnected(M)
      <4>1. IsConnected(L \cup {p})
        BY <1>2, <1>4, <2>3, <3>1, <3>2, ConnectedGrows
      <4> QED BY <3>1, <3>2, <4>1
    <3>3. CASE L \subseteq Z /\ p \in Z
      BY <2>1, <3>1, <3>3
    <3>4. CASE L \subseteq Z /\ p \notin Z
      <4>1. w \in Z /\ p \in Neighbours[w]
        BY <1>2, <1>4, <3>1, <3>4, NeighboursSymmetric
      <4>2. ~ Incomplete(Z)
        BY <1>3, <3>4, <4>1
      <4>3. \A r \in Z : r \in L
        BY <1>1, <1>7, <4>2 DEF OwnInv, Incomplete, Basin
      <4>4. L = Z
        BY <3>4, <4>3
      <4>5. IsConnected(L)
        BY <4>4, ZoneIsConnected DEF Zone
      <4> QED BY <2>1, <3>2, <4>4, <4>5
    <3> HIDE DEF L, M, Z
    <3> QED BY <2>1, <2>2, <3>2, <3>3, <3>4 DEF L, Z
  <2> QED BY <2>4, <2>5
<1> QED BY <1>9, <1>10, <1>11, <1>12, <1>13 DEF BasinInv

LEMMA MarkStep ==
    ASSUME FloodInv, pc = "flood", ~ PriorityIsEmpty(queue), NEW p,
           p = PriorityFront(queue), SingleMarker(p),
           Mark(p, PriorityPop(queue)), UNCHANGED <<input, pc, i>>
    PROVE  FloodInv'
<1> DEFINE x == AdjacentMarker(p)
           out == [output EXCEPT ![p] = x]
           rest == PriorityPop(queue)
           free == {q \in Neighbours[p] : out[q] = unmarked}
<1>1. /\ FrontInv /\ BasinsSeparate /\ TypesInv /\ WaitInv /\ LineInv /\ SeenInv
      /\ input \in [Site -> 0..MaxValue]
      /\ output \in [Site -> 0..MaxLabel] /\ in_queue \in [Site -> BOOLEAN]
  BY DEF FloodInv, FrontInv, TypesInv
<1>2. /\ p \in Site /\ output[p] = unmarked /\ in_queue[p] /\ MarksAround(p) # {}
      /\ PrioritySound(rest, Levels)
      /\ HeldBy(rest) = HeldBy(queue) \ {p}
  BY <1>1, FrontServed
<1>3. /\ x \in MarksAround(p) /\ x # unmarked /\ x \in 0..MaxLabel
      /\ \A r \in Neighbours[p] : output[r] # unmarked => output[r] = x
  <2>1. x \in MarksAround(p) /\ \A l \in MarksAround(p) : l = x
    BY <1>2, AdjacentMarkerIsOnly
  <2>2. \A r \in Neighbours[p] : r \in Site
    BY <1>2, NeighboursSymmetric
  <2> HIDE DEF x
  <2> QED BY <1>1, <2>1, <2>2 DEF MarksAround
<1>4. /\ output' = out
      /\ queue' = PushFresh(p, rest, out).queue
      /\ in_queue' = PushFresh(p, rest, out).waiting
  BY DEF Mark
<1>5. \A q \in HeldBy(rest) : in_queue[q]
  BY <1>1, <1>2 DEF WaitInv
<1>6. Pushed(PushFresh(p, rest, out), free, rest)
  <2> HIDE DEF out, rest
  <2> QED BY <1>1, <1>2, <1>5, PushFreshSound
<1>7. /\ PrioritySound(queue', Levels)
      /\ in_queue' \in [Site -> BOOLEAN]
      /\ \A q \in Site : in_queue'[q] <=> in_queue[q] \/ q \in free
      /\ HeldBy(queue') = HeldBy(rest) \cup {q \in free : ~ in_queue[q]}
  <2> HIDE DEF free, rest, out
  <2> QED BY <1>4, <1>6 DEF Pushed
<1>8. \A q \in Site : output'[q] = IF q = p THEN x ELSE output[q]
  BY <1>1, <1>4
<1>9. \A q \in free : q \in Site /\ q # p /\ output[q] = unmarked /\ q \in Neighbours[p]
  BY <1>1, <1>2, <1>3, NeighboursSymmetric
<1>10. \A q \in Neighbours[p] : output'[q] = unmarked => q \in free
  BY <1>4
<1>11. Levels' = Levels
  BY DEF Levels, Level
<1> HIDE DEF free, rest, out, x
<1>12. ASSUME NEW q \in Site
       PROVE  /\ MarksAround(q) \subseteq MarksAround(q)'
              /\ p \in Neighbours[q] => MarksAround(q)' # {}
              /\ p \notin Neighbours[q] => MarksAround(q)' = MarksAround(q)
  <2>1. Neighbours[q] \subseteq Site
    BY <1>12, NeighboursSymmetric
  <2>2. MarksAround(q)' = {output'[r] : r \in Neighbours[q]} \ {unmarked}
    BY DEF MarksAround
  <2>3. MarksAround(q) = {output[r] : r \in Neighbours[q]} \ {unmarked}
    BY DEF MarksAround
  <2>4. ASSUME p \in Neighbours[q] PROVE MarksAround(q)' # {}
    BY <1>2, <1>3, <1>8, <2>2, <2>4
  <2>5. ASSUME NEW r \in Neighbours[q], output[r] # unmarked
        PROVE  output'[r] = output[r]
    BY <1>2, <1>8, <2>1, <2>5
  <2>6. MarksAround(q) \subseteq MarksAround(q)'
    BY <2>2, <2>3, <2>5
  <2>7. ASSUME p \notin Neighbours[q] PROVE MarksAround(q)' = MarksAround(q)
    <3>1. \A r \in Neighbours[q] : output'[r] = output[r]
      BY <1>8, <2>1, <2>7
    <3> QED BY <2>2, <2>3, <3>1
  <2> QED BY <2>4, <2>6, <2>7
<1>13. TypesInv'
  <2>1. output' \in [Site -> 0..MaxLabel]
    BY <1>1, <1>2, <1>3, <1>4 DEF out
  <2> QED BY <1>1, <1>7, <2>1 DEF TypesInv
<1>14. WaitInv'
  <2>1. ASSUME NEW q \in HeldBy(queue')
        PROVE  output'[q] = unmarked /\ in_queue'[q] /\ MarksAround(q)' # {}
    <3>1. q \in Site /\ (q \in HeldBy(rest) \/ q \in free)
      BY <1>7, <2>1 DEF HeldBy
    <3>2. CASE q \in HeldBy(rest)
      <4>1. q # p /\ output[q] = unmarked /\ in_queue[q] /\ MarksAround(q) # {}
        BY <1>1, <1>2, <3>2 DEF WaitInv
      <4> QED BY <1>7, <1>8, <1>12, <3>1, <4>1
    <3>3. CASE q \in free
      <4>1. p \in Neighbours[q]
        BY <1>2, <1>9, <3>3, NeighboursSymmetric
      <4> QED BY <1>7, <1>8, <1>9, <1>12, <3>1, <3>3, <4>1
    <3> QED BY <3>1, <3>2, <3>3
  <2> QED BY <1>7, <1>11, <2>1 DEF WaitInv
<1>15. LineInv'
  <2>1. ASSUME NEW q \in Site, output'[q] = unmarked, in_queue'[q], q \notin HeldBy(queue')
        PROVE  Cardinality(MarksAround(q)') >= 2
    <3>1. q # p /\ output[q] = unmarked
      BY <1>3, <1>8, <2>1
    <3>2. in_queue[q] /\ q \notin HeldBy(rest)
      BY <1>7, <2>1
    <3>3. Cardinality(MarksAround(q)) >= 2
      BY <1>1, <1>2, <3>1, <3>2 DEF LineInv
    <3>4. Cardinality(MarksAround(q)) <= Cardinality(MarksAround(q)')
      <4>1. IsFiniteSet(MarksAround(q)')
        BY MarksFinite DEF MarksAround
      <4> QED BY <1>12, <4>1, FS_Subset
    <3>5. Cardinality(MarksAround(q)) \in Nat /\ Cardinality(MarksAround(q)') \in Nat
      BY MarksFinite DEF MarksAround
    <3> QED BY <3>3, <3>4, <3>5
  <2> QED BY <2>1 DEF LineInv
<1>16. SeenInv'
  <2>1. ASSUME NEW q \in Site, output'[q] = unmarked, MarksAround(q)' # {}
        PROVE  in_queue'[q]
    <3>1. q # p /\ output[q] = unmarked
      BY <1>3, <1>8, <2>1
    <3>2. CASE p \in Neighbours[q]
      <4>1. q \in Neighbours[p]
        BY <3>2, NeighboursSymmetric
      <4> QED BY <1>7, <1>10, <2>1, <4>1
    <3>3. CASE p \notin Neighbours[q]
      BY <1>1, <1>7, <1>12, <2>1, <3>1, <3>3 DEF SeenInv
    <3> QED BY <3>2, <3>3
  <2>2. pc' = "flood"
    OBVIOUS
  <2> QED BY <2>1, <2>2 DEF SeenInv
<1>17. BasinsSeparate'
  <2>1. ASSUME NEW q \in Site, NEW r \in Neighbours[q], output'[q] # unmarked, output'[r] # unmarked
        PROVE  output'[q] = output'[r]
    <3>1. r \in Site /\ q \in Neighbours[r]
      BY NeighboursSymmetric
    <3>2. CASE q = p
      BY <1>3, <1>8, <2>1, <3>1, <3>2
    <3>3. CASE q # p /\ r = p
      BY <1>3, <1>8, <2>1, <3>1, <3>3
    <3>4. CASE q # p /\ r # p
      BY <1>1, <1>8, <2>1, <3>1, <3>4 DEF BasinsSeparate
    <3> QED BY <3>2, <3>3, <3>4
  <2> QED BY <2>1 DEF BasinsSeparate
<1>18. \E m \in [Site -> 0..MaxLabel] : BasinInv(m)'
  <2>1. PICK m \in [Site -> 0..MaxLabel] : BasinInv(m)
    BY DEF FloodInv
  <2>2. BasinInv(m)'
    BY <1>4, <2>1, MarkKeepsBasins DEF out, x
  <2> QED BY <2>2
<1> QED BY <1>13, <1>14, <1>15, <1>16, <1>17, <1>18 DEF FloodInv, FrontInv

LEMMA FloodStep == FloodInv /\ [Next]_vars => FloodInv'
<1> SUFFICES ASSUME FloodInv, [Next]_vars PROVE FloodInv'
  OBVIOUS
<1>1. CASE Seed
  BY <1>1, SeedStep
<1>2. CASE Flood
  <2> DEFINE p == PriorityFront(queue)
  <2>1. pc = "flood" /\ ~ PriorityIsEmpty(queue) /\ UNCHANGED <<input, pc, i>>
    BY <1>2 DEF Flood
  <2>2. CASE SingleMarker(p)
    <3>1. Mark(p, PriorityPop(queue))
      BY <1>2, <2>2 DEF Flood
    <3> QED BY <2>1, <2>2, <3>1, MarkStep
  <2>3. CASE ~ SingleMarker(p)
    <3>1. queue' = PriorityPop(queue) /\ UNCHANGED <<output, in_queue>>
      BY <1>2, <2>3 DEF Flood
    <3> QED BY <2>1, <2>3, <3>1, LeaveStep
  <2> QED BY <2>2, <2>3
<1>3. CASE Return
  BY <1>3, ReturnStep
<1>4. CASE UNCHANGED vars
  <2>1. UNCHANGED <<input, output, queue, in_queue, pc, i>>
    BY <1>4 DEF vars
  <2>2. Levels' = Levels /\ \A q \in Site : MarksAround(q)' = MarksAround(q)
    BY <2>1, SameOutput
  <2>3. TypesInv' /\ LineInv' /\ SeenInv'
    BY <2>1, <2>2 DEF FloodInv, FrontInv, TypesInv, LineInv, SeenInv
  <2>4. WaitInv'
    <3>1. \A q \in HeldBy(queue) : q \in Site
      BY DEF HeldBy
    <3> QED BY <2>1, <2>2, <3>1 DEF FloodInv, FrontInv, WaitInv
  <2>5. BasinsSeparate' /\ \E m \in [Site -> 0..MaxLabel] : BasinInv(m)'
    BY <2>1, SameOutput DEF FloodInv
  <2> QED BY <2>3, <2>4, <2>5 DEF FloodInv, FrontInv
<1> QED BY <1>1, <1>2, <1>3, <1>4 DEF Next

LEMMA FloodInit == Init => FloodInv
<1> SUFFICES ASSUME Init PROVE FloodInv
  OBVIOUS
<1>1. PICK s \in [1..N -> Site] :
        /\ \A q \in Site : \E j \in 1..N : s[j] = q
        /\ output = Markers(Minima(input), s)
  BY DEF Init
<1>2. /\ input \in [Site -> 0..MaxValue]
      /\ queue = EmptyPriority /\ in_queue = [q \in Site |-> FALSE] /\ pc = "seed" /\ i = 1
  BY DEF Init, Start
<1>3. AreMarkers(output)
  <2>1. IsSiteArray(s)
    BY <1>1 DEF IsSiteArray
  <2> QED BY <1>1, <1>2, <2>1, MarkersNumberMinima
<1>4. output \in [Site -> 0..MaxLabel]
  BY <1>3 DEF AreMarkers
<1>5. PrioritySound(queue, Levels) /\ HeldBy(queue) = {}
  BY <1>2, EmptyPrioritySound
<1>6. FrontInv
  <2>1. N \in Nat \ {0} /\ \A q \in Site : ~ (q < 1) /\ ~ in_queue[q]
    BY <1>2, RegionsAssumption DEF Site
  <2>2. TypesInv
    <3>1. i \in Site
      BY <1>2, <2>1 DEF Site
    <3>2. in_queue \in [Site -> BOOLEAN]
      BY <1>2
    <3> QED BY <1>2, <1>4, <3>1, <3>2 DEF TypesInv
  <2>3. WaitInv /\ LineInv
    BY <1>5, <2>1 DEF WaitInv, LineInv
  <2>4. SeenInv
    BY <1>2, <2>1 DEF SeenInv, Site
  <2> QED BY <2>2, <2>3, <2>4 DEF FrontInv
<1>7. \A q \in Site : Zone(q) \subseteq Site /\ q \in Zone(q)
                      /\ \A r \in Zone(q) : Zone(r) = Zone(q)
  BY ZoneFacts DEF Zone
<1>8. ASSUME NEW q \in Site, NEW r \in Neighbours[q], output[q] # unmarked, output[r] # unmarked
      PROVE  output[q] = output[r] /\ r \in Zone(q)
  <2>1. r \in Site /\ q \in Neighbours[r]
    BY NeighboursSymmetric
  <2>2. Zone(q) \in Minima(input) /\ Zone(r) \in Minima(input)
    BY <1>3, <1>8, <2>1 DEF AreMarkers
  <2>3. input[q] <= input[r] /\ input[r] <= input[q] /\ input[q] \in Int /\ input[r] \in Int
    BY <1>2, <1>7, <2>1, <2>2, MinimumIsZone, FloodingAssumption
  <2>4. r \in Zone(q)
    BY <2>3, ZoneFacts DEF Zone
  <2> QED BY <1>3, <1>7, <1>8, <2>1, <2>4 DEF AreMarkers
<1>9. BasinsSeparate
  BY <1>8 DEF BasinsSeparate
<1>10. BasinInv(output)
  <2>1. KeptInv(output)
    BY DEF KeptInv
  <2>2. ASSUME NEW q \in Site, output[q] # unmarked, NEW p \in Zone(q),
               NEW r \in Neighbours[p], r \notin Zone(q)
        PROVE  output[r] = unmarked
    <3>1. Zone(q) \in Minima(input)
      BY <1>3, <2>2 DEF AreMarkers
    <3>2. p \in Site /\ r \in Site /\ input[p] < input[r] /\ p \in Neighbours[r]
      BY <1>2, <2>2, <3>1, OutsideIsHigher, NeighboursSymmetric
    <3>3. ASSUME output[r] # unmarked PROVE FALSE
      <4>1. Zone(r) \in Minima(input)
        BY <1>3, <3>2, <3>3 DEF AreMarkers
      <4>2. input[r] <= input[p] /\ input[r] \in Int /\ input[p] \in Int
        BY <1>2, <1>7, <3>2, <4>1, MinimumIsZone, FloodingAssumption
      <4> QED BY <3>2, <4>2
    <3> QED BY <3>3
  <2>3. ApartInv(output)
    BY <2>2 DEF ApartInv
  <2>4. OwnInv(output)
    BY <1>3, <1>7 DEF OwnInv, AreMarkers
  <2>5. GrowInv(output)
    <3>1. ASSUME NEW q \in Site, output[q] # unmarked, NEW r \in Basin(output[q])
          PROVE  r \in Zone(q)
      <4>1. r \in Site /\ output[r] = output[q]
        BY DEF Basin
      <4>2. Zone(r) = Zone(q)
        BY <1>3, <3>1, <4>1 DEF AreMarkers
      <4> QED BY <1>7, <4>1, <4>2
    <3> QED BY <3>1 DEF GrowInv
  <2> QED BY <1>3, <2>1, <2>3, <2>4, <2>5 DEF BasinInv
<1> QED BY <1>4, <1>6, <1>9, <1>10 DEF FloodInv

-----------------------------------------------------------------------------
(* What the invariant says.                                                 *)

LEMMA QueuedAreHeld ==
    ASSUME WaitInv
    PROVE  /\ \A v \in queue.p : \A j \in 1..QueueNsites(queue.q[v]) :
                QueueSites(queue.q[v])[j] \in SitesIn(queue.q[v])
           /\ Queued = HeldBy(queue)
<1> DEFINE At(v) == {QueueSites(queue.q[v])[j] : j \in 1..QueueNsites(queue.q[v])}
<1>1. ASSUME NEW v \in queue.p
      PROVE  /\ \A j \in 1..QueueNsites(queue.q[v]) :
                  QueueSites(queue.q[v])[j] \in SitesIn(queue.q[v])
             /\ SitesIn(queue.q[v]) \subseteq At(v)
  <2> DEFINE Q == queue.q[v]
  <2>1. Q.begin \in Nat /\ Q.end \in Nat /\ Q.begin <= Q.end
    <3>1. QueueSound(Q, v, Levels)
      BY <1>1 DEF WaitInv, PrioritySound
    <3> HIDE DEF Q
    <3> QED BY <3>1 DEF QueueSound
  <2> HIDE DEF Q
  <2>2. \A j \in 1..QueueNsites(Q) : QueueSites(Q)[j] = Q.q[Q.begin + (j - 1) + 1]
    BY DEF QueueSites, QueueAt
  <2>3. \A j \in 1..QueueNsites(Q) : QueueSites(Q)[j] = Q.q[Q.begin + j] /\ Q.begin + j \in Live(Q)
    <3>1. \A j \in 1..QueueNsites(Q) : Q.begin + (j - 1) + 1 = Q.begin + j /\ Q.begin + j \in Live(Q)
      BY <2>1 DEF QueueNsites, Live
    <3> QED BY <2>2, <3>1
  <2>4. ASSUME NEW x \in Live(Q)
        PROVE  \E j \in 1..QueueNsites(Q) : QueueSites(Q)[j] = Q.q[x]
    <3>1. x - Q.begin \in 1..QueueNsites(Q) /\ Q.begin + (x - Q.begin) = x
      BY <2>1 DEF QueueNsites, Live
    <3> QED BY <2>3, <3>1
  <2> QED BY <2>3, <2>4 DEF SitesIn, Q
<1>2. Queued = UNION {At(v) : v \in queue.p}
  BY DEF Queued
<1>3. \A v \in queue.p : \A r \in At(v) : r \in SitesIn(queue.q[v])
  BY <1>1
<1>4. \A v \in queue.p : \A r \in SitesIn(queue.q[v]) : r \in HeldBy(queue)
  BY HeldAtLevel DEF WaitInv
<1> HIDE DEF At
<1>5. \A r : r \in Queued => r \in HeldBy(queue)
  BY <1>2, <1>3, <1>4
<1>6. \A r : r \in HeldBy(queue) => r \in Queued
  BY <1>1, <1>2 DEF HeldBy
<1> QED BY <1>1, <1>5, <1>6

LEMMA TypesFollow == FloodInv => TypeOK
<1> SUFFICES ASSUME FloodInv PROVE TypeOK
  OBVIOUS
<1>1. TypesInv /\ PrioritySound(queue, Levels)
  BY DEF FloodInv, FrontInv, WaitInv
<1>2. queue.p \subseteq 0..MaxValue /\ queue.n \in 0..N
  BY <1>1, HeldAtLevel DEF PrioritySound
<1> QED BY <1>1, <1>2 DEF TypesInv, TypeOK

LEMMA FrontFollows == FloodInv => QueueIsFront /\ LowestLevelFirst
<1> SUFFICES ASSUME FloodInv PROVE QueueIsFront /\ LowestLevelFirst
  OBVIOUS
<1>1. FrontInv /\ WaitInv /\ PrioritySound(queue, Levels) /\ input \in [Site -> 0..MaxValue]
  BY DEF FloodInv, FrontInv, WaitInv, TypesInv
<1>2. Queued = HeldBy(queue)
  BY <1>1, QueuedAreHeld
<1>3. QueueIsFront
  <2>1. queue.n = Cardinality(Queued)
    BY <1>1, <1>2 DEF PrioritySound
  <2>2. ASSUME NEW v \in queue.p, NEW j \in 1..QueueNsites(queue.q[v]), NEW q,
               q = QueueSites(queue.q[v])[j]
        PROVE  /\ v = Level(q) /\ output[q] = unmarked /\ in_queue[q]
               /\ MarksAround(q) # {}
    <3>1. q \in SitesIn(queue.q[v])
      BY <1>1, <2>2, QueuedAreHeld
    <3>2. q \in HeldBy(queue) /\ Levels[q] = v /\ q \in Site
      <4>1. q \in HeldBy(queue) /\ Levels[q] = v
        BY <1>1, <2>2, <3>1, HeldAtLevel
      <4> QED BY <4>1 DEF HeldBy
    <3> QED BY <1>1, <3>2, LevelsFit DEF WaitInv
  <2> QED BY <2>1, <2>2 DEF QueueIsFront
<1>4. LowestLevelFirst
  BY <1>1, <1>2, FrontServed DEF LowestLevelFirst
<1> QED BY <1>3, <1>4

LEMMA LineFollows == FloodInv => LineSeparatesBasins
<1> SUFFICES ASSUME FloodInv, pc = "done", NEW p \in Site, output[p] = unmarked
             PROVE  IF in_queue[p] THEN Cardinality(MarksAround(p)) >= 2
                                   ELSE MarksAround(p) = {}
  BY DEF LineSeparatesBasins
<1> QED BY DEF FloodInv, FrontInv, LineInv, SeenInv

LEMMA BasinsFollow == FloodInv => BasinsConnected
<1> SUFFICES ASSUME FloodInv, pc = "done", NEW l \in 1..MaxLabel
             PROVE  IsConnected(Basin(l))
  BY DEF BasinsConnected, Basin
<1>1. PICK m \in [Site -> 0..MaxLabel] : BasinInv(m)
  BY DEF FloodInv
<1>2. FrontInv /\ HeldBy(queue) = {}
  BY DEF FloodInv, FrontInv, SeenInv
<1>3. CASE Basin(l) = {}
  BY <1>3 DEF IsConnected
<1>4. CASE Basin(l) # {}
  <2>1. l # unmarked
    BY DEF unmarked
  <2>2. PICK q \in Site : m[q] = l
    BY <1>1, <1>4, <2>1 DEF BasinInv, KeptInv, Basin
  <2>3. ~ Incomplete(Zone(q))
    BY <1>1, <1>2, <2>1, <2>2, IncompleteWaits
  <2>4. Zone(q) \subseteq Basin(l)
    <3>1. Zone(q) \subseteq Site
      BY ZoneFacts DEF Zone
    <3> QED BY <1>1, <2>1, <2>2, <2>3, <3>1 DEF BasinInv, OwnInv, Incomplete, Basin
  <2>5. CASE Basin(l) \subseteq Zone(q)
    <3>1. Basin(l) = Zone(q)
      BY <2>4, <2>5
    <3> QED BY <3>1, ZoneIsConnected DEF Zone
  <2>6. CASE IsConnected(Basin(l))
    BY <2>6
  <2> QED BY <1>1, <2>1, <2>2, <2>5, <2>6 DEF BasinInv, GrowInv
<1> QED BY <1>3, <1>4

\* No two basins of the watershed ever touch: the label image always keeps a
\* line of unmarked sites between them, from the markers on.
THEOREM BasinsNeverTouch == Spec => []BasinsSeparate
<1>1. FloodInv => BasinsSeparate
  BY DEF FloodInv
<1> QED BY <1>1, FloodInit, FloodStep, PTL DEF Spec

\* The label image, the queue and in_queue have their types: labels fit L, and
\* the queue never counts more sites than the domain has.
THEOREM FloodingTypes == Spec => []TypeOK
<1> QED BY TypesFollow, FloodInit, FloodStep, PTL DEF Spec

\* What waits is the front, each site once and at its level, and the site that
\* front() gives is at the lowest one.
THEOREM FloodingServesLowest == Spec => [](QueueIsFront /\ LowestLevelFirst)
<1> QED BY FrontFollows, FloodInit, FloodStep, PTL DEF Spec

\* When the queue is empty, what is left unmarked is between two basins or next
\* to none, and the sites of each label are in one piece: they hold the whole
\* minimum of the label, even when its marker was a part of it.
THEOREM FloodingEnds == Spec => [](LineSeparatesBasins /\ BasinsConnected)
<1> QED BY LineFollows, BasinsFollow, FloodInit, FloodStep, PTL DEF Spec

-----------------------------------------------------------------------------
(* All the algorithms. *)

FrontsInit ==
    \/ kind = "flooding" /\ Init
    \/ kind = "blobs" /\ B!Init
    \/ kind = "geodesic" /\ G!Init
    \/ kind = "front" /\ D!Init
    \/ kind = "topological" /\ T!Init

FrontsSpec == FrontsInit /\ [][MCNext]_mcvars

\* A step of what runs, or of nothing that matters to it.
LEMMA OneRuns ==
    ASSUME [MCNext]_mcvars
    PROVE  /\ kind' = kind
           /\ kind = "flooding" => [Next]_vars
           /\ kind = "blobs" => [B!Next]_B!vars
           /\ kind = "geodesic" => [G!Next]_G!vars
           /\ kind = "front" => [D!Next]_D!vars
<1>1. CASE UNCHANGED mcvars
  BY <1>1 DEF mcvars, vars, B!vars, G!vars, D!vars
<1>2. CASE MCNext
  <2>1. CASE RunFlooding
    BY <2>1 DEF RunFlooding
  <2>2. CASE RunBlobs
    BY <2>2 DEF RunBlobs
  <2>3. CASE RunGeodesic
    BY <2>3 DEF RunGeodesic
  <2>4. CASE RunFront
    BY <2>4 DEF RunFront
  <2>5. CASE RunTopological
    BY <2>5 DEF RunTopological
  <2> QED BY <1>2, <2>1, <2>2, <2>3, <2>4, <2>5 DEF MCNext
<1> QED BY <1>1, <1>2

-----------------------------------------------------------------------------
(* Flooding.                                                                *)

LEMMA FloodingRuns ==
    /\ FrontsInit => (kind = "flooding" => FloodInv)
    /\ (kind = "flooding" => FloodInv) /\ [MCNext]_mcvars => (kind = "flooding" => FloodInv)'
<1>1. FrontsInit => (kind = "flooding" => FloodInv)
  BY FloodInit DEF FrontsInit
<1>2. ASSUME kind = "flooding" => FloodInv, [MCNext]_mcvars, kind' = "flooding" PROVE FloodInv'
  BY <1>2, OneRuns, FloodStep
<1> QED BY <1>1, <1>2

\* When flooding.hh returns, the unmarked sites left are those of the line, and
\* each basin is in one piece.
THEOREM FloodingIsComplete == FrontsSpec => []BasinsAndLine
<1>1. (kind = "flooding" => FloodInv) => BasinsAndLine
  BY LineFollows, BasinsFollow DEF BasinsAndLine
<1> QED BY <1>1, FloodingRuns, PTL DEF FrontsSpec

-----------------------------------------------------------------------------
(* Blobs: the objects, numbered in the order of the scan.                   *)

LEMMA BlobsShare ==
    /\ B!Site = Site /\ B!Outside = Outside /\ B!Neighbours = Neighbours
    /\ \A S : B!Cardinality(S) = Cardinality(S)
    /\ \A f : B!FlatZones(f) = FlatZones(f)
    /\ \A Objs, o : B!Numbered(Objs, o) = Numbered(Objs, o)
    /\ B!EmptyQueue = EmptyQueue
    /\ \A Q, e : B!QueuePush(Q, e) = QueuePush(Q, e) /\ (B!QueueHas(Q, e) <=> QueueHas(Q, e))
    /\ \A Q : /\ B!QueuePop(Q) = QueuePop(Q) /\ B!QueueFront(Q) = QueueFront(Q)
              /\ (B!QueueIsEmpty(Q) <=> QueueIsEmpty(Q)) /\ B!QueueNsites(Q) = QueueNsites(Q)
<1>1. B!Site = Site /\ B!Outside = Outside /\ B!Neighbours = Neighbours
  BY DEF B!Site, Site, B!Outside, Outside, B!Neighbours, Neighbours
<1>2. \A S : B!Cardinality(S) = Cardinality(S)
  BY DEF B!Cardinality, Cardinality
<1>3. \A f : B!FlatZones(f) = FlatZones(f)
  BY <1>1 DEF B!FlatZones, FlatZones, B!Closed, Closed, B!ZoneIn, ZoneIn, B!SiteSets, SiteSets
<1>4. \A Objs, o : B!Numbered(Objs, o) = Numbered(Objs, o)
  BY <1>1, <1>2 DEF B!Numbered, Numbered
<1>5. /\ B!EmptyQueue = EmptyQueue
      /\ \A Q, e : B!QueuePush(Q, e) = QueuePush(Q, e) /\ (B!QueueHas(Q, e) <=> QueueHas(Q, e))
      /\ \A Q : /\ B!QueuePop(Q) = QueuePop(Q) /\ B!QueueFront(Q) = QueueFront(Q)
                /\ (B!QueueIsEmpty(Q) <=> QueueIsEmpty(Q)) /\ B!QueueNsites(Q) = QueueNsites(Q)
  BY DEF B!EmptyQueue, EmptyQueue, B!QueuePush, QueuePush, B!QueuePop, QueuePop,
         B!QueueFront, QueueFront, B!QueueAt, QueueAt, B!QueueIsEmpty, QueueIsEmpty,
         B!QueueNsites, QueueNsites, B!QueueHas, QueueHas
<1> QED BY <1>1, <1>2, <1>3, <1>4, <1>5

ScanOrder == [j \in 1..N |-> j]
Objects == {Z \in FlatZones(input) : \A q \in Z : input[q]}
Full == Numbered(Objects, ScanOrder)
Met(j) == Cardinality(MetBy(Objects, ScanOrder, j))

LEMMA ScanFacts ==
    /\ IsSiteArray(ScanOrder) /\ \A q \in Site : Rank(ScanOrder, q) = q
<1>1. IsSiteArray(ScanOrder)
  BY DEF IsSiteArray, ScanOrder, Site
<1>2. \A q \in Site : ScanOrder[q] = q /\ q \in 1..N
  BY DEF ScanOrder, Site
<1> QED BY <1>1, <1>2, RankFacts

LEMMA ObjectFacts ==
    ASSUME input \in [Site -> BOOLEAN]
    PROVE  /\ Parted(Objects)
           /\ \A q \in Site : q \in UNION Objects <=> input[q]
           /\ \A q \in Site : input[q] => FlatZone(input, q) \in Objects
           /\ \A Z \in Objects : \A q \in Z : Z = FlatZone(input, q)
<1>1. Parted(Objects)
  BY ZonesParted DEF Objects
<1>2. \A Z \in FlatZones(input) : \E q \in Site : Z = FlatZone(input, q)
  BY DEF FlatZones, FlatZone
<1>3. ASSUME NEW q \in Site, input[q] PROVE FlatZone(input, q) \in Objects
  <2>1. FlatZone(input, q) \in FlatZones(input)
    BY DEF FlatZones, FlatZone
  <2>2. \A r \in FlatZone(input, q) : input[r] = input[q]
    BY ZoneFacts
  <2> QED BY <1>3, <2>1, <2>2 DEF Objects
<1>4. ASSUME NEW Z \in Objects, NEW q \in Z PROVE Z = FlatZone(input, q)
  <2>1. PICK r \in Site : Z = FlatZone(input, r)
    BY <1>2 DEF Objects
  <2> QED BY <2>1, ZoneFacts
<1>5. ASSUME NEW q \in Site PROVE q \in UNION Objects <=> input[q]
  <2>1. q \in FlatZone(input, q)
    BY ZoneFacts
  <2> QED BY <1>3, <2>1 DEF Objects
<1> QED BY <1>1, <1>3, <1>4, <1>5

\* The labels that the scan will give: 0 outside the objects, one for each
\* object, and no more at a site than the objects met up to it.
LEMMA FullFacts ==
    ASSUME input \in [Site -> BOOLEAN]
    PROVE  /\ Full = [q \in Site |-> Full[q]] /\ \A q \in Site : Full[q] \in 0..Cardinality(Objects)
           /\ \A q \in Site : Full[q] = 0 <=> ~ input[q]
           /\ \A q \in Site : \A r \in Neighbours[q] : input[q] /\ input[r] => Full[q] = Full[r]
           /\ \A q, r \in Site : input[q] /\ Full[r] = Full[q] => r \in FlatZone(input, q)
<1>0. IsSiteArray(ScanOrder) /\ Parted(Objects) /\ Cardinality(Objects) \in Nat
  BY ScanFacts, ObjectFacts, PartedFinite
<1>1. /\ Full = [q \in Site |-> Full[q]]
      /\ \A q \in Site : q \notin UNION Objects => Full[q] = 0
      /\ \A Z \in Objects : \A q \in Z : Full[q] \in 1..Cardinality(Objects)
      /\ \A Y, Z \in Objects : \A q \in Y, r \in Z : Full[q] = Full[r] => Y = Z
  BY <1>0, NumberedFacts DEF Full
<1>2. \A q \in Site : input[q] => FlatZone(input, q) \in Objects /\ q \in FlatZone(input, q)
  BY ObjectFacts, ZoneFacts
<1>3. ASSUME NEW q \in Site
      PROVE  Full[q] \in 0..Cardinality(Objects) /\ (Full[q] = 0 <=> ~ input[q])
  <2>1. CASE input[q]
    <3>1. Full[q] \in 1..Cardinality(Objects)
      BY <1>1, <1>2, <2>1
    <3> QED BY <1>0, <2>1, <3>1
  <2>2. CASE ~ input[q]
    <3>1. q \notin UNION Objects
      BY <2>2, ObjectFacts
    <3> QED BY <1>0, <1>1, <2>2, <3>1
  <2> QED BY <2>1, <2>2
<1>4. ASSUME NEW q \in Site, NEW r \in Neighbours[q], input[q], input[r]
      PROVE  Full[q] = Full[r]
  <2>1. r \in Site
    BY DEF Neighbours
  <2>2. input[q] = input[r]
    BY <1>4, <2>1
  <2>3. r \in FlatZone(input, q) /\ q \in FlatZone(input, q) /\ FlatZone(input, q) \in Objects
    BY <1>2, <1>4, <2>2, ZoneFacts
  <2>4. /\ Full[r] = Cardinality(MetBy(Objects, ScanOrder, FirstIn(FlatZone(input, q), ScanOrder)))
        /\ Full[q] = Cardinality(MetBy(Objects, ScanOrder, FirstIn(FlatZone(input, q), ScanOrder)))
    BY <1>0, <2>3, NumberedFacts DEF Full
  <2> QED BY <2>4
<1>5. ASSUME NEW q \in Site, NEW r \in Site, input[q], Full[r] = Full[q]
      PROVE  r \in FlatZone(input, q)
  <2>1. input[r]
    BY <1>3, <1>5
  <2>2. FlatZone(input, q) = FlatZone(input, r)
    BY <1>1, <1>2, <1>5, <2>1
  <2> QED BY <1>2, <2>1, <2>2
<1> QED BY <1>1, <1>3, <1>4, <1>5

LEMMA MetFacts ==
    ASSUME input \in [Site -> BOOLEAN]
    PROVE  /\ Met(0) = 0 /\ Met(N) = Cardinality(Objects)
           /\ \A j \in 0..N : Met(j) \in 0..Cardinality(Objects)
           /\ \A j \in Site : input[j] /\ Full[j] > Met(j - 1) =>
                Full[j] = Met(j - 1) + 1 /\ Met(j) = Full[j]
           /\ \A j \in Site : ~ input[j] \/ Full[j] <= Met(j - 1) => Met(j) = Met(j - 1)
<1>0. IsSiteArray(ScanOrder) /\ Parted(Objects) /\ Cardinality(Objects) \in Nat
  BY ScanFacts, ObjectFacts, PartedFinite
<1> DEFINE Fst(Z) == FirstIn(Z, ScanOrder)
           By(j) == MetBy(Objects, ScanOrder, j)
<1>1. /\ By(0) = {} /\ By(N) = Objects
      /\ \A j \in Int : IsFiniteSet(By(j)) /\ Met(j) \in Nat /\ Met(j) <= Cardinality(Objects)
      /\ \A j \in 1..N, Z \in Objects : Fst(Z) = j => Met(j) = Met(j - 1) + 1
      /\ \A j \in 1..N : (\A Z \in Objects : Fst(Z) # j) => Met(j) = Met(j - 1)
  BY <1>0, MetByFacts DEF Met
<1>2. \A Z \in Objects : Fst(Z) \in 1..N /\ ScanOrder[Fst(Z)] \in Z /\ \A q \in Z : Fst(Z) <= q
  BY <1>0, FirstFacts, ScanFacts DEF Parted
<1>3. \A Z \in Objects : Z \subseteq Site /\ Fst(Z) \in Z
  BY <1>0, <1>2 DEF Parted, ScanOrder
<1>4. \A Z \in Objects : \A q \in Z : Full[q] = Met(Fst(Z))
  BY <1>0, NumberedFacts DEF Full, Met
<1>5. Met(0) = 0
  BY <1>1, FS_EmptySet DEF Met
<1>6. ASSUME NEW j \in Site
      PROVE  /\ input[j] /\ Full[j] > Met(j - 1) => Full[j] = Met(j - 1) + 1 /\ Met(j) = Full[j]
             /\ ~ input[j] \/ Full[j] <= Met(j - 1) => Met(j) = Met(j - 1)
  <2>0. j \in 1..N /\ j \in Int /\ j - 1 \in Int
    BY DEF Site
  <2>1. CASE \E Z \in Objects : Fst(Z) = j
    <3>1. PICK Z \in Objects : Fst(Z) = j
      BY <2>1
    <3>2. j \in Z /\ input[j]
      BY <1>3, <3>1 DEF Objects
    <3>3. Full[j] = Met(j) /\ Met(j) = Met(j - 1) + 1 /\ Met(j - 1) \in Nat
      BY <1>1, <1>4, <2>0, <3>1, <3>2
    <3> QED BY <3>2, <3>3
  <2>2. CASE ~ \E Z \in Objects : Fst(Z) = j
    <3>1. Met(j) = Met(j - 1)
      BY <1>1, <2>0, <2>2
    <3>2. ASSUME input[j] PROVE Full[j] <= Met(j - 1)
      <4>1. PICK Z \in Objects : j \in Z
        BY <3>2, ObjectFacts
      <4>2. Fst(Z) <= j /\ Fst(Z) # j /\ Fst(Z) \in Int
        BY <1>2, <2>2, <4>1
      <4>3. By(Fst(Z)) \subseteq By(j - 1)
        <5>1. \A Y \in Objects : Fst(Y) \in Int
          BY <1>2
        <5> QED BY <2>0, <4>2, <5>1 DEF MetBy
      <4>4. Met(Fst(Z)) <= Met(j - 1)
        BY <1>1, <2>0, <4>3, FS_Subset DEF Met
      <4> QED BY <1>4, <4>1, <4>4
    <3>3. Met(j - 1) \in Nat /\ (input[j] => Full[j] \in Nat)
      BY <1>1, <2>0, FullFacts
    <3> QED BY <3>1, <3>2, <3>3
  <2> QED BY <2>1, <2>2
<1>7. \A j \in 0..N : Met(j) \in 0..Cardinality(Objects)
  BY <1>0, <1>1, RegionsAssumption
<1>8. Met(N) = Cardinality(Objects)
  BY <1>1 DEF Met
<1> QED BY <1>5, <1>6, <1>7, <1>8

-----------------------------------------------------------------------------
(* Blobs: the invariant.                                                    *)

\* The label image when the l first objects are labelled.
Below(l) == [q \in Site |-> IF Full[q] <= l THEN Full[q] ELSE 0]

Flat == [q \in Site |-> 0]

BlobTypes ==
    /\ input \in [Site -> BOOLEAN]
    /\ output \in [Site -> 0..MaxLabel] /\ nlabels \in 0..MaxLabel
    /\ pc \in {"scan", "front", "expand", "done", "aborted"}
    /\ i \in Site /\ cur \in Site \cup {Outside} /\ k \in Nat \ {0}

\* What waits is labelled, and each site waits once.
BlobQueue ==
    /\ QueueSound(qu, 0, Flat)
    /\ \A q \in SitesIn(qu) : output[q] = nlabels
    /\ pc = "front" => qu.begin < qu.end
    /\ pc \in {"scan", "done", "aborted"} => qu.begin = qu.end

\* Between two blobs, the objects met so far are labelled.
BlobScan ==
    /\ pc = "scan" => nlabels = Met(i - 1) /\ output = Below(nlabels)
    /\ pc = "done" => nlabels = Met(N) /\ output = Below(nlabels)
    /\ pc = "aborted" => nlabels = MaxLabel /\ output = Below(nlabels)

\* The neighbour r asks for nothing.
Settled(r) == r = Outside \/ ~ input[r] \/ output[r] # 0

\* In a blob, a part of its object is labelled, and the sites of it that do not
\* wait have settled neighbours, those that are yet to be looked at excepted.
BlobFront ==
    pc \in {"front", "expand"} =>
       /\ nlabels = Met(i) /\ nlabels # 0 /\ Full[i] = nlabels /\ output[i] = nlabels
       /\ \A q \in Site : output[q] = Below(nlabels)[q] \/ (Full[q] = nlabels /\ output[q] = 0)
       /\ pc = "expand" => cur \in Site /\ output[cur] = nlabels
       /\ \A q \in Site : output[q] = nlabels /\ q \notin SitesIn(qu) =>
            \A x \in DOMAIN Nbh[q] : Settled(Nbh[q][x]) \/ (pc = "expand" /\ q = cur /\ x >= k)

BlobAccus ==
    /\ accus \in Seq(SUBSET Site) /\ result \in Seq(SUBSET Site)
    /\ Len(accus) = nlabels + 1
    /\ \A l \in 1..nlabels : accus[l + 1] = {q \in Site : output[q] = l}
    /\ pc = "done" => result = accus

BlobsInv == BlobTypes /\ BlobQueue /\ BlobScan /\ BlobFront /\ BlobAccus

LEMMA BlobsBegin == B!Init => BlobsInv
<1> SUFFICES ASSUME B!Init PROVE BlobsInv
  OBVIOUS
<1>1. /\ input \in [Site -> BOOLEAN] /\ output = [q \in Site |-> 0] /\ nlabels = 0
      /\ qu = EmptyQueue /\ pc = "scan" /\ i = 1 /\ cur = Outside /\ k = 1
      /\ accus = << {} >> /\ result = <<>>
  BY BlobsShare DEF B!Init, B!Start
<1>2. BlobTypes
  BY <1>1, RegionsAssumption, FloodingAssumption DEF BlobTypes, Site
<1>3. BlobQueue
  <2>1. qu = [q |-> <<>>, begin |-> 0, end |-> 0]
    BY <1>1 DEF EmptyQueue
  <2>2. Live(qu) = {}
    BY <2>1 DEF Live
  <2>3. qu.q \in Seq(Site) /\ qu.begin = 0 /\ qu.end = 0 /\ Len(qu.q) = 0
        /\ qu = [q |-> qu.q, begin |-> qu.begin, end |-> qu.end]
    BY <2>1
  <2> QED BY <1>1, <2>2, <2>3 DEF BlobQueue, QueueSound, SitesIn
<1>4. BlobScan
  <2>1. \A q \in Site : Full[q] \in Nat /\ Cardinality(Objects) \in Nat
    BY <1>1, FullFacts, ObjectFacts, PartedFinite
  <2>2. output = Below(0)
    BY <1>1, <2>1 DEF Below
  <2>3. Met(0) = 0
    BY <1>1, MetFacts
  <2> QED BY <1>1, <2>2, <2>3 DEF BlobScan
<1>5. BlobFront
  BY <1>1 DEF BlobFront
<1>6. BlobAccus
  <2>1. accus \in Seq(SUBSET Site) /\ Len(accus) = 1 /\ result \in Seq(SUBSET Site)
    BY <1>1
  <2> QED BY <1>1, <2>1 DEF BlobAccus
<1> QED BY <1>2, <1>3, <1>4, <1>5, <1>6 DEF BlobsInv

\* The queue, and what waits in it, leave a cell for each site.
LEMMA QueueFits ==
    ASSUME QueueSound(qu, 0, Flat)
    PROVE  QueueNsites(qu) \in 0..N
<1>1. /\ qu.begin \in Nat /\ qu.end \in Nat /\ qu.begin <= qu.end
      /\ \A x, y \in Live(qu) : qu.q[x] = qu.q[y] => x = y
  BY DEF QueueSound
<1> DEFINE f == [x \in Live(qu) |-> qu.q[x]]
<1>2. f \in Injection(Live(qu), Site)
  <2>1. f \in [Live(qu) -> Site]
    BY LiveSites
  <2>2. IsInjective(f)
    BY <1>1 DEF IsInjective
  <2> QED BY <2>1, <2>2 DEF Injection
<1>3. IsFiniteSet(Live(qu)) /\ Cardinality(Live(qu)) = qu.end - qu.begin
  <2>1. qu.begin + 1 \in Int /\ qu.end \in Int
    BY <1>1
  <2> DEFINE a == qu.begin + 1
  <2>2. IsFiniteSet(a..qu.end) /\ Cardinality(a..qu.end) = IF a > qu.end THEN 0 ELSE qu.end - a + 1
    <3> HIDE DEF a
    <3> QED BY <2>1, FS_Interval DEF a
  <2> QED BY <1>1, <2>2 DEF Live
<1> HIDE DEF f
<1>4. Cardinality(Live(qu)) <= Cardinality(Site)
  BY <1>2, <1>3, SitesAreFinite, FS_Injection
<1> QED BY <1>1, <1>3, <1>4, SitesAreFinite DEF QueueNsites

\* The scan goes on when the objects met up to i are labelled.
LEMMA AdvanceStep ==
    ASSUME BlobTypes, BlobQueue, BlobAccus, qu.begin = qu.end,
           nlabels = Met(i), output = Below(nlabels),
           B!AdvanceScan, UNCHANGED <<input, output, nlabels, qu, cur, k, accus>>
    PROVE  BlobsInv'
<1>1. \/ i = N /\ pc' = "done" /\ i' = i /\ result' = accus
      \/ i # N /\ pc' = "scan" /\ i' = i + 1 /\ result' = result
  BY DEF B!AdvanceScan
<1>2. i' \in Site /\ pc' \in {"scan", "done"}
  BY <1>1, RegionsAssumption DEF BlobTypes, Site
<1>3. BlobTypes'
  BY <1>2 DEF BlobTypes
<1>4. BlobQueue'
  <2>1. SitesIn(qu)' = SitesIn(qu) /\ QueueSound(qu, 0, Flat)'
    BY DEF BlobQueue, SitesIn, Live, QueueSound, Flat
  <2> QED BY <1>2, <2>1 DEF BlobQueue
<1>5. Full' = Full /\ \A j : Met(j)' = Met(j)
  BY DEF Full, Met, Objects
<1>6. BlobScan'
  <2>1. (Below(nlabels))' = Below(nlabels)
    BY <1>5 DEF Below
  <2>2. CASE i = N
    BY <1>1, <1>5, <2>1, <2>2 DEF BlobScan
  <2>3. CASE i # N
    <3>1. i' - 1 = i /\ pc' = "scan"
      BY <1>1, <2>3 DEF BlobTypes, Site
    <3>2. (Met(i - 1))' = Met(i)
      BY <3>1 DEF Met, Objects
    <3> QED BY <1>5, <2>1, <3>1, <3>2 DEF BlobScan
  <2> QED BY <2>2, <2>3
<1>7. BlobFront'
  BY <1>2 DEF BlobFront
<1>8. BlobAccus'
  BY <1>1 DEF BlobAccus
<1> QED BY <1>3, <1>4, <1>6, <1>7, <1>8 DEF BlobsInv

LEMMA BelowFacts ==
    ASSUME BlobTypes, NEW l \in Nat
    PROVE  /\ \A q \in Site : Below(l)[q] = IF Full[q] <= l THEN Full[q] ELSE 0
           /\ \A q \in Site : Full[q] \in Nat /\ (Full[q] = 0 <=> ~ input[q])
           /\ \A j \in 0..N : Met(j) \in Nat
<1>1. input \in [Site -> BOOLEAN] /\ Cardinality(Objects) \in Nat
  BY ObjectFacts, PartedFinite DEF BlobTypes
<1>2. \A q \in Site : Full[q] \in Nat /\ (Full[q] = 0 <=> ~ input[q])
  BY <1>1, FullFacts
<1>3. \A j \in 0..N : Met(j) \in Nat
  BY <1>1, MetFacts
<1> QED BY <1>2, <1>3 DEF Below

LEMMA SkipSiteStep ==
    ASSUME BlobsInv, B!SkipSite
    PROVE  BlobsInv'
<1>1. /\ pc = "scan" /\ ~ (input[i] /\ output[i] = 0)
      /\ B!AdvanceScan /\ UNCHANGED <<input, output, nlabels, qu, cur, k, accus>>
  BY DEF B!SkipSite, B!ToLabel
<1>2. /\ BlobTypes /\ BlobQueue /\ BlobAccus /\ qu.begin = qu.end
      /\ nlabels = Met(i - 1) /\ output = Below(nlabels) /\ nlabels \in Nat /\ i \in Site
  BY <1>1, FloodingAssumption DEF BlobsInv, BlobQueue, BlobScan, BlobTypes
<1>3. ~ input[i] \/ Full[i] <= nlabels
  BY <1>1, <1>2, BelowFacts
<1>4. Met(i) = Met(i - 1)
  <2>1. input \in [Site -> BOOLEAN]
    BY <1>2 DEF BlobTypes
  <2> QED BY <1>2, <1>3, <2>1, MetFacts
<1> QED BY <1>1, <1>2, <1>4, AdvanceStep

LEMMA AbortStep ==
    ASSUME BlobsInv, B!Abort
    PROVE  BlobsInv'
<1>1. /\ pc = "scan" /\ nlabels = MaxLabel /\ pc' = "aborted"
      /\ UNCHANGED <<input, output, nlabels, qu, i, cur, k, accus, result>>
  BY DEF B!Abort, B!Exhausted
<1>2. BlobTypes'
  BY <1>1 DEF BlobsInv, BlobTypes
<1>3. BlobQueue'
  <2>1. SitesIn(qu)' = SitesIn(qu) /\ QueueSound(qu, 0, Flat)'
    BY <1>1 DEF BlobsInv, BlobQueue, SitesIn, Live, QueueSound, Flat
  <2> QED BY <1>1, <2>1 DEF BlobsInv, BlobQueue
<1>4. BlobScan'
  <2>1. (Below(nlabels))' = Below(nlabels)
    BY <1>1 DEF Below, Full, Objects
  <2> QED BY <1>1, <2>1 DEF BlobsInv, BlobScan
<1>5. BlobFront' /\ BlobAccus'
  BY <1>1 DEF BlobsInv, BlobFront, BlobAccus
<1> QED BY <1>2, <1>3, <1>4, <1>5 DEF BlobsInv

LEMMA FullStays ==
    ASSUME UNCHANGED input
    PROVE  /\ Full' = Full
           /\ \A j : Met(j)' = Met(j)
           /\ \A l : Below(l)' = Below(l)
BY DEF Full, Met, Below, Objects

\* The accumulators after take(q).
LEMMA AccusTake ==
    ASSUME NEW a, a \in Seq(SUBSET Site), NEW q \in Site, NEW l \in Nat, l < Len(a)
    PROVE  /\ B!Take(a, q, l) \in Seq(SUBSET Site) /\ Len(B!Take(a, q, l)) = Len(a)
           /\ B!Take(a, q, l)[l + 1] = a[l + 1] \cup {q}
           /\ \A x \in 1..Len(a) : x # l + 1 => B!Take(a, q, l)[x] = a[x]
<1>1. B!Take(a, q, l) = [a EXCEPT ![l + 1] = @ \cup {q}]
  BY DEF B!Take
<1>2. l + 1 \in 1..Len(a)
  OBVIOUS
<1>3. a[l + 1] \in SUBSET Site
  BY <1>2
<1> QED BY <1>1, <1>2, <1>3

LEMMA NewBlobStep ==
    ASSUME BlobsInv, B!NewBlob
    PROVE  BlobsInv'
<1> DEFINE l == nlabels + 1
<1>1. /\ pc = "scan" /\ input[i] /\ output[i] = 0 /\ nlabels # MaxLabel
      /\ nlabels' = l /\ qu' = QueuePush(qu, i) /\ output' = [output EXCEPT ![i] = l]
      /\ accus' = B!Take(Append(accus, {}), i, l)
      /\ pc' = "front" /\ UNCHANGED <<input, i, cur, k, result>>
  BY BlobsShare DEF B!NewBlob, B!ToLabel, B!Exhausted
<1>2. /\ BlobTypes /\ BlobQueue /\ BlobAccus /\ qu.begin = qu.end
      /\ nlabels = Met(i - 1) /\ output = Below(nlabels) /\ nlabels \in Nat /\ i \in Site
      /\ input \in [Site -> BOOLEAN]
  BY <1>1, FloodingAssumption DEF BlobsInv, BlobQueue, BlobScan, BlobTypes
<1>3. Full[i] = l /\ Met(i) = l
  <2>1. Full[i] \in Nat /\ Full[i] # 0 /\ Full[i] > nlabels
    BY <1>1, <1>2, BelowFacts
  <2> QED BY <1>1, <1>2, <2>1, MetFacts
<1>4. BlobTypes'
  <2>1. l \in 0..MaxLabel
    BY <1>1, <1>2, FloodingAssumption DEF BlobTypes
  <2> QED BY <1>1, <1>2, <2>1 DEF BlobTypes
<1>5. \A r : r \in SitesIn(qu') <=> r = i
  <2>1. SitesIn(qu) = {}
    <3>1. Live(qu) = {}
      BY <1>2 DEF BlobQueue, QueueSound, Live
    <3> QED BY <3>1 DEF SitesIn
  <2>2. \A r : r \in SitesIn(qu') <=> r \in SitesIn(qu) \/ r = i
    BY <1>1, <1>2, <2>1, QueuePushSound DEF BlobQueue, Flat
  <2> QED BY <2>1, <2>2
<1>6. QueueSound(qu', 0, Flat) /\ qu'.begin < qu'.end
  <2>1. i \notin SitesIn(qu)
    <3>1. Live(qu) = {}
      BY <1>2 DEF BlobQueue, QueueSound, Live
    <3> QED BY <3>1 DEF SitesIn
  <2> QED BY <1>1, <1>2, <2>1, QueuePushSound DEF BlobQueue, Flat
<1>7. output'[i] = l /\ \A q \in Site : q # i => output'[q] = output[q]
  BY <1>1, <1>2 DEF BlobTypes
<1>8. BlobQueue'
  <2>1. \A q \in SitesIn(qu') : output'[q] = nlabels'
    BY <1>1, <1>5, <1>7
  <2>2. SitesIn(qu)' = SitesIn(qu') /\ QueueSound(qu, 0, Flat)'
    BY <1>6 DEF SitesIn, Live, QueueSound, Flat
  <2> QED BY <1>1, <1>6, <2>1, <2>2 DEF BlobQueue
<1>9. \A q \in Site : output[q] # l
  BY <1>2, BelowFacts
<1>10. BlobFront'
  <2>1. \A q \in Site : output'[q] = Below(l)[q] \/ (Full[q] = l /\ output'[q] = 0)
    <3>1. Below(l)[i] = l
      BY <1>2, <1>3, BelowFacts
    <3>2. ASSUME NEW q \in Site, q # i
          PROVE  output'[q] = Below(l)[q] \/ (Full[q] = l /\ output'[q] = 0)
      <4>1. output'[q] = IF Full[q] <= nlabels THEN Full[q] ELSE 0
        BY <1>2, <1>7, <3>2, BelowFacts
      <4>2. Below(l)[q] = (IF Full[q] <= l THEN Full[q] ELSE 0) /\ Full[q] \in Nat
        BY <1>2, BelowFacts
      <4> QED BY <1>2, <4>1, <4>2
    <3> QED BY <1>7, <3>1, <3>2
  <2>2. \A q \in Site : output'[q] = l => q \in SitesIn(qu')
    BY <1>5, <1>7, <1>9
  <2>3. Full' = Full /\ Met(i)' = Met(i) /\ (Below(nlabels))' = Below(l)
    BY <1>1 DEF Full, Met, Below, Objects
  <2>4. SitesIn(qu)' = SitesIn(qu')
    BY DEF SitesIn, Live
  <2>5. l # 0
    BY <1>2
  <2> HIDE DEF l
  <2> QED BY <1>1, <1>3, <1>7, <2>1, <2>2, <2>3, <2>4, <2>5 DEF BlobFront
<1>11. BlobAccus'
  <2> DEFINE a == Append(accus, {})
  <2>1. accus \in Seq(SUBSET Site) /\ Len(accus) = l /\ result \in Seq(SUBSET Site)
        /\ \A m \in 1..nlabels : accus[m + 1] = {q \in Site : output[q] = m}
    BY <1>2 DEF BlobAccus
  <2>2. a \in Seq(SUBSET Site) /\ Len(a) = l + 1 /\ a[l + 1] = {}
        /\ \A x \in 1..l : a[x] = accus[x]
    BY <1>2, <2>1
  <2>3. /\ accus' \in Seq(SUBSET Site) /\ Len(accus') = l + 1 /\ accus'[l + 1] = {i}
        /\ \A x \in 1..l : accus'[x] = accus[x]
    <3>2. accus' = B!Take(a, i, l) /\ i \in Site
      BY <1>1, <1>2
    <3> HIDE DEF a
    <3>1. l \in Nat /\ l < Len(a) /\ \A x \in 1..l : x \in 1..Len(a) /\ x # l + 1
      BY <1>2, <2>2
    <3> HIDE DEF l
    <3>3. /\ B!Take(a, i, l) \in Seq(SUBSET Site) /\ Len(B!Take(a, i, l)) = Len(a)
          /\ B!Take(a, i, l)[l + 1] = a[l + 1] \cup {i}
          /\ \A x \in 1..Len(a) : x # l + 1 => B!Take(a, i, l)[x] = a[x]
      BY <2>2, <3>1, <3>2, AccusTake
    <3> QED BY <2>2, <3>1, <3>2, <3>3
  <2>4. ASSUME NEW m \in 1..l PROVE accus'[m + 1] = {q \in Site : output'[q] = m}
    <3>1. CASE m = l
      BY <1>2, <1>7, <1>9, <2>3, <3>1
    <3>2. CASE m # l
      <4>1. m \in 1..nlabels /\ m + 1 \in 1..l
        BY <1>2, <3>2
      <4>2. {q \in Site : output'[q] = m} = {q \in Site : output[q] = m}
        BY <1>1, <1>2, <1>7, <3>2, <4>1
      <4> QED BY <2>1, <2>3, <4>1, <4>2
    <3> QED BY <3>1, <3>2
  <2> QED BY <1>1, <2>1, <2>3, <2>4 DEF BlobAccus
<1> QED BY <1>1, <1>4, <1>8, <1>10, <1>11 DEF BlobsInv, BlobScan

LEMMA FrontStep ==
    ASSUME BlobsInv, B!Front
    PROVE  BlobsInv'
<1> DEFINE q == QueueFront(qu)
<1>1. /\ pc = "front" /\ cur' = q /\ qu' = QueuePop(qu) /\ k' = 1 /\ pc' = "expand"
      /\ UNCHANGED <<input, output, nlabels, i, accus, result>>
  BY BlobsShare DEF B!Front
<1>2. BlobTypes /\ BlobQueue /\ BlobFront /\ BlobAccus /\ qu.begin < qu.end
  BY <1>1 DEF BlobsInv, BlobQueue
<1>3. /\ QueueSound(qu', 0, Flat) /\ q \in Site /\ q \in SitesIn(qu)
      /\ \A r : r \in SitesIn(qu') <=> r \in SitesIn(qu) /\ r # q
  BY <1>1, <1>2, QueuePopSound DEF BlobQueue
<1> HIDE DEF q
<1>4. BlobTypes'
  BY <1>1, <1>2, <1>3 DEF BlobTypes
<1>5. SitesIn(qu)' = SitesIn(qu')
  BY DEF SitesIn, Live
<1>6. BlobQueue'
  <2>1. QueueSound(qu, 0, Flat)'
    BY <1>3 DEF QueueSound, Live, Flat
  <2> QED BY <1>1, <1>2, <1>3, <1>5, <2>1 DEF BlobQueue
<1>7. BlobFront'
  <2>1. Full' = Full /\ Met(i)' = Met(i) /\ (Below(nlabels))' = Below(nlabels)
    BY <1>1 DEF Full, Met, Below, Objects
  <2>2. output[q] = nlabels
    BY <1>2, <1>3 DEF BlobQueue
  <2>3. ASSUME NEW r \in Site, output[r] = nlabels, r \notin SitesIn(qu')
        PROVE  \A x \in DOMAIN Nbh[r] : Settled(Nbh[r][x])' \/ (r = q /\ x >= 1)
    <3>1. CASE r = q
      <4>1. \A x \in DOMAIN Nbh[r] : x >= 1
        BY RegionsAssumption
      <4> QED BY <3>1, <4>1
    <3>2. CASE r # q
      <4>1. r \notin SitesIn(qu)
        BY <1>3, <2>3, <3>2
      <4>2. \A x \in DOMAIN Nbh[r] : Settled(Nbh[r][x])
        BY <1>1, <1>2, <2>3, <4>1 DEF BlobFront
      <4> QED BY <1>1, <4>2 DEF Settled
    <3> QED BY <3>1, <3>2
  <2> QED BY <1>1, <1>2, <1>3, <1>5, <2>1, <2>2, <2>3 DEF BlobFront
<1>8. BlobAccus'
  BY <1>1, <1>2 DEF BlobAccus
<1> QED BY <1>1, <1>4, <1>6, <1>7, <1>8 DEF BlobsInv, BlobScan

LEMMA SkipNeighbourStep ==
    ASSUME BlobsInv, B!SkipNeighbour
    PROVE  BlobsInv'
<1>1. /\ pc = "expand" /\ k <= Len(Nbh[cur]) /\ Settled(Nbh[cur][k]) /\ k' = k + 1
      /\ UNCHANGED <<input, output, nlabels, qu, pc, i, cur, accus, result>>
  BY BlobsShare DEF B!SkipNeighbour, B!n, B!Reaches, B!ToLabel, Settled
<1>2. BlobTypes /\ BlobQueue /\ BlobFront /\ BlobAccus /\ k \in Nat /\ k \in Int
  BY <1>1 DEF BlobsInv, BlobTypes
<1>3. BlobTypes'
  BY <1>1, <1>2 DEF BlobTypes
<1>4. BlobQueue'
  <2>1. SitesIn(qu)' = SitesIn(qu) /\ QueueSound(qu, 0, Flat)'
    BY <1>1, <1>2 DEF BlobQueue, SitesIn, Live, QueueSound, Flat
  <2> QED BY <1>1, <1>2, <2>1 DEF BlobQueue
<1>5. BlobFront'
  <2>1. Full' = Full /\ Met(i)' = Met(i) /\ (Below(nlabels))' = Below(nlabels)
        /\ SitesIn(qu)' = SitesIn(qu)
    BY <1>1 DEF Full, Met, Below, Objects, SitesIn, Live
  <2>2. ASSUME NEW r \in Site, output[r] = nlabels, r \notin SitesIn(qu),
               NEW x \in DOMAIN Nbh[r]
        PROVE  Settled(Nbh[r][x])' \/ (r = cur /\ x >= k + 1)
    <3>1. Settled(Nbh[r][x]) \/ (r = cur /\ x >= k)
      BY <1>1, <1>2, <2>2 DEF BlobFront
    <3>2. x \in Int
      BY RegionsAssumption
    <3>3. x >= k => x = k \/ x >= k + 1
      BY <1>2, <3>2
    <3>4. Settled(Nbh[r][x])' <=> Settled(Nbh[r][x])
      BY <1>1 DEF Settled
    <3> QED BY <1>1, <3>1, <3>3, <3>4
  <2> QED BY <1>1, <1>2, <2>1, <2>2 DEF BlobFront
<1>6. BlobAccus'
  BY <1>1, <1>2 DEF BlobAccus
<1> QED BY <1>1, <1>3, <1>4, <1>5, <1>6 DEF BlobsInv, BlobScan

\* A labelled site of the blob is in its object.
LEMMA BlobInObject ==
    ASSUME BlobsInv, pc \in {"front", "expand"}, NEW q \in Site, output[q] = nlabels
    PROVE  Full[q] = nlabels /\ input[q] /\ nlabels \in 1..MaxLabel
<1>1. BlobTypes /\ BlobFront /\ nlabels # 0 /\ nlabels \in Nat /\ nlabels \in 1..MaxLabel
  BY FloodingAssumption DEF BlobsInv, BlobFront, BlobTypes
<1>2. output[q] = Below(nlabels)[q]
  BY <1>1 DEF BlobFront
<1>3. Full[q] = nlabels
  BY <1>1, <1>2, BelowFacts
<1> QED BY <1>1, <1>3, BelowFacts

LEMMA ExpandStep ==
    ASSUME BlobsInv, B!Expand
    PROVE  BlobsInv'
<1> DEFINE q == Nbh[cur][k]
<1>1. /\ pc = "expand" /\ k <= Len(Nbh[cur]) /\ q # Outside /\ input[q] /\ output[q] = 0
      /\ qu' = QueuePush(qu, q) /\ output' = [output EXCEPT ![q] = nlabels]
      /\ accus' = B!Take(accus, q, nlabels) /\ k' = k + 1
      /\ UNCHANGED <<input, nlabels, pc, i, cur, result>>
  BY BlobsShare DEF B!Expand, B!n, B!Reaches, B!ToLabel
<1>2. /\ BlobTypes /\ BlobQueue /\ BlobFront /\ BlobAccus /\ k \in Nat /\ k \in Int
      /\ cur \in Site /\ output[cur] = nlabels /\ input \in [Site -> BOOLEAN]
      /\ output \in [Site -> 0..MaxLabel]
  BY <1>1 DEF BlobsInv, BlobTypes, BlobFront
<1>3. Full[cur] = nlabels /\ input[cur] /\ nlabels \in 1..MaxLabel /\ nlabels \in Nat
  <2>1. Full[cur] = nlabels /\ input[cur] /\ nlabels \in 1..MaxLabel
    BY <1>1, <1>2, BlobInObject
  <2> QED BY <2>1
<1>4. k \in DOMAIN Nbh[cur] /\ q \in Site /\ q \in Neighbours[cur]
  <2>1. Nbh[cur] \in Seq(Site \cup {Outside})
    BY <1>2, RegionsAssumption
  <2>2. k \in 1..Len(Nbh[cur])
    BY <1>1, <1>2, <2>1 DEF BlobTypes
  <2>3. k \in DOMAIN Nbh[cur] /\ q \in Site
    BY <1>1, <2>1, <2>2
  <2> QED BY <1>2, <2>3 DEF Neighbours
<1>5. Full[q] = nlabels
  BY <1>1, <1>2, <1>3, <1>4, FullFacts
<1>6. q \notin SitesIn(qu)
  BY <1>1, <1>2, <1>3 DEF BlobQueue
<1>7. /\ QueueSound(qu', 0, Flat) /\ \A r : r \in SitesIn(qu') <=> r \in SitesIn(qu) \/ r = q
  <2>1. Flat[q] = 0 /\ QueueSound(qu, 0, Flat)
    BY <1>2, <1>4 DEF BlobQueue, Flat
  <2> QED BY <1>1, <1>4, <1>6, <2>1, QueuePushSound
<1>8. output'[q] = nlabels /\ \A r \in Site : r # q => output'[r] = output[r]
  BY <1>1, <1>2, <1>4
<1>9. q # 0 /\ SitesIn(qu)' = SitesIn(qu')
  BY <1>4 DEF Site, SitesIn, Live
<1>10. BlobTypes'
  <2>1. output' \in [Site -> 0..MaxLabel]
    BY <1>1, <1>2, <1>3, <1>4
  <2> QED BY <1>1, <1>2, <2>1 DEF BlobTypes
<1>11. BlobQueue'
  <2>1. QueueSound(qu, 0, Flat)'
    BY <1>7 DEF QueueSound, Live, Flat
  <2>2. \A r \in SitesIn(qu') : output'[r] = nlabels
    <3>1. \A r \in SitesIn(qu) : r \in Site /\ output[r] = nlabels
      BY <1>2, LiveSites DEF BlobQueue, SitesIn
    <3> QED BY <1>7, <1>8, <3>1
  <2> QED BY <1>1, <1>9, <2>1, <2>2 DEF BlobQueue
<1>12. BlobFront'
  <2>1. Full' = Full /\ Met(i)' = Met(i) /\ (Below(nlabels))' = Below(nlabels)
    BY <1>1 DEF Full, Met, Below, Objects
  <2>2. output'[i] = nlabels /\ output'[cur] = nlabels
    BY <1>1, <1>2, <1>8 DEF BlobFront, BlobTypes
  <2>3. Below(nlabels)[q] = nlabels
    BY <1>2, <1>3, <1>4, <1>5, BelowFacts
  <2>4. \A r \in Site : output'[r] = Below(nlabels)[r] \/ (Full[r] = nlabels /\ output'[r] = 0)
    BY <1>1, <1>2, <1>8, <2>3 DEF BlobFront
  <2> HIDE DEF q
  <2>5. ASSUME NEW r \in Site, output'[r] = nlabels, r \notin SitesIn(qu'),
               NEW x \in DOMAIN Nbh[r]
        PROVE  Settled(Nbh[r][x])' \/ (r = cur /\ x >= k + 1)
    <3>1. r # q /\ r \notin SitesIn(qu) /\ output[r] = nlabels
      BY <1>7, <1>8, <2>5
    <3>2. Settled(Nbh[r][x]) \/ (r = cur /\ x >= k)
      BY <1>1, <1>2, <3>1 DEF BlobFront
    <3>3. x \in Int /\ (x >= k => x = k \/ x >= k + 1)
      <4>1. x \in Int
        BY RegionsAssumption
      <4> QED BY <1>2, <4>1
    <3>4. Nbh[r][x] \in Site \cup {Outside}
      BY RegionsAssumption
    <3>5. Settled(Nbh[r][x]) => Settled(Nbh[r][x])'
      <4>1. ASSUME Nbh[r][x] # Outside PROVE output[Nbh[r][x]] # 0 => output'[Nbh[r][x]] # 0
        BY <1>3, <1>8, <3>4, <4>1
      <4> QED BY <1>1, <4>1 DEF Settled
    <3>6. x = k /\ r = cur => Settled(Nbh[r][x])'
      BY <1>3, <1>8 DEF Settled, q
    <3> QED BY <3>2, <3>3, <3>5, <3>6
  <2> QED BY <1>1, <1>2, <1>9, <2>1, <2>2, <2>4, <2>5 DEF BlobFront
<1>13. BlobAccus'
  <2>1. accus \in Seq(SUBSET Site) /\ Len(accus) = nlabels + 1
    BY <1>2 DEF BlobAccus
  <2>2. nlabels < Len(accus)
    BY <1>3, <2>1
  <2> HIDE DEF q
  <2>3. /\ accus' \in Seq(SUBSET Site) /\ Len(accus') = nlabels + 1
        /\ accus'[nlabels + 1] = accus[nlabels + 1] \cup {q}
        /\ \A x \in 1..(nlabels + 1) : x # nlabels + 1 => accus'[x] = accus[x]
    BY <1>1, <1>3, <1>4, <2>1, <2>2, AccusTake
  <2>4. ASSUME NEW m \in 1..nlabels PROVE accus'[m + 1] = {r \in Site : output'[r] = m}
    <3>1. accus[m + 1] = {r \in Site : output[r] = m}
      BY <1>2 DEF BlobAccus
    <3>2. CASE m = nlabels
      BY <1>4, <1>8, <2>3, <3>1, <3>2
    <3>3. CASE m # nlabels
      <4>1. m + 1 \in 1..(nlabels + 1) /\ m + 1 # nlabels + 1
        BY <1>3, <3>3
      <4>2. {r \in Site : output'[r] = m} = {r \in Site : output[r] = m}
        BY <1>1, <1>3, <1>4, <1>8, <3>3
      <4> QED BY <2>3, <3>1, <4>1, <4>2
    <3> QED BY <3>2, <3>3
  <2> QED BY <1>1, <1>2, <2>3, <2>4 DEF BlobAccus
<1> QED BY <1>1, <1>10, <1>11, <1>12, <1>13 DEF BlobsInv, BlobScan

\* When nothing waits the whole object is labelled.
LEMMA EndExpandStep ==
    ASSUME BlobsInv, B!EndExpand
    PROVE  BlobsInv'
<1>1. /\ pc = "expand" /\ k > Len(Nbh[cur])
      /\ IF QueueIsEmpty(qu) THEN B!AdvanceScan ELSE pc' = "front" /\ UNCHANGED <<i, result>>
      /\ UNCHANGED <<input, output, nlabels, qu, cur, k, accus>>
  BY BlobsShare DEF B!EndExpand
<1>2. /\ BlobTypes /\ BlobQueue /\ BlobFront /\ BlobAccus
      /\ input \in [Site -> BOOLEAN] /\ cur \in Site /\ k \in Int
      /\ nlabels = Met(i) /\ Full[i] = nlabels /\ output[i] = nlabels /\ nlabels \in Nat
      /\ nlabels # 0 /\ i \in Site
  BY <1>1, FloodingAssumption DEF BlobsInv, BlobTypes, BlobFront
<1>3. \A q \in Site : output[q] = nlabels /\ q \notin SitesIn(qu) =>
         \A x \in DOMAIN Nbh[q] : Settled(Nbh[q][x])
  <2>1. \A x \in DOMAIN Nbh[cur] : ~ (x >= k)
    <3>1. Nbh[cur] \in Seq(Site \cup {Outside})
      BY <1>2, RegionsAssumption
    <3>2. \A x \in DOMAIN Nbh[cur] : x \in Int /\ x <= Len(Nbh[cur]) /\ Len(Nbh[cur]) \in Int
      BY <3>1
    <3> QED BY <1>1, <1>2, <3>2
  <2> QED BY <1>1, <1>2, <2>1 DEF BlobFront
<1>4. CASE ~ QueueIsEmpty(qu)
  <2>1. qu.begin < qu.end
    BY <1>2, <1>4 DEF BlobQueue, QueueSound, QueueIsEmpty
  <2>2. BlobTypes' /\ BlobAccus'
    BY <1>1, <1>2, <1>4 DEF BlobTypes, BlobAccus
  <2>3. SitesIn(qu)' = SitesIn(qu)
    BY <1>1 DEF SitesIn, Live
  <2>4. BlobQueue'
    <3>1. QueueSound(qu, 0, Flat)'
      BY <1>1, <1>2 DEF BlobQueue, Live, QueueSound, Flat
    <3> QED BY <1>1, <1>2, <1>4, <2>1, <2>3, <3>1 DEF BlobQueue
  <2>5. BlobFront'
    <3>1. Full' = Full /\ Met(i)' = Met(i) /\ (Below(nlabels))' = Below(nlabels)
      BY <1>1, <1>4 DEF Full, Met, Below, Objects
    <3>2. \A q \in Site : output[q] = nlabels /\ q \notin SitesIn(qu) =>
            \A x \in DOMAIN Nbh[q] : Settled(Nbh[q][x])'
      BY <1>1, <1>3 DEF Settled
    <3> QED BY <1>1, <1>2, <1>4, <2>3, <3>1, <3>2 DEF BlobFront
  <2> QED BY <1>1, <1>4, <2>2, <2>4, <2>5 DEF BlobsInv, BlobScan
<1>5. CASE QueueIsEmpty(qu)
  <2>1. qu.begin = qu.end /\ SitesIn(qu) = {}
    <3>1. qu.begin = qu.end
      BY <1>5 DEF QueueIsEmpty
    <3>2. Live(qu) = {}
      BY <1>2, <3>1 DEF BlobQueue, QueueSound, Live
    <3> QED BY <3>1, <3>2 DEF SitesIn
  <2> DEFINE C == {q \in Site : output[q] = nlabels}
  <2>2. ASSUME NEW q \in Site, NEW r \in Neighbours[q], input[q] = input[r], q \in C
        PROVE  r \in C
    <3>1. Full[q] = nlabels /\ input[q]
      BY <1>1, <2>2, BlobInObject
    <3>2. r \in Site /\ input[r] /\ Full[r] = nlabels
      <4>1. r \in Site
        BY DEF Neighbours
      <4>2. input[r]
        BY <2>2, <3>1
      <4> QED BY <1>2, <3>1, <4>1, <4>2, FullFacts
    <3>3. PICK x \in DOMAIN Nbh[q] : Nbh[q][x] = r
      BY DEF Neighbours
    <3>4. Settled(r)
      BY <1>3, <2>1, <2>2, <3>3
    <3>5. r # Outside
      BY <3>2 DEF Site, Outside
    <3>6. output[r] # 0
      BY <3>2, <3>4, <3>5 DEF Settled
    <3>7. output[r] = Below(nlabels)[r]
      BY <1>1, <1>2, <3>2, <3>6 DEF BlobFront
    <3> QED BY <1>2, <3>2, <3>7, BelowFacts
  <2>3. C \in Closed(input)
    <3>1. ASSUME NEW q \in Site, NEW r \in Neighbours[q], input[q] = input[r]
          PROVE  q \in C <=> r \in C
      <4>1. r \in Site /\ q \in Neighbours[r]
        BY NeighboursSymmetric
      <4> HIDE DEF C
      <4> QED BY <2>2, <3>1, <4>1
    <3> QED BY <3>1 DEF Closed, SiteSets
  <2>4. \A q \in FlatZone(input, i) : q \in C
    BY <1>2, <2>3 DEF FlatZone, ZoneIn
  <2>5. input[i]
    BY <1>2, BelowFacts
  <2>6. ASSUME NEW q \in Site PROVE output[q] = Below(nlabels)[q]
    <3>1. CASE Full[q] = nlabels
      <4>1. q \in FlatZone(input, i)
        BY <1>2, <2>5, <3>1, FullFacts
      <4> QED BY <1>2, <2>4, <3>1, <4>1, BelowFacts
    <3>2. CASE Full[q] # nlabels
      BY <1>1, <1>2, <3>2 DEF BlobFront
    <3> QED BY <3>1, <3>2
  <2>7. output = Below(nlabels)
    <3>1. output = [q \in Site |-> output[q]]
      BY <1>2 DEF BlobTypes
    <3>2. Below(nlabels) = [q \in Site |-> Below(nlabels)[q]]
      BY DEF Below
    <3> QED BY <2>6, <3>1, <3>2
  <2> QED BY <1>1, <1>2, <1>5, <2>1, <2>7, AdvanceStep
<1> QED BY <1>4, <1>5

LEMMA BlobsStep == BlobsInv /\ [B!Next]_B!vars => BlobsInv'
<1> SUFFICES ASSUME BlobsInv, [B!Next]_B!vars PROVE BlobsInv'
  OBVIOUS
<1>1. CASE UNCHANGED B!vars
  <2>0. UNCHANGED <<input, output, nlabels, qu, pc, i, cur, k, accus, result>>
    BY <1>1 DEF B!vars
  <2>1. BlobTypes' /\ BlobAccus'
    BY <2>0 DEF BlobsInv, BlobTypes, BlobAccus
  <2>2. BlobQueue'
    <3>1. SitesIn(qu)' = SitesIn(qu) /\ QueueSound(qu, 0, Flat)'
      BY <2>0 DEF BlobsInv, BlobQueue, SitesIn, Live, QueueSound, Flat
    <3> QED BY <2>0, <3>1 DEF BlobsInv, BlobQueue
  <2>3. /\ Full' = Full /\ Met(i)' = Met(i) /\ (Met(i - 1))' = Met(i - 1) /\ Met(N)' = Met(N)
        /\ (Below(nlabels))' = Below(nlabels) /\ SitesIn(qu)' = SitesIn(qu)
        /\ \A r : Settled(r)' <=> Settled(r)
    BY <2>0 DEF Full, Met, Below, Objects, SitesIn, Live, Settled
  <2>4. BlobScan'
    BY <2>0, <2>3 DEF BlobsInv, BlobScan
  <2>5. BlobFront'
    BY <2>0, <2>3 DEF BlobsInv, BlobFront
  <2> QED BY <2>1, <2>2, <2>4, <2>5 DEF BlobsInv
<1>2. CASE B!Next
  BY <1>1, <1>2, SkipSiteStep, NewBlobStep, AbortStep, FrontStep, SkipNeighbourStep,
     ExpandStep, EndExpandStep DEF B!Next, B!Returned
<1> QED BY <1>1, <1>2

LEMMA BlobsTyped == BlobsInv => B!TypeOK
<1> SUFFICES ASSUME BlobsInv PROVE B!TypeOK
  OBVIOUS
<1>1. QueueNsites(qu) \in 0..N /\ qu.q \in Seq(Site)
  BY QueueFits DEF BlobsInv, BlobQueue, QueueSound
<1>2. BlobTypes /\ BlobAccus
  BY DEF BlobsInv
<1> QED BY <1>1, <1>2, BlobsShare DEF B!TypeOK, BlobTypes, BlobAccus

LEMMA BlobsOrdered == BlobsInv => B!BlobsOneByOne
<1> SUFFICES ASSUME BlobsInv PROVE B!BlobsOneByOne
  OBVIOUS
<1>1. pc = "scan" => QueueIsEmpty(qu)
  BY DEF BlobsInv, BlobQueue, QueueIsEmpty
<1>2. ASSUME pc = "expand", output[Nbh[cur][k]] = 0
      PROVE  ~ QueueHas(qu, Nbh[cur][k])
  <2>1. \A q \in SitesIn(qu) : output[q] # 0
    BY <1>2 DEF BlobsInv, BlobQueue, BlobFront
  <2>2. \A x \in 1..QueueNsites(qu) : QueueAt(qu, x - 1) \in SitesIn(qu)
    <3>1. qu.begin \in Nat /\ qu.end \in Nat
      BY DEF BlobsInv, BlobQueue, QueueSound
    <3>2. \A x \in 1..(qu.end - qu.begin) : qu.begin + (x - 1) + 1 \in Live(qu)
      BY <3>1 DEF Live
    <3> QED BY <3>2 DEF QueueAt, QueueNsites, SitesIn
  <2> QED BY <1>2, <2>1, <2>2 DEF QueueHas
<1> QED BY <1>1, <1>2, BlobsShare DEF B!BlobsOneByOne, B!n, B!Reaches, B!ToLabel

LEMMA BlobsWhole == BlobsInv => B!WholeBlobs
<1> SUFFICES ASSUME BlobsInv PROVE B!WholeBlobs
  OBVIOUS
<1>1. BlobTypes /\ BlobScan /\ input \in [Site -> BOOLEAN] /\ nlabels \in Nat
  BY FloodingAssumption DEF BlobsInv, BlobTypes
<1>2. B!Objects = Objects /\ B!Numbered(B!Objects, [j \in 1..N |-> j]) = Full
  BY BlobsShare DEF B!Objects, Objects, Full, ScanOrder
<1>3. ASSUME pc = "done" PROVE output = Full /\ nlabels = Cardinality(Objects)
  <2>1. nlabels = Cardinality(Objects) /\ output = Below(nlabels)
    BY <1>1, <1>3, MetFacts DEF BlobScan
  <2>2. Full = [q \in Site |-> Full[q]] /\ \A q \in Site : Full[q] <= nlabels
    <3>1. Cardinality(Objects) \in Nat
      BY <1>1, <2>1
    <3> QED BY <1>1, <2>1, <3>1, FullFacts
  <2> QED BY <2>1, <2>2 DEF Below
<1>4. pc = "aborted" => output = Below(MaxLabel)
  BY <1>1 DEF BlobScan
<1> QED BY <1>2, <1>3, <1>4, BlobsShare DEF B!WholeBlobs, Below

LEMMA BlobsRun ==
    /\ FrontsInit => (kind = "blobs" => BlobsInv)
    /\ (kind = "blobs" => BlobsInv) /\ [MCNext]_mcvars => (kind = "blobs" => BlobsInv)'
<1>1. FrontsInit => (kind = "blobs" => BlobsInv)
  BY BlobsBegin DEF FrontsInit
<1>2. ASSUME kind = "blobs" => BlobsInv, [MCNext]_mcvars, kind' = "blobs" PROVE BlobsInv'
  BY <1>2, OneRuns, BlobsStep
<1> QED BY <1>1, <1>2

\* blobs.hh labels each object whole, in the order of the scan, stops at a
\* whole one when the labels run out, and tells the functor of each site.
THEOREM BlobsLabelObjects == FrontsSpec => []BlobsAreObjects
<1>1. BlobsInv => B!AccusFollowOutput
  BY BlobsShare DEF BlobsInv, BlobAccus, B!AccusFollowOutput
<1>2. (kind = "blobs" => BlobsInv) => BlobsAreObjects
  BY <1>1, BlobsWhole DEF BlobsAreObjects
<1> QED BY <1>2, BlobsRun, PTL DEF FrontsSpec

-----------------------------------------------------------------------------
(* The geodesic distance.                                                   *)

LEMMA GeodesicShare ==
    /\ G!Site = Site /\ G!Outside = Outside /\ G!Neighbours = Neighbours
    /\ G!EmptyQueue = EmptyQueue
    /\ \A Q, e : G!QueuePush(Q, e) = QueuePush(Q, e)
    /\ \A Q : /\ G!QueuePop(Q) = QueuePop(Q) /\ G!QueueFront(Q) = QueueFront(Q)
              /\ (G!QueueIsEmpty(Q) <=> QueueIsEmpty(Q)) /\ G!QueueNsites(Q) = QueueNsites(Q)
              /\ G!QueueClear(Q) = QueueClear(Q) /\ G!QueueSites(Q) = QueueSites(Q)
BY DEF G!Site, Site, G!Outside, Outside, G!Neighbours, Neighbours,
       G!EmptyQueue, EmptyQueue, G!QueuePush, QueuePush, G!QueuePop, QueuePop,
       G!QueueFront, QueueFront, G!QueueAt, QueueAt, G!QueueIsEmpty, QueueIsEmpty,
       G!QueueNsites, QueueNsites, G!QueueClear, QueueClear, G!QueueSites, QueueSites

Sources == {q \in Site : input[q]}

MapsSound ==
    /\ input \in [Site -> BOOLEAN] /\ max \in Nat
    /\ dmap \in [Site -> 0..max] /\ cp_ima \in [Site -> Sources \cup {Outside}]

GeoTypes ==
    /\ MapsSound
    /\ qu = [q |-> qu.q, begin |-> qu.begin, end |-> qu.end]
    /\ qu.q \in Seq(Site) /\ qu.begin \in Nat /\ qu.end \in Nat
    /\ qu.begin <= qu.end /\ qu.end <= Len(qu.q)
    /\ pc # "done" => qu.end = Len(qu.q)
    /\ pc \in {"init", "propagate", "done"} /\ i \in Site

\* The sites before i were looked at.
GeoStart ==
    pc = "init" =>
       /\ \A q \in Site : dmap[q] = IF input[q] /\ q < i THEN 0 ELSE max
       /\ \A q \in Site : cp_ima[q] = IF input[q] THEN q ELSE Outside
       /\ \A x \in Live(qu) : G!InQueue(qu.q[x]) /\ qu.q[x] < i
       /\ \A x, y \in Live(qu) : qu.q[x] = qu.q[y] => x = y
       /\ \A q \in Site : q < i /\ G!InQueue(q) => q \in SitesIn(qu)

\* A value comes from an object point or from a neighbour that is closer.
GeoParents ==
    pc # "init" =>
       \A q \in Site :
          /\ input[q] => dmap[q] = 0 /\ cp_ima[q] = q
          /\ cp_ima[q] = Outside => dmap[q] = max
          /\ ~ input[q] /\ cp_ima[q] # Outside =>
               \E r \in Neighbours[q] : dmap[r] < max /\ dmap[r] + 1 = dmap[q] /\ cp_ima[q] = cp_ima[r]

\* What q has reached.
Spread(q) == \A r \in Neighbours[q] : cp_ima[r] # Outside /\ dmap[r] <= dmap[q] + 1

GeoWave ==
    pc # "init" =>
       /\ \A x, y \in Live(qu) : x <= y =>
            /\ dmap[qu.q[x]] <= dmap[qu.q[y]] /\ dmap[qu.q[y]] <= dmap[qu.q[x]] + 1
            /\ qu.q[x] = qu.q[y] => x = y \/ dmap[qu.q[x]] = max
       /\ \A x \in Live(qu), q \in Site : dmap[q] < max => dmap[q] <= dmap[qu.q[x]] + 1
       /\ \A q \in Site : dmap[q] < max => q \in SitesIn(qu) \/ Spread(q)
       /\ pc = "done" => Live(qu) = {}

GeoInv == GeoTypes /\ GeoStart /\ GeoParents /\ GeoWave

LEMMA GeoBegin == G!Init => GeoInv
<1> SUFFICES ASSUME G!Init PROVE GeoInv
  OBVIOUS
<1>1. /\ input \in [Site -> BOOLEAN] /\ max \in Nat
      /\ dmap = [q \in Site |-> max] /\ cp_ima = [q \in Site |-> IF input[q] THEN q ELSE Outside]
      /\ qu = [q |-> <<>>, begin |-> 0, end |-> 0] /\ pc = "init" /\ i = 1
  BY GeodesicShare DEF G!Init, G!Start, G!FillMaps, EmptyQueue
<1>2. /\ qu = [q |-> qu.q, begin |-> qu.begin, end |-> qu.end]
      /\ qu.q \in Seq(Site) /\ qu.begin = 0 /\ qu.end = 0 /\ Len(qu.q) = 0
  BY <1>1
<1>3. MapsSound
  BY <1>1 DEF MapsSound, Sources
<1>4. GeoTypes
  BY <1>1, <1>2, <1>3, RegionsAssumption DEF GeoTypes, Site
<1>5. GeoStart
  <2>1. Live(qu) = {}
    BY <1>2 DEF Live
  <2>2. \A q \in Site : ~ (q < i)
    BY <1>1 DEF Site
  <2> QED BY <1>1, <2>1, <2>2 DEF GeoStart
<1> QED BY <1>1, <1>4, <1>5 DEF GeoInv, GeoParents, GeoWave

\* A queue with its last site in the last cell.
Filled(Q) ==
    /\ Q = [q |-> Q.q, begin |-> Q.begin, end |-> Q.end]
    /\ Q.q \in Seq(Site) /\ Q.begin \in Nat /\ Q.end = Len(Q.q) /\ Q.begin <= Q.end

\* What a push changes in the queue.
LEMMA GeoPush ==
    ASSUME NEW Q, Filled(Q), NEW e \in Site, NEW R, R = QueuePush(Q, e)
    PROVE  /\ R = [q |-> R.q, begin |-> R.begin, end |-> R.end]
           /\ R.q \in Seq(Site) /\ R.begin = Q.begin /\ R.end = Len(R.q)
           /\ R.end = Q.end + 1 /\ R.end \in Nat /\ R.begin <= R.end
           /\ R.q[R.end] = e /\ R.end \in Live(R)
           /\ \A x \in 1..Q.end : R.q[x] = Q.q[x] /\ x # R.end
           /\ \A x : x \in Live(R) <=> x \in Live(Q) \/ x = R.end
<1>1. R = [q |-> Append(Q.q, e), begin |-> Q.begin, end |-> Q.end + 1]
  BY DEF QueuePush
<1>0. Q.q \in Seq(Site) /\ Q.begin \in Nat /\ Q.end = Len(Q.q) /\ Q.begin <= Q.end
  BY DEF Filled
<1>2. /\ Append(Q.q, e) \in Seq(Site) /\ Len(Append(Q.q, e)) = Len(Q.q) + 1
      /\ Append(Q.q, e)[Len(Q.q) + 1] = e
      /\ \A x \in 1..Len(Q.q) : Append(Q.q, e)[x] = Q.q[x]
  BY <1>0
<1> QED BY <1>0, <1>1, <1>2 DEF Live

LEMMA GeoInitStep ==
    ASSUME GeoInv, G!InitP
    PROVE  GeoInv'
<1>1. /\ pc = "init"
      /\ dmap' = [dmap EXCEPT ![i] = IF input[i] THEN 0 ELSE dmap[i]] /\ cp_ima' = cp_ima
      /\ qu' = IF G!InQueue(i) THEN QueuePush(qu, i) ELSE qu
      /\ \/ i = N /\ pc' = "propagate" /\ i' = i
         \/ i # N /\ pc' = "init" /\ i' = i + 1
      /\ UNCHANGED <<input, max>>
  BY GeodesicShare DEF G!InitP, G!InitSite
<1>2. /\ GeoTypes /\ GeoStart /\ MapsSound /\ i \in Site /\ i \in Int
      /\ qu.q \in Seq(Site) /\ qu.begin \in Nat /\ qu.end = Len(qu.q) /\ qu.begin <= qu.end
      /\ max \in Nat /\ dmap \in [Site -> 0..max]
  BY <1>1 DEF GeoInv, GeoTypes, MapsSound, Site
<1> DEFINE Before(q) == q < i \/ q = i
<1>3. \A q \in Site : q \in Int /\ q <= N /\ (pc' = "init" => (q < i' <=> Before(q)))
  BY <1>1, <1>2, RegionsAssumption DEF Site
<1>4. pc' = "propagate" => \A q \in Site : Before(q)
  BY <1>1, <1>2, <1>3, RegionsAssumption DEF Site
<1>5. i' \in Site
  BY <1>1, <1>2, RegionsAssumption DEF Site
<1>6. \A q \in Site : dmap'[q] = IF input[q] /\ Before(q) THEN 0 ELSE max
  <2>1. \A q \in Site : dmap[q] = IF input[q] /\ q < i THEN 0 ELSE max
    BY <1>1, <1>2 DEF GeoStart
  <2>2. ASSUME NEW q \in Site PROVE dmap'[q] = IF input[q] /\ Before(q) THEN 0 ELSE max
    <3>1. CASE q = i
      BY <1>1, <1>2, <2>1, <3>1
    <3>2. CASE q # i
      <4>1. dmap'[q] = dmap[q]
        BY <1>1, <1>2, <3>2
      <4> QED BY <2>1, <3>2, <4>1
    <3> QED BY <3>1, <3>2
  <2> QED BY <2>2
<1>7. \A q \in Site : cp_ima'[q] = IF input[q] THEN q ELSE Outside
  BY <1>1, <1>2 DEF GeoStart
<1>8. \A q : G!InQueue(q)' <=> G!InQueue(q)
  BY <1>1 DEF G!InQueue
<1> HIDE DEF Before
<1>9. /\ qu' = [q |-> qu'.q, begin |-> qu'.begin, end |-> qu'.end]
      /\ qu'.q \in Seq(Site) /\ qu'.begin \in Nat /\ qu'.end \in Nat /\ qu'.begin <= qu'.end
      /\ qu'.end = Len(qu'.q)
      /\ \A x \in Live(qu') : G!InQueue(qu'.q[x]) /\ Before(qu'.q[x]) /\ qu'.q[x] \in Site
      /\ \A x, y \in Live(qu') : qu'.q[x] = qu'.q[y] => x = y
      /\ \A q \in Site : Before(q) /\ G!InQueue(q) => q \in SitesIn(qu')
  <2>1. /\ \A x \in Live(qu) : G!InQueue(qu.q[x]) /\ qu.q[x] < i /\ qu.q[x] \in Site /\ x \in 1..qu.end
        /\ \A x, y \in Live(qu) : qu.q[x] = qu.q[y] => x = y
        /\ \A q \in Site : q < i /\ G!InQueue(q) => q \in SitesIn(qu)
    BY SMTT(30), <1>1, <1>2 DEF GeoStart, Live
  <2>2. CASE ~ G!InQueue(i)
    <3>1. qu' = qu
      BY <1>1, <2>2
    <3> QED BY <1>2, <2>1, <2>2, <3>1 DEF GeoTypes, Before
  <2>3. CASE G!InQueue(i)
    <3> DEFINE R == qu'
               z == R.end
    <3>1. Filled(qu) /\ R = QueuePush(qu, i) /\ i \in Site
      BY <1>1, <1>2, <2>3 DEF GeoTypes, Filled
    <3> HIDE DEF R
    <3>2. /\ R = [q |-> R.q, begin |-> R.begin, end |-> R.end]
          /\ R.q \in Seq(Site) /\ R.begin = qu.begin /\ R.end = Len(R.q)
          /\ R.end = qu.end + 1 /\ R.end \in Nat /\ R.begin <= R.end
          /\ R.q[z] = i /\ z \in Live(R)
          /\ \A x \in 1..qu.end : R.q[x] = qu.q[x] /\ x # z
          /\ \A x : x \in Live(R) <=> x \in Live(qu) \/ x = z
      BY <3>1, GeoPush
    <3> HIDE DEF z
    <3>3. \A x \in Live(R) : x = z \/ (x \in Live(qu) /\ R.q[x] = qu.q[x] /\ R.q[x] < i)
      BY <2>1, <3>2
    <3>4. \A x \in Live(R) : G!InQueue(R.q[x]) /\ Before(R.q[x]) /\ R.q[x] \in Site
      BY <1>2, <2>1, <2>3, <3>2, <3>3 DEF Before
    <3>5. \A x, y \in Live(R) : R.q[x] = R.q[y] => x = y
      <4>1. ~ (i < i)
        BY <1>2
      <4> QED BY <2>1, <3>2, <3>3, <4>1
    <3>6. \A q \in Site : Before(q) /\ G!InQueue(q) => q \in SitesIn(R)
      <4>1. i \in SitesIn(R)
        BY <3>2 DEF SitesIn
      <4>2. \A q \in SitesIn(qu) : q \in SitesIn(R)
        <5>1. \A x \in Live(qu) : x \in Live(R) /\ R.q[x] = qu.q[x]
          BY <2>1, <3>2
        <5> QED BY <5>1 DEF SitesIn
      <4> QED BY <2>1, <4>1, <4>2 DEF Before
    <3> QED BY <1>2, <3>2, <3>4, <3>5, <3>6 DEF R
  <2> QED BY <2>2, <2>3
<1>10. SitesIn(qu)' = SitesIn(qu') /\ Live(qu)' = Live(qu')
  BY DEF SitesIn, Live
<1>11. GeoTypes'
  <2>1. dmap' \in [Site -> 0..max]
    BY <1>1, <1>2
  <2>2. MapsSound'
    BY <1>1, <1>2, <2>1 DEF MapsSound, Sources
  <2> QED BY <1>1, <1>5, <1>9, <2>2 DEF GeoTypes
<1>12. GeoStart'
  <2> SUFFICES ASSUME pc' = "init" PROVE GeoStart'
    BY DEF GeoStart
  <2>1. \A q \in Site : q < i' <=> Before(q)
    BY <1>3
  <2> QED BY <1>1, <1>6, <1>7, <1>8, <1>9, <1>10, <2>1 DEF GeoStart
<1>13. GeoParents' /\ GeoWave'
  <2> SUFFICES ASSUME pc' = "propagate" PROVE GeoParents' /\ GeoWave'
    BY <1>1 DEF GeoParents, GeoWave
  <2>1. \A q \in Site : /\ dmap'[q] = IF input[q] THEN 0 ELSE max
                        /\ cp_ima'[q] = IF input[q] THEN q ELSE Outside
    BY <1>4, <1>6, <1>7
  <2>2. \A q \in Site : q # Outside
    BY DEF Site, Outside
  <2>3. GeoParents'
    BY <1>1, <2>1, <2>2 DEF GeoParents
  <2>4. \A x \in Live(qu') : dmap'[qu'.q[x]] = 0 /\ input[qu'.q[x]]
    <3>1. \A q : G!InQueue(q) => input[q]
      BY DEF G!InQueue
    <3> QED BY <1>9, <2>1, <3>1
  <2>5. ASSUME NEW q \in Site, dmap'[q] < max PROVE q \in SitesIn(qu') \/ Spread(q)'
    <3>1. input[q] /\ dmap'[q] = 0
      BY <1>2, <2>1, <2>5
    <3>2. CASE G!InQueue(q)
      BY <1>4, <1>9, <3>2
    <3>3. CASE ~ G!InQueue(q)
      <4>1. \A r \in Neighbours[q] : input[r] /\ r \in Site
        BY <3>1, <3>3, GeodesicShare DEF G!InQueue, Neighbours
      <4>2. \A r \in Neighbours[q] : cp_ima'[r] # Outside /\ dmap'[r] <= dmap'[q] + 1
        BY <2>1, <2>2, <3>1, <4>1
      <4> QED BY <4>2 DEF Spread
    <3> QED BY <3>2, <3>3
  <2>6. \A q \in Site : dmap'[q] < max => dmap'[q] = 0
    BY <1>2, <2>1
  <2>7. GeoWave'
    BY SMTT(30), <1>1, <1>2, <1>9, <1>10, <2>4, <2>5, <2>6 DEF GeoWave
  <2> QED BY <2>3, <2>7
<1> QED BY <1>11, <1>12, <1>13 DEF GeoInv

\* What a step of the loop of ReachUpTo makes of what was reached so far.
GeoOne(p, j, st) ==
    IF Nbh[p][j] # Outside /\ st.dmap[Nbh[p][j]] = max
      THEN [dmap |-> [st.dmap EXCEPT ![Nbh[p][j]] = dmap[p] + 1],
            cp_ima |-> [st.cp_ima EXCEPT ![Nbh[p][j]] = st.cp_ima[p]],
            qu |-> QueuePush(st.qu, Nbh[p][j])]
      ELSE st

GeoLoop(g, p, m, rest) ==
    g = [j \in 0..m |-> IF j = 0 THEN [dmap |-> dmap, cp_ima |-> cp_ima, qu |-> rest]
                                 ELSE GeoOne(p, j, g[j - 1])]

LEMMA GeoLoopExists ==
    ASSUME NEW p, NEW n \in Nat, NEW rest
    PROVE  \E g : GeoLoop(g, p, n, rest)
<1> DEFINE Bad == {m \in 0..n : ~ \E g : GeoLoop(g, p, m, rest)}
           Base == [dmap |-> dmap, cp_ima |-> cp_ima, qu |-> rest]
<1>1. SUFFICES ASSUME Bad # {} PROVE FALSE
  BY <1>1
<1>2. PICK m \in Bad : \A l \in Bad : m <= l
  <2>1. Bad \in SUBSET Nat
    OBVIOUS
  <2> HIDE DEF Bad
  <2> QED BY <1>1, <2>1, LeastNat
<1>3. m # 0
  <2>1. GeoLoop([j \in 0..0 |-> Base], p, 0, rest)
    BY DEF GeoLoop
  <2> QED BY <2>1
<1>4. m \in 1..n /\ m - 1 \in 0..n /\ m - 1 \notin Bad
  BY <1>2, <1>3
<1>5. PICK g : GeoLoop(g, p, m - 1, rest)
  BY <1>4
<1> DEFINE h == [j \in 0..m |-> IF j = m THEN GeoOne(p, m, g[m - 1]) ELSE g[j]]
<1>6. \A j \in 0..(m - 1) : g[j] = IF j = 0 THEN Base ELSE GeoOne(p, j, g[j - 1])
  BY <1>5 DEF GeoLoop
<1>7. ASSUME NEW j \in 0..m
      PROVE  h[j] = IF j = 0 THEN Base ELSE GeoOne(p, j, h[j - 1])
  <2>1. CASE j = m
    <3>1. h[j - 1] = g[m - 1] /\ h[j] = GeoOne(p, m, g[m - 1])
      BY <1>4, <2>1
    <3> QED BY <1>4, <2>1, <3>1
  <2>2. CASE j # m
    <3>1. j \in 0..(m - 1) /\ h[j] = g[j]
      BY <1>4, <2>2
    <3>2. j # 0 => h[j - 1] = g[j - 1]
      BY <1>4, <2>2
    <3> QED BY <1>6, <3>1, <3>2
  <2> QED BY <2>1, <2>2
<1>8. h = [j \in 0..m |-> IF j = 0 THEN Base ELSE GeoOne(p, j, h[j - 1])]
  <2>1. h = [j \in 0..m |-> h[j]]
    OBVIOUS
  <2> HIDE DEF h
  <2> QED BY <1>7, <2>1
<1>9. GeoLoop(h, p, m, rest)
  <2> HIDE DEF h
  <2> QED BY <1>8 DEF GeoLoop
<1> QED BY <1>4, <1>9

\* The neighbours of p among its first m ones that are at max.
FarUpTo(p, m) == {q \in Site : dmap[q] = max /\ \E x \in 1..m : Nbh[p][x] = q}

New(Q, rest) == (rest.end + 1)..Q.end

GeoReached(st, p, far, rest) ==
    /\ st.dmap = [q \in Site |-> IF q \in far THEN dmap[p] + 1 ELSE dmap[q]]
    /\ st.cp_ima = [q \in Site |-> IF q \in far THEN cp_ima[p] ELSE cp_ima[q]]
    /\ st.qu = [q |-> st.qu.q, begin |-> st.qu.begin, end |-> st.qu.end]
    /\ st.qu.q \in Seq(Site) /\ st.qu.begin = rest.begin /\ st.qu.end = Len(st.qu.q)
    /\ st.qu.end \in Nat /\ rest.end <= st.qu.end
    /\ \A x \in 1..rest.end : st.qu.q[x] = rest.q[x]
    /\ \A x \in New(st.qu, rest) : st.qu.q[x] \in far
    /\ \A q \in far : \E x \in New(st.qu, rest) : st.qu.q[x] = q
    /\ dmap[p] + 1 # max =>
         \A x, y \in New(st.qu, rest) : st.qu.q[x] = st.qu.q[y] => x = y

LEMMA GeoOneSound ==
    ASSUME MapsSound, NEW p \in Site, dmap[p] # max, NEW rest, Filled(rest),
           NEW m \in 1..Len(Nbh[p]), NEW st, GeoReached(st, p, FarUpTo(p, m - 1), rest)
    PROVE  GeoReached(GeoOne(p, m, st), p, FarUpTo(p, m), rest)
<1> DEFINE q == Nbh[p][m]
           F == FarUpTo(p, m - 1)
           R == GeoOne(p, m, st)
<1>1. q \in Site \cup {Outside} /\ Outside \notin Site
  BY RegionsAssumption DEF Site, Outside
<1>2. \A r : r \in FarUpTo(p, m) <=> r \in F \/ (r = q /\ r \in Site /\ dmap[r] = max)
  <2>1. Len(Nbh[p]) \in Nat
    BY RegionsAssumption
  <2>2. \A x : x \in 1..m <=> x \in 1..(m - 1) \/ x = m
    BY <2>1
  <2> QED BY <2>2 DEF FarUpTo
<1>3. \A r \in F : r \in Site /\ dmap[r] = max
  BY DEF FarUpTo
<1>4. dmap \in [Site -> 0..max] /\ max \in Nat /\ p \notin F
  BY <1>3 DEF MapsSound
<1>5. rest.end \in Nat /\ rest.begin \in Nat /\ rest.begin <= rest.end
  BY DEF Filled
<1> HIDE DEF F, q
<1>6. GeoReached(st, p, F, rest)
  BY DEF F
<1>7. CASE q # Outside /\ st.dmap[q] = max
  <2>1. q \in Site /\ dmap[q] = max /\ (dmap[p] + 1 # max => q \notin F)
    BY <1>1, <1>3, <1>4, <1>6, <1>7 DEF GeoReached
  <2>2. FarUpTo(p, m) = F \cup {q}
    BY <1>2, <2>1
  <2>3. /\ R.dmap = [st.dmap EXCEPT ![q] = dmap[p] + 1]
        /\ R.cp_ima = [st.cp_ima EXCEPT ![q] = st.cp_ima[p]]
        /\ R.qu = QueuePush(st.qu, q)
    BY <1>7 DEF GeoOne, q
  <2> HIDE DEF R
  <2>4. R.dmap = [r \in Site |-> IF r \in F \cup {q} THEN dmap[p] + 1 ELSE dmap[r]]
    <3>1. st.dmap = [r \in Site |-> IF r \in F THEN dmap[p] + 1 ELSE dmap[r]]
      BY <1>6 DEF GeoReached
    <3>2. R.dmap = [r \in Site |-> IF r = q THEN dmap[p] + 1 ELSE st.dmap[r]]
      BY <2>1, <2>3, <3>1
    <3> QED BY <3>1, <3>2
  <2>5. R.cp_ima = [r \in Site |-> IF r \in F \cup {q} THEN cp_ima[p] ELSE cp_ima[r]]
    <3>1. st.cp_ima[p] = cp_ima[p]
      BY <1>4, <1>6 DEF GeoReached
    <3>2. st.cp_ima = [r \in Site |-> IF r \in F THEN cp_ima[p] ELSE cp_ima[r]]
      BY <1>6 DEF GeoReached
    <3>3. R.cp_ima = [r \in Site |-> IF r = q THEN cp_ima[p] ELSE st.cp_ima[r]]
      BY <2>1, <2>3, <3>1, <3>2
    <3> QED BY <3>2, <3>3
  <2> DEFINE Q == st.qu
             z == R.qu.end
  <2>6. Q.q \in Seq(Site) /\ Q.begin \in Nat /\ Q.end = Len(Q.q) /\ Q.begin <= Q.end
        /\ Q.end \in Nat /\ rest.end <= Q.end /\ Q.begin = rest.begin
    BY <1>5, <1>6 DEF GeoReached
  <2>7. /\ R.qu = [q |-> R.qu.q, begin |-> R.qu.begin, end |-> R.qu.end]
        /\ R.qu.q \in Seq(Site) /\ R.qu.begin = Q.begin /\ R.qu.end = Len(R.qu.q)
        /\ z = Q.end + 1 /\ R.qu.end \in Nat
        /\ R.qu.q[z] = q
        /\ \A x \in 1..Q.end : R.qu.q[x] = Q.q[x] /\ x # z
    <3>1. Filled(Q)
      BY <1>6, <2>6 DEF GeoReached, Filled
    <3>2. R.qu = QueuePush(Q, q)
      BY <2>3
    <3> HIDE DEF Q
    <3> QED BY <2>1, <3>1, <3>2, GeoPush
  <2> HIDE DEF z, Q
  <2>8. \A x : x \in New(R.qu, rest) <=> x \in New(Q, rest) \/ x = z
    BY <1>5, <2>6, <2>7 DEF New, z
  <2>9. \A x \in New(Q, rest) : R.qu.q[x] = Q.q[x] /\ x # z /\ Q.q[x] \in F
    <3>1. \A x \in New(Q, rest) : x \in 1..Q.end
      BY <1>5, <2>6 DEF New
    <3> QED BY <1>6, <2>7, <3>1 DEF GeoReached, Q
  <2>10. \A x \in 1..rest.end : R.qu.q[x] = rest.q[x]
    <3>1. \A x \in 1..rest.end : x \in 1..Q.end
      BY <1>5, <2>6
    <3> QED BY <1>6, <2>7, <3>1 DEF GeoReached, Q
  <2>11. \A x \in New(R.qu, rest) : R.qu.q[x] \in F \cup {q}
    BY <2>7, <2>8, <2>9
  <2>12. \A r \in F \cup {q} : \E x \in New(R.qu, rest) : R.qu.q[x] = r
    <3>1. \A r \in F : \E x \in New(Q, rest) : Q.q[x] = r
      BY <1>6 DEF GeoReached, Q
    <3> QED BY <2>7, <2>8, <2>9, <3>1
  <2>13. ASSUME dmap[p] + 1 # max, NEW x \in New(R.qu, rest), NEW y \in New(R.qu, rest),
                R.qu.q[x] = R.qu.q[y]
         PROVE  x = y
    <3>1. \A a, b \in New(Q, rest) : Q.q[a] = Q.q[b] => a = b
      BY <1>6, <2>13 DEF GeoReached, Q
    <3>2. q \notin F
      BY <2>1, <2>13
    <3> QED BY <2>7, <2>8, <2>9, <2>13, <3>1, <3>2
  <2>14. rest.end <= z /\ R.qu.begin = rest.begin
    BY <1>5, <2>6, <2>7
  <2>15. GeoReached(R, p, F \cup {q}, rest)
    BY <2>4, <2>5, <2>7, <2>10, <2>11, <2>12, <2>13, <2>14 DEF GeoReached, z
  <2> QED BY <2>2, <2>15 DEF R
<1>8. CASE ~ (q # Outside /\ st.dmap[q] = max)
  <2>1. R = st
    BY <1>8 DEF GeoOne, q
  <2>2. q \in Site /\ dmap[q] = max => q \in F
    BY <1>1, <1>6, <1>8 DEF GeoReached
  <2>3. FarUpTo(p, m) = F
    <3>1. \A r : r \in FarUpTo(p, m) <=> r \in F
      BY <1>2, <2>2
    <3> QED BY <3>1
  <2> QED BY <1>6, <2>1, <2>3
<1> QED BY <1>7, <1>8

LEMMA GeoReachSound ==
    ASSUME MapsSound, NEW p \in Site, dmap[p] # max, NEW rest, Filled(rest)
    PROVE  GeoReached(G!ReachUpTo(p, Len(Nbh[p]), rest), p, {q \in Neighbours[p] : dmap[q] = max}, rest)
<1> DEFINE n == Len(Nbh[p])
           after == CHOOSE g : GeoLoop(g, p, n, rest)
           Base == [dmap |-> dmap, cp_ima |-> cp_ima, qu |-> rest]
<1>1. n \in Nat
  BY RegionsAssumption
<1>2. GeoLoop(after, p, n, rest)
  BY <1>1, GeoLoopExists
<1>3. G!ReachUpTo(p, n, rest) = after[n]
  BY ZenonT(60), GeodesicShare DEF G!ReachUpTo, GeoLoop, GeoOne, G!process
<1> HIDE DEF after
<1>4. \A j \in 0..n : after[j] = IF j = 0 THEN Base ELSE GeoOne(p, j, after[j - 1])
  BY <1>2 DEF GeoLoop
<1> DEFINE Bad == {j \in 0..n : ~ GeoReached(after[j], p, FarUpTo(p, j), rest)}
<1>5. ASSUME Bad # {} PROVE FALSE
  <2>1. PICK m \in Bad : \A j \in Bad : m <= j
    <3>1. Bad \in SUBSET Nat
      BY <1>1
    <3> HIDE DEF Bad
    <3> QED BY <1>5, <3>1, LeastNat
  <2>2. m # 0
    <3>1. FarUpTo(p, 0) = {} /\ after[0] = Base
      BY <1>1, <1>4 DEF FarUpTo
    <3>2. GeoReached(Base, p, {}, rest)
      <4>1. New(rest, rest) = {}
        BY DEF New, Filled
      <4>2. dmap = [q \in Site |-> dmap[q]] /\ cp_ima = [q \in Site |-> cp_ima[q]]
        BY DEF MapsSound
      <4>3. rest.end \in Nat /\ rest.end <= rest.end
        BY DEF Filled
      <4> QED BY <4>1, <4>2, <4>3 DEF GeoReached, Filled
    <3> QED BY <3>1, <3>2
  <2>3. m \in 1..n /\ m - 1 \in 0..n /\ m - 1 \notin Bad
    BY <1>1, <2>1, <2>2
  <2>4. GeoReached(after[m - 1], p, FarUpTo(p, m - 1), rest)
    BY <2>3
  <2>5. GeoReached(GeoOne(p, m, after[m - 1]), p, FarUpTo(p, m), rest)
    BY <2>3, <2>4, GeoOneSound
  <2> QED BY <1>4, <2>1, <2>3, <2>5
<1>6. GeoReached(after[n], p, FarUpTo(p, n), rest)
  BY <1>1, <1>5
<1>7. FarUpTo(p, n) = {q \in Neighbours[p] : dmap[q] = max}
  <2>1. DOMAIN Nbh[p] = 1..n
    BY RegionsAssumption
  <2> QED BY <2>1 DEF FarUpTo, Neighbours
<1> QED BY <1>3, <1>6, <1>7

LEMMA GeoPropagateStep ==
    ASSUME GeoInv, G!Propagate
    PROVE  GeoInv'
<1> DEFINE p == QueueFront(qu)
           a == qu.begin + 1
           v == dmap[p]
           rest == QueuePop(qu)
           far == {q \in Neighbours[p] : dmap[q] = max}
           st == G!ReachUpTo(p, Len(Nbh[p]), rest)
<1>1. /\ pc = "propagate" /\ ~ QueueIsEmpty(qu) /\ v # max
      /\ dmap' = st.dmap /\ cp_ima' = st.cp_ima /\ qu' = st.qu
      /\ UNCHANGED <<input, max, pc, i>>
  BY GeodesicShare DEF G!Propagate
<1>2. GeoTypes /\ GeoParents /\ GeoWave /\ MapsSound /\ Filled(qu)
  BY <1>1 DEF GeoInv, GeoTypes, Filled
<1>3. /\ qu.begin \in Nat /\ qu.end \in Nat /\ qu.begin < qu.end /\ qu.end = Len(qu.q)
      /\ qu.q \in Seq(Site) /\ qu = [q |-> qu.q, begin |-> qu.begin, end |-> qu.end]
  BY <1>1, <1>2 DEF GeoTypes, QueueIsEmpty
<1>4. a \in Live(qu) /\ p = qu.q[a] /\ p \in Site /\ \A x \in Live(qu) : a <= x /\ x \in 1..qu.end
  <2>1. a \in Live(qu) /\ \A x \in Live(qu) : a <= x /\ x \in 1..qu.end
    BY <1>3 DEF Live
  <2>2. p = qu.q[a]
    BY <1>3 DEF QueueFront, QueueAt
  <2> QED BY <1>3, <2>1, <2>2
<1>5. rest = [q |-> qu.q, begin |-> a, end |-> qu.end] /\ Filled(rest)
  <2>1. rest = [q |-> qu.q, begin |-> a, end |-> qu.end]
    BY <1>3 DEF QueuePop
  <2> QED BY <1>3, <2>1 DEF Filled
<1>6. GeoReached(st, p, far, rest)
  BY <1>1, <1>2, <1>4, <1>5, GeoReachSound
<1> DEFINE fresh == New(qu', rest)
<1>7. /\ dmap' = [q \in Site |-> IF q \in far THEN v + 1 ELSE dmap[q]]
      /\ cp_ima' = [q \in Site |-> IF q \in far THEN cp_ima[p] ELSE cp_ima[q]]
  BY <1>1, <1>6 DEF GeoReached
<1>8. /\ qu' = [q |-> qu'.q, begin |-> qu'.begin, end |-> qu'.end]
      /\ qu'.q \in Seq(Site) /\ qu'.begin = a /\ qu'.end = Len(qu'.q)
      /\ qu'.end \in Nat /\ qu.end <= qu'.end
      /\ \A x \in 1..qu.end : qu'.q[x] = qu.q[x]
      /\ \A x \in fresh : qu'.q[x] \in far
      /\ \A q \in far : \E x \in fresh : qu'.q[x] = q
      /\ v + 1 # max => \A x, y \in fresh : qu'.q[x] = qu'.q[y] => x = y
  <2>1. /\ qu' = st.qu /\ rest.begin = a /\ rest.end = qu.end /\ rest.q = qu.q
        /\ GeoReached(st, p, far, rest) /\ v = dmap[p]
    BY <1>1, <1>5, <1>6
  <2>2. GeoReached(st, p, far, rest) => 
          /\ st.qu = [q |-> st.qu.q, begin |-> st.qu.begin, end |-> st.qu.end]
          /\ st.qu.q \in Seq(Site) /\ st.qu.begin = rest.begin /\ st.qu.end = Len(st.qu.q)
          /\ st.qu.end \in Nat /\ rest.end <= st.qu.end
          /\ \A x \in 1..rest.end : st.qu.q[x] = rest.q[x]
          /\ \A x \in New(st.qu, rest) : st.qu.q[x] \in far
          /\ \A q \in far : \E x \in New(st.qu, rest) : st.qu.q[x] = q
          /\ dmap[p] + 1 # max =>
               \A x, y \in New(st.qu, rest) : st.qu.q[x] = st.qu.q[y] => x = y
    <3> HIDE DEF st, rest, far, p
    <3> QED BY DEF GeoReached
  <2> HIDE DEF st, rest, far, p, a, v
  <2> QED BY <2>1, <2>2
<1>9. \A x : x \in Live(qu') <=> (x \in Live(qu) /\ x # a) \/ x \in fresh
  BY <1>3, <1>5, <1>8 DEF Live, New
<1>10. \A x \in Live(qu), y \in fresh : x < y
  BY <1>3, <1>5, <1>8 DEF Live, New
<1>11. \A x \in Live(qu) : qu'.q[x] = qu.q[x] /\ qu.q[x] \in Site /\ x \in Int
  BY <1>3, <1>4, <1>8
<1>12. \A q \in far : q \in Site /\ dmap[q] = max /\ p \in Neighbours[q]
  BY <1>4, NeighboursSymmetric
<1>13. Live(qu)' = Live(qu') /\ SitesIn(qu)' = SitesIn(qu')
  BY DEF Live, SitesIn
<1> HIDE DEF p, a, rest, far, st, fresh
<1>14. /\ max \in Nat /\ v \in Nat /\ v < max /\ v + 1 <= max /\ max > 0
       /\ dmap \in [Site -> 0..max] /\ cp_ima \in [Site -> Sources \cup {Outside}]
       /\ \A q \in Site : dmap[q] \in Nat /\ dmap[q] <= max
  BY <1>1, <1>2, <1>4 DEF MapsSound
<1>15. cp_ima[p] # Outside
  BY <1>1, <1>2, <1>4, <1>14 DEF GeoParents
<1> DEFINE u == v + 1
<1>16. \A q \in Site : IF q \in far THEN dmap'[q] = u /\ cp_ima'[q] = cp_ima[p]
                                   ELSE dmap'[q] = dmap[q] /\ cp_ima'[q] = cp_ima[q]
  BY <1>7
<1>17. u \in Nat /\ v < u /\ u <= max /\ v <= u
  BY <1>14
<1>18. \A x \in Live(qu) : v <= dmap[qu.q[x]] /\ dmap[qu.q[x]] <= u
  BY <1>1, <1>2, <1>4 DEF GeoWave
<1>19. \A q \in Site : dmap[q] < max => dmap[q] <= u
  BY <1>1, <1>2, <1>4 DEF GeoWave
<1> HIDE DEF u, v
<1>20. \A x \in Live(qu) : dmap'[qu.q[x]] = dmap[qu.q[x]]
  <2>1. ASSUME NEW x \in Live(qu), qu.q[x] \in far PROVE dmap[qu.q[x]] = u
    <3>1. dmap[qu.q[x]] = max /\ dmap[qu.q[x]] <= u
      BY <1>12, <1>18, <2>1
    <3> QED BY <1>14, <1>17, <3>1
  <2> QED BY <1>11, <1>16, <2>1
<1>21. \A q \in Site : dmap[q] < max => q \notin far
  BY <1>12, <1>14
<1>22. \A q \in Site : dmap'[q] <= dmap[q] /\ (cp_ima[q] # Outside => cp_ima'[q] # Outside)
  BY <1>12, <1>14, <1>15, <1>16, <1>17
<1>23. p \notin far /\ dmap'[p] = v /\ cp_ima'[p] = cp_ima[p]
  BY <1>4, <1>14, <1>16, <1>21 DEF v
<1>24. GeoTypes'
  <2>1. dmap' \in [Site -> 0..max]
    <3>1. u \in 0..max
      BY <1>14, <1>17
    <3> QED BY <1>7, <1>14, <3>1 DEF u
  <2>2. cp_ima' \in [Site -> Sources \cup {Outside}]
    BY <1>4, <1>7, <1>14
  <2>3. MapsSound'
    BY <1>1, <1>2, <2>1, <2>2 DEF MapsSound, Sources
  <2>4. qu'.begin \in Nat /\ qu'.begin <= qu'.end /\ qu'.end <= Len(qu'.q)
    BY <1>3, <1>8 DEF a
  <2> QED BY <1>1, <1>2, <1>8, <2>3, <2>4 DEF GeoTypes
<1>25. GeoStart'
  BY <1>1 DEF GeoStart
<1>26. GeoParents'
  <2>1. ASSUME NEW q \in Site, input[q] PROVE dmap'[q] = 0 /\ cp_ima'[q] = q
    <3>1. dmap[q] = 0 /\ cp_ima[q] = q
      BY <1>1, <1>2, <2>1 DEF GeoParents
    <3> QED BY <1>14, <1>16, <1>21, <3>1
  <2>2. ASSUME NEW q \in Site, cp_ima'[q] = Outside PROVE dmap'[q] = max
    <3>1. q \notin far /\ cp_ima[q] = Outside
      BY <1>15, <1>16, <2>2
    <3> QED BY <1>1, <1>2, <1>16, <3>1 DEF GeoParents
  <2>3. ASSUME NEW q \in Site, ~ input[q], cp_ima'[q] # Outside
        PROVE  \E r \in Neighbours[q] : dmap'[r] < max /\ dmap'[r] + 1 = dmap'[q] /\ cp_ima'[q] = cp_ima'[r]
    <3>1. CASE q \in far
      <4>1. p \in Neighbours[q] /\ dmap'[p] = v /\ v < max /\ v + 1 = dmap'[q] /\ cp_ima'[q] = cp_ima'[p]
        BY <1>12, <1>14, <1>16, <1>23, <3>1 DEF u
      <4> QED BY <4>1
    <3>2. CASE q \notin far
      <4>1. cp_ima[q] # Outside /\ dmap'[q] = dmap[q] /\ cp_ima'[q] = cp_ima[q]
        BY <1>16, <2>3, <3>2
      <4>2. PICK r \in Neighbours[q] : dmap[r] < max /\ dmap[r] + 1 = dmap[q] /\ cp_ima[q] = cp_ima[r]
        BY <1>1, <1>2, <2>3, <4>1 DEF GeoParents
      <4>3. r \in Site
        BY DEF Neighbours
      <4>4. dmap'[r] = dmap[r] /\ cp_ima'[r] = cp_ima[r]
        BY <1>16, <1>21, <4>2, <4>3
      <4> QED BY <4>1, <4>2, <4>4
    <3> QED BY <3>1, <3>2
  <2> QED BY <1>1, <2>1, <2>2, <2>3 DEF GeoParents
<1>27. GeoWave'
  <2>1. \A x \in Live(qu') : /\ x \in fresh => qu'.q[x] \in far /\ dmap'[qu'.q[x]] = u
                             /\ x \notin fresh => /\ x \in Live(qu) /\ qu'.q[x] = qu.q[x]
                                                 /\ dmap'[qu'.q[x]] = dmap[qu.q[x]]
    BY <1>8, <1>9, <1>11, <1>12, <1>16, <1>20
  <2>2. \A x \in Live(qu') : v <= dmap'[qu'.q[x]] /\ dmap'[qu'.q[x]] <= u
    BY <1>17, <1>18, <2>1
  <2>3. \A x \in Live(qu') : u <= dmap'[qu'.q[x]] + 1
    <3>1. \A x \in Live(qu') : dmap'[qu'.q[x]] \in Nat
      BY <1>11, <1>14, <1>17, <2>1
    <3> QED BY <1>14, <2>2, <3>1 DEF u
  <2>4. ASSUME NEW x \in Live(qu'), NEW y \in Live(qu'), x <= y
        PROVE  /\ dmap'[qu'.q[x]] <= dmap'[qu'.q[y]] /\ dmap'[qu'.q[y]] <= dmap'[qu'.q[x]] + 1
               /\ qu'.q[x] = qu'.q[y] => x = y \/ dmap'[qu'.q[x]] = max
    <3>1. CASE y \in fresh
      <4>1. dmap'[qu'.q[y]] = u /\ qu'.q[y] \in far
        BY <2>1, <3>1
      <4>2. ASSUME qu'.q[x] = qu'.q[y], x # y PROVE dmap'[qu'.q[x]] = max
        <5>1. CASE x \in fresh
          BY <1>8, <3>1, <4>1, <4>2, <5>1 DEF u
        <5>2. CASE x \notin fresh
          BY <1>12, <2>1, <4>1, <4>2, <5>2
        <5> QED BY <5>1, <5>2
      <4> QED BY <2>2, <2>3, <4>1, <4>2
    <3>2. CASE y \notin fresh
      <4>1. y \in Live(qu) /\ x \notin fresh
        <5>1. y \in Live(qu)
          BY <2>1, <3>2
        <5>2. ASSUME x \in fresh PROVE FALSE
          <6>1. y < x
            BY <1>10, <5>1, <5>2
          <6>2. x \in Int /\ y \in Int
            BY <1>11, <5>1, <5>2, <1>3, <1>5, <1>8 DEF fresh, New
          <6> QED BY <2>4, <6>1, <6>2
        <5> QED BY <5>1, <5>2
      <4>2. x \in Live(qu)
        BY <2>1, <4>1
      <4>3. /\ dmap[qu.q[x]] <= dmap[qu.q[y]] /\ dmap[qu.q[y]] <= dmap[qu.q[x]] + 1
            /\ qu.q[x] = qu.q[y] => x = y \/ dmap[qu.q[x]] = max
        BY <1>1, <1>2, <2>4, <4>1, <4>2 DEF GeoWave
      <4> QED BY <2>1, <3>2, <4>1, <4>3
    <3> QED BY <3>1, <3>2
  <2>5. ASSUME NEW x \in Live(qu'), NEW q \in Site, dmap'[q] < max
        PROVE  dmap'[q] <= dmap'[qu'.q[x]] + 1
    <3>1. dmap'[q] <= u
      <4>1. CASE q \in far
        BY <1>16, <1>17, <4>1
      <4>2. CASE q \notin far
        BY <1>16, <1>19, <2>5, <4>2
      <4> QED BY <4>1, <4>2
    <3>2. dmap'[q] \in Nat /\ u \in Nat /\ dmap'[qu'.q[x]] \in Nat
      BY <1>11, <1>14, <1>16, <1>17, <2>1
    <3> QED BY <2>3, <3>1, <3>2
  <2>6. ASSUME NEW q \in Site, dmap'[q] < max PROVE q \in SitesIn(qu') \/ Spread(q)'
    <3>1. CASE q \in far
      <4>1. PICK x \in fresh : qu'.q[x] = q
        BY <1>8, <3>1
      <4>2. x \in Live(qu')
        BY <1>9
      <4> QED BY <4>1, <4>2 DEF SitesIn
    <3>2. CASE q = p
      <4>1. ASSUME NEW r \in Neighbours[p] PROVE cp_ima'[r] # Outside /\ dmap'[r] <= u
        <5>1. r \in Site
          BY <1>4 DEF Neighbours
        <5>2. CASE r \in far
          BY <1>15, <1>16, <1>17, <5>1, <5>2
        <5>3. CASE r \notin far
          <6>1. dmap[r] < max
            BY <1>14, <5>1, <5>3 DEF far
          <6>2. cp_ima[r] # Outside
            BY <1>1, <1>2, <1>14, <5>1, <6>1 DEF GeoParents
          <6> QED BY <1>16, <1>19, <5>1, <5>3, <6>1, <6>2
        <5> QED BY <5>2, <5>3
      <4> QED BY <1>23, <3>2, <4>1 DEF Spread, u
    <3>3. CASE q \notin far /\ q # p
      <4>1. dmap'[q] = dmap[q]
        BY <1>16, <3>3
      <4>2. CASE q \in SitesIn(qu)
        <5>1. PICK x \in Live(qu) : q = qu.q[x]
          BY <4>2 DEF SitesIn
        <5>2. x \in Live(qu') /\ qu'.q[x] = q
          BY <1>4, <1>9, <1>11, <3>3, <5>1
        <5> QED BY <5>2 DEF SitesIn
      <4>3. CASE Spread(q)
        <5>1. ASSUME NEW r \in Neighbours[q]
              PROVE  cp_ima'[r] # Outside /\ dmap'[r] <= dmap[q] + 1
          <6>1. r \in Site /\ cp_ima[r] # Outside /\ dmap[r] <= dmap[q] + 1
            BY <4>3 DEF Spread, Neighbours
          <6>2. dmap'[r] \in Nat
            BY <1>14, <1>16, <1>17, <6>1
          <6> QED BY <1>14, <1>22, <6>1, <6>2
        <5> QED BY <4>1, <5>1 DEF Spread
      <4> QED BY <1>1, <1>2, <2>6, <4>1, <4>2, <4>3 DEF GeoWave
    <3> QED BY <3>1, <3>2, <3>3
  <2> QED BY <1>1, <1>13, <2>4, <2>5, <2>6 DEF GeoWave
<1> QED BY <1>24, <1>25, <1>26, <1>27 DEF GeoInv

\* When the algorithm stops, every site below max has reached its neighbours.
LEMMA GeoStopStep ==
    ASSUME GeoInv, G!Saturate \/ G!Return
    PROVE  GeoInv'
<1>1. pc = "propagate" /\ pc' = "done" /\ UNCHANGED <<input, max, dmap, cp_ima, i>>
  BY DEF G!Saturate, G!Return
<1>2. GeoTypes /\ GeoParents /\ GeoWave /\ MapsSound /\ max \in Nat /\ dmap \in [Site -> 0..max]
  BY DEF GeoInv, GeoTypes, MapsSound
<1>3. /\ qu.begin \in Nat /\ qu.end \in Nat /\ qu.begin <= qu.end /\ qu.end = Len(qu.q)
      /\ qu.q \in Seq(Site) /\ qu = [q |-> qu.q, begin |-> qu.begin, end |-> qu.end]
  BY <1>1, <1>2 DEF GeoTypes
<1>4. MapsSound'
  BY <1>1, <1>2 DEF MapsSound, Sources
<1>5. GeoStart' /\ GeoParents'
  BY <1>1, <1>2 DEF GeoStart, GeoParents
<1>6. \A q : Spread(q)' <=> Spread(q)
  BY <1>1 DEF Spread
<1>7. ASSUME QueueIsEmpty(qu), qu' = qu PROVE GeoInv'
  <2>1. Live(qu) = {} /\ Live(qu)' = {}
    BY <1>3, <1>7 DEF Live, QueueIsEmpty
  <2>2. SitesIn(qu) = {}
    BY <2>1 DEF SitesIn
  <2>3. GeoWave'
    BY <1>1, <1>2, <1>6, <2>1, <2>2 DEF GeoWave
  <2>4. GeoTypes'
    BY <1>1, <1>2, <1>3, <1>4, <1>7 DEF GeoTypes
  <2> QED BY <1>5, <2>3, <2>4 DEF GeoInv
<1>8. ASSUME ~ QueueIsEmpty(qu), dmap[QueueFront(qu)] = max, qu' = QueueClear(QueuePop(qu))
      PROVE  GeoInv'
  <2> DEFINE a == qu.begin + 1
  <2>1. a \in Live(qu) /\ \A x \in Live(qu) : a <= x /\ x \in 1..qu.end
    BY <1>3, <1>8 DEF Live, QueueIsEmpty
  <2>2. dmap[qu.q[a]] = max
    BY <1>3, <1>8 DEF QueueFront, QueueAt
  <2>3. \A q \in SitesIn(qu) : ~ (dmap[q] < max)
    <3>1. ASSUME NEW x \in Live(qu) PROVE ~ (dmap[qu.q[x]] < max)
      <4>1. dmap[qu.q[a]] <= dmap[qu.q[x]]
        BY <1>1, <1>2, <2>1 DEF GeoWave
      <4>2. qu.q[x] \in Site
        BY <1>3, <2>1
      <4> QED BY <1>2, <2>2, <4>1, <4>2
    <3> QED BY <3>1 DEF SitesIn
  <2>4. qu' = [q |-> qu.q, begin |-> a, end |-> a] /\ a \in Nat /\ a <= Len(qu.q)
    <3>1. QueuePop(qu) = [q |-> qu.q, begin |-> a, end |-> qu.end]
      BY <1>3 DEF QueuePop
    <3> QED BY <1>3, <1>8, <2>1, <3>1 DEF QueueClear
  <2>5. Live(qu)' = {}
    BY <2>4 DEF Live
  <2>6. GeoWave'
    BY <1>1, <1>2, <1>6, <2>3, <2>5 DEF GeoWave
  <2>7. GeoTypes'
    <3> HIDE DEF a
    <3> QED BY <1>1, <1>2, <1>3, <1>4, <2>4 DEF GeoTypes
  <2> QED BY <1>5, <2>6, <2>7 DEF GeoInv
<1>9. CASE G!Return
  BY <1>7, <1>9, GeodesicShare DEF G!Return
<1>10. CASE G!Saturate
  BY <1>8, <1>10, GeodesicShare DEF G!Saturate
<1> QED BY <1>9, <1>10

LEMMA GeoStep == GeoInv /\ [G!Next]_G!vars => GeoInv'
<1> SUFFICES ASSUME GeoInv, [G!Next]_G!vars PROVE GeoInv'
  OBVIOUS
<1>1. CASE UNCHANGED G!vars
  <2>1. UNCHANGED <<input, max, dmap, cp_ima, qu, pc, i>>
    BY <1>1 DEF G!vars
  <2>2. GeoTypes'
    BY <2>1 DEF GeoInv, GeoTypes, MapsSound, Sources
  <2>3. /\ Live(qu)' = Live(qu) /\ SitesIn(qu)' = SitesIn(qu)
        /\ \A q : (Spread(q)' <=> Spread(q)) /\ (G!InQueue(q)' <=> G!InQueue(q))
    BY <2>1 DEF Live, SitesIn, Spread, G!InQueue
  <2>4. GeoStart' /\ GeoParents' /\ GeoWave'
    BY <2>1, <2>3 DEF GeoInv, GeoStart, GeoParents, GeoWave
  <2> QED BY <2>2, <2>4 DEF GeoInv
<1>2. CASE G!Next
  BY <1>2, GeoInitStep, GeoPropagateStep, GeoStopStep DEF G!Next
<1> QED BY <1>1, <1>2

\* The maps and the queue of the geodesic distance have their types.
LEMMA GeoTyped == GeoInv => G!TypeOK
BY GeodesicShare DEF GeoInv, GeoTypes, MapsSound, Sources, G!TypeOK, G!MapsTypeOK

\* The queue of the geodesic distance serves by distances.
LEMMA GeoWaits == GeoInv => G!QueueIsWave
<1> SUFFICES ASSUME GeoInv, pc = "propagate" PROVE G!QueueIsWave
  BY DEF G!QueueIsWave
<1> DEFINE s == QueueSites(qu)
           b == qu.begin
<1>1. GeoTypes /\ GeoParents /\ GeoWave /\ MapsSound
  BY DEF GeoInv, GeoTypes
<1>2. /\ qu.q \in Seq(Site) /\ b \in Nat /\ qu.end \in Nat /\ b <= qu.end /\ qu.end = Len(qu.q)
  BY <1>1 DEF GeoTypes
<1>3. Len(s) = qu.end - b /\ DOMAIN s = 1..Len(s) /\ Len(s) \in Nat
      /\ \A j \in 1..Len(s) : s[j] = qu.q[b + j] /\ b + j \in Live(qu)
  <2>1. QueueNsites(qu) = qu.end - b /\ qu.end - b \in Nat
    BY <1>2 DEF QueueNsites
  <2>2. s = [j \in 1..(qu.end - b) |-> qu.q[b + (j - 1) + 1]]
    BY <2>1 DEF QueueSites, QueueAt
  <2> HIDE DEF s, b
  <2>3. Len(s) = qu.end - b /\ DOMAIN s = 1..(qu.end - b)
    BY <2>1, <2>2
  <2>4. ASSUME NEW j \in 1..(qu.end - b) PROVE s[j] = qu.q[b + j] /\ b + j \in (b + 1)..qu.end
    <3>1. b + (j - 1) + 1 = b + j
      BY <1>2
    <3> QED BY <1>2, <2>2, <3>1
  <2> QED BY <2>1, <2>3, <2>4 DEF Live, b
<1>4. \A j \in DOMAIN s : j \in Nat
  BY <1>3
<1> HIDE DEF s, b
<1>5. ASSUME NEW j \in DOMAIN s, NEW l \in j..Len(s)
      PROVE  /\ dmap[s[j]] <= dmap[s[l]] /\ dmap[s[l]] <= dmap[s[j]] + 1
             /\ s[j] = s[l] => j = l \/ dmap[s[j]] = max
  <2>1. j \in 1..Len(s) /\ l \in 1..Len(s) /\ b + j <= b + l /\ (b + j = b + l => j = l)
    BY <1>2, <1>3
  <2>2. \A x, y \in Live(qu) : x <= y =>
            /\ dmap[qu.q[x]] <= dmap[qu.q[y]] /\ dmap[qu.q[y]] <= dmap[qu.q[x]] + 1
            /\ qu.q[x] = qu.q[y] => x = y \/ dmap[qu.q[x]] = max
    BY <1>1 DEF GeoWave
  <2> QED BY <1>3, <2>1, <2>2
<1>6. ASSUME NEW p \in Site, dmap[p] < max, NEW n \in Neighbours[p], cp_ima[n] = Outside
      PROVE  p \in {s[j] : j \in 1..QueueNsites(qu)}
  <2>1. ~ Spread(p)
    BY <1>6 DEF Spread
  <2>2. PICK x \in Live(qu) : p = qu.q[x]
    BY <1>1, <1>6, <2>1 DEF GeoWave, SitesIn
  <2>3. QueueNsites(qu) = Len(s)
    BY <1>3 DEF QueueNsites, b
  <2>4. x - b \in 1..Len(s) /\ b + (x - b) = x
    BY <1>2, <1>3 DEF Live, b
  <2> QED BY <1>3, <2>2, <2>3, <2>4
<1> QED BY <1>5, <1>6, GeodesicShare DEF G!QueueIsWave, G!Waiting, s

LEMMA EdgesOfGrid ==
    ASSUME NEW q \in Site
    PROVE  {dmap[e.from] + e.w : e \in {f \in G!Edges : f.to = q}} = {dmap[r] + 1 : r \in Neighbours[q]}
<1> DEFINE Into == {f \in G!Edges : f.to = q}
           Sums == {dmap[e.from] + e.w : e \in Into}
           Here == {dmap[r] + 1 : r \in Neighbours[q]}
<1>1. ASSUME NEW e \in Into PROVE e.w = 1 /\ e.from \in Neighbours[q]
  <2>1. e.from \in Site /\ e.to = q /\ e.w = 1 /\ e.to \in Neighbours[e.from]
    BY GeodesicShare DEF G!Edges
  <2> QED BY <2>1, NeighboursSymmetric
<1>2. ASSUME NEW r \in Neighbours[q] PROVE \E e \in Into : e.from = r /\ e.w = 1
  <2>1. r \in Site /\ q \in Neighbours[r]
    BY NeighboursSymmetric DEF Neighbours
  <2>2. [from |-> r, to |-> q, w |-> 1] \in Into
    BY <2>1, GeodesicShare DEF G!Edges
  <2> HIDE DEF Into
  <2> QED BY <2>2
<1> HIDE DEF Into
<1>3. \A x : x \in Sums <=> x \in Here
  <2>1. ASSUME NEW x \in Sums PROVE x \in Here
    BY <1>1
  <2>2. ASSUME NEW x \in Here PROVE x \in Sums
    <3>1. PICK r \in Neighbours[q] : x = dmap[r] + 1
      OBVIOUS
    <3>2. PICK e \in Into : e.from = r /\ e.w = 1
      BY <1>2
    <3> QED BY <3>1, <3>2
  <2> QED BY <2>1, <2>2
<1>4. Sums = Here
  BY <1>3
<1> QED BY <1>4 DEF Into

\* The geodesic distances are the shortest ones.
LEMMA GeoShortest == GeoInv => G!DistancesAreShortest
<1> SUFFICES ASSUME GeoInv, pc = "done" PROVE G!DistancesAreShortest
  BY DEF G!DistancesAreShortest
<1>1. GeoParents /\ GeoWave /\ MapsSound
  BY DEF GeoInv, GeoTypes
<1>2. max \in Nat /\ \A q \in Site : dmap[q] \in Nat /\ dmap[q] <= max
  BY <1>1 DEF MapsSound
<1>3. \A q \in Site : dmap[q] < max => Spread(q)
  <2>1. SitesIn(qu) = {}
    BY <1>1 DEF GeoWave, SitesIn
  <2> QED BY <1>1, <2>1 DEF GeoWave
<1>4. \A q \in Site : /\ input[q] => dmap[q] = 0 /\ cp_ima[q] = q
                      /\ cp_ima[q] = Outside => dmap[q] = max
                      /\ ~ input[q] /\ cp_ima[q] # Outside =>
                           \E r \in Neighbours[q] : dmap[r] < max /\ dmap[r] + 1 = dmap[q]
                                                    /\ cp_ima[q] = cp_ima[r]
  BY <1>1 DEF GeoParents
<1>5. ASSUME NEW q \in Site, NEW r \in Neighbours[q]
      PROVE  /\ r \in Site /\ dmap[q] <= dmap[r] + 1
             /\ dmap[r] < max => cp_ima[q] # Outside
  <2>1. r \in Site /\ q \in Neighbours[r]
    BY NeighboursSymmetric DEF Neighbours
  <2>2. CASE dmap[r] < max
    BY <1>3, <2>1, <2>2 DEF Spread
  <2>3. CASE ~ (dmap[r] < max)
    BY <1>2, <2>1, <2>3
  <2> QED BY <2>1, <2>2, <2>3
<1>6. ASSUME NEW q \in Site
      PROVE  IF input[q] THEN dmap[q] = 0
             ELSE /\ \A x \in {dmap[r] + 1 : r \in Neighbours[q]} : dmap[q] <= x
                  /\ dmap[q] \in {dmap[r] + 1 : r \in Neighbours[q]} \cup {max} /\ dmap[q] <= max
  <2>1. dmap[q] \in {dmap[r] + 1 : r \in Neighbours[q]} \cup {max} \/ input[q]
    BY <1>4
  <2> QED BY <1>2, <1>4, <1>5, <2>1
<1>7. G!IsShortest(G!Edges)
  BY <1>6, EdgesOfGrid, GeodesicShare DEF G!IsShortest
<1>8. ASSUME NEW q \in Site, ~ input[q], dmap[q] < max
      PROVE  \E e \in G!Edges : e.to = q /\ dmap[e.from] + e.w = dmap[q] /\ cp_ima[q] = cp_ima[e.from]
  <2>1. cp_ima[q] # Outside
    BY <1>2, <1>4, <1>8
  <2>2. PICK r \in Neighbours[q] : dmap[r] + 1 = dmap[q] /\ cp_ima[q] = cp_ima[r]
    BY <1>4, <1>8, <2>1
  <2>3. r \in Site /\ q \in Neighbours[r]
    BY NeighboursSymmetric DEF Neighbours
  <2>4. [from |-> r, to |-> q, w |-> 1] \in G!Edges
    BY <2>3, GeodesicShare DEF G!Edges
  <2> QED BY <2>2, <2>4
<1>9. G!IsClosest(G!Edges)
  BY <1>4, <1>8, GeodesicShare DEF G!IsClosest
<1>10. ASSUME NEW q \in Site, ~ input[q], dmap[q] = max
       PROVE  cp_ima[q] # Outside <=> \E r \in Neighbours[q] : dmap[r] + 1 = max
  <2>1. ASSUME NEW r \in Neighbours[q], dmap[r] + 1 = max PROVE cp_ima[q] # Outside
    <3>1. r \in Site /\ dmap[r] < max
      BY <1>2, <1>5, <2>1
    <3> QED BY <1>5, <3>1
  <2> QED BY <1>4, <1>10, <2>1
<1> QED BY <1>7, <1>9, <1>10, GeodesicShare DEF G!DistancesAreShortest

-----------------------------------------------------------------------------
(* The distance by thick front.                                             *)

LEMMA FrontShare ==
    /\ D!Site = Site /\ D!Outside = Outside /\ D!Neighbours = Neighbours
BY DEF D!Site, Site, D!Outside, Outside, D!Neighbours, Neighbours

LEMMA Division ==
    ASSUME NEW a \in Nat, NEW m \in Nat \ {0}
    PROVE  a % m \in 0..(m - 1) /\ a = m * (a \div m) + (a % m) /\ (a \div m) \in Nat
BY SMT

LEMMA NoMultiple == ASSUME NEW u \in Int, NEW m \in Nat \ {0}, u * m < m, u * m > -m PROVE u = 0
BY SMT

\* Two distances of one bucket are the same if they are close.
LEMMA SameBucket ==
    ASSUME NEW a \in Nat, NEW b \in Nat, NEW m \in Nat \ {0}, a % m = b % m, a - b < m, b - a < m
    PROVE  a = b
<1>1. /\ a = m * (a \div m) + (a % m) /\ b = m * (b \div m) + (b % m)
      /\ (a \div m) \in Int /\ (b \div m) \in Int /\ (a % m) \in Int
  BY Division
<1>2. PICK x \in Int, y \in Int, z \in Int : a = m * x + z /\ b = m * y + z
  BY <1>1
<1>3. a - b = (x - y) * m /\ b - a = 0 - ((x - y) * m) /\ x - y \in Int
  BY <1>2
<1>4. x - y = 0
  BY <1>3, NoMultiple
<1> QED BY <1>2, <1>4

\* Every bucket serves a distance of the window from c on.
LEMMA BucketServes ==
    ASSUME NEW c \in Nat, NEW m \in Nat \ {0}, NEW b \in 0..(m - 1)
    PROVE  \E x \in c..(c + m - 1) : x % m = b
<1> DEFINE u == c \div m
           r == c % m
           x == IF r <= b THEN m * u + b ELSE m * (u + 1) + b
<1>1. r \in 0..(m - 1) /\ c = m * u + r /\ u \in Nat
  BY Division
<1> HIDE DEF u, r
<1>2. m * u \in Nat /\ m * (u + 1) = m * u + m
  BY <1>1
<1>3. x \in c..(c + m - 1) /\ x \in Nat
  BY <1>1, <1>2
<1>4. PICK z \in Nat : x = m * z + b
  BY <1>1
<1>5. x = m * (x \div m) + (x % m) /\ (x \div m) \in Nat /\ x % m \in 0..(m - 1)
  BY <1>3, Division
<1> DEFINE y == x \div m
           t == x % m
<1> HIDE DEF x, y, t
<1>6. x = m * y + t /\ y \in Nat /\ t \in 0..(m - 1)
  BY <1>5 DEF y, t
<1>7. (z - y) * m = t - b /\ z - y \in Int
  BY <1>4, <1>6
<1>8. z - y = 0
  BY <1>6, <1>7, NoMultiple
<1> QED BY <1>3, <1>4, <1>6, <1>8 DEF t

LEMMA NextInBucket ==
    ASSUME NEW c \in Nat, NEW m \in Nat \ {0}
    PROVE  (c + m) % m = c % m
<1> DEFINE b == c % m
<1>1. b \in 0..(m - 1) /\ c + m \in Nat /\ c + 1 \in Nat
  BY Division
<1>2. PICK x \in (c + 1)..((c + 1) + m - 1) : x % m = b
  <2> HIDE DEF b
  <2> QED BY <1>1, BucketServes
<1>3. x \in Nat /\ x % m = c % m /\ c - x < m /\ x # c /\ (x - c < m \/ x = c + m)
  BY <1>1, <1>2
<1>4. ~ (x - c < m)
  BY <1>3, SameBucket
<1> QED BY <1>2, <1>3, <1>4

\* The greatest weight, by the least number of first weights without one.
LEMMA GreatestWeight ==
    ASSUME NEW w \in Seq(Nat \ {0}), w # <<>>
    PROVE  \E x \in {w[j] : j \in DOMAIN w} : \A y \in {w[j] : j \in DOMAIN w} : y <= x
<1> DEFINE n == Len(w)
           Great(m, x) == \A j \in 1..m : w[j] <= w[x]
           Bad == {m \in 1..n : ~ \E x \in 1..m : Great(m, x)}
<1>1. n \in Nat /\ n # 0 /\ DOMAIN w = 1..n /\ \A j \in 1..n : w[j] \in Nat
  OBVIOUS
<1> HIDE DEF n
<1>2. ASSUME Bad # {} PROVE FALSE
  <2>1. PICK m \in Bad : \A j \in Bad : m <= j
    <3>1. Bad \in SUBSET Nat
      BY <1>1
    <3> HIDE DEF Bad
    <3> QED BY <1>2, <3>1, LeastNat
  <2>2. m # 1
    <3>1. 1 \in 1..1 /\ Great(1, 1)
      BY <1>1
    <3> QED BY <3>1
  <2>3. m \in 1..n /\ m - 1 \in 1..n /\ m - 1 \notin Bad
    <3>1. m \in 1..n
      BY <2>1
    <3>2. m - 1 \in 1..n /\ ~ (m <= m - 1)
      BY <1>1, <2>2, <3>1
    <3> HIDE DEF Bad
    <3> QED BY <2>1, <3>1, <3>2
  <2>4. PICK x \in 1..(m - 1) : Great(m - 1, x)
    BY <2>3
  <2>5. CASE w[m] <= w[x]
    <3>1. x \in 1..m /\ Great(m, x)
      BY <1>1, <2>3, <2>4, <2>5
    <3> QED BY <2>1, <3>1
  <2>6. CASE ~ (w[m] <= w[x])
    <3>1. m \in 1..m /\ Great(m, m)
      BY <1>1, <2>3, <2>4, <2>6
    <3> QED BY <2>1, <3>1
  <2> QED BY <2>5, <2>6
<1>3. PICK x \in 1..n : Great(n, x)
  <2>1. n \in 1..n
    BY <1>1
  <2> QED BY <1>2, <2>1
<1> QED BY <1>1, <1>3

Buckets(win) == 1 + CHOOSE x \in {win.w[j] : j \in DOMAIN win.w} :
                       \A y \in {win.w[j] : j \in DOMAIN win.w} : y <= x

LEMMA WindowFacts ==
    ASSUME w_win \in Windows, mod = Buckets(w_win)
    PROVE  /\ mod \in Nat /\ mod >= 2 /\ mod \in Nat \ {0}
           /\ Len(w_win.w) \in Nat /\ DOMAIN w_win.w = 1..Len(w_win.w)
           /\ \A j \in 1..Len(w_win.w) : /\ w_win.w[j] \in Nat /\ w_win.w[j] >= 1 /\ w_win.w[j] <= mod - 1
                                         /\ \A p \in Site : w_win.q[p][j] \in Site \cup {Outside}
<1> DEFINE W == {w_win.w[j] : j \in DOMAIN w_win.w}
           x == CHOOSE u \in W : \A y \in W : y <= u
<1>1. D!IsWindow(w_win)
  BY FrontsAssumption
<1>2. /\ w_win.w \in Seq(Nat \ {0}) /\ w_win.w # <<>>
      /\ w_win.q \in [Site -> [DOMAIN w_win.w -> Site \cup {Outside}]]
  BY <1>1, FrontShare DEF D!IsWindow
<1>3. Len(w_win.w) \in Nat /\ DOMAIN w_win.w = 1..Len(w_win.w)
  BY <1>2
<1>4. \E u \in W : \A y \in W : y <= u
  BY <1>2, GreatestWeight
<1>5. x \in W /\ \A y \in W : y <= x
  <2> HIDE DEF W
  <2> QED BY <1>4
<1>6. mod = 1 + x
  BY DEF Buckets
<1> HIDE DEF x
<1>7. W \subseteq Nat \ {0}
  BY <1>2, <1>3
<1>8. x \in Nat /\ x >= 1
  BY <1>5, <1>7
<1>9. ASSUME NEW j \in 1..Len(w_win.w)
      PROVE  w_win.w[j] \in Nat /\ w_win.w[j] >= 1 /\ w_win.w[j] <= mod - 1
  <2>1. w_win.w[j] \in W
    BY <1>3
  <2> QED BY <1>5, <1>6, <1>7, <1>8, <2>1
<1> QED BY SMTT(30), <1>2, <1>3, <1>6, <1>8, <1>9

\* How the entries of the buckets are counted.
Sums(S, cells) ==
    S = [b \in -1..(mod - 1) |-> IF b = -1 THEN 0 ELSE S[b - 1] + Len(cells[b])]

LEMMA SumsAt ==
    ASSUME NEW S, NEW cells, Sums(S, cells), mod \in Nat \ {0}
    PROVE  S[-1] = 0 /\ \A b \in 0..(mod - 1) : S[b] = S[b - 1] + Len(cells[b])
<1>1. S = [b \in -1..(mod - 1) |-> IF b = -1 THEN 0 ELSE S[b - 1] + Len(cells[b])]
  BY DEF Sums
<1>2. S[-1] = 0
  BY <1>1
<1>3. ASSUME NEW b \in 0..(mod - 1) PROVE S[b] = S[b - 1] + Len(cells[b])
  <2>1. b \in -1..(mod - 1) /\ b # -1
    OBVIOUS
  <2> QED BY <1>1, <2>1
<1> QED BY <1>2, <1>3

\* What holds with no bucket, and with one more, holds with all of them.
LEMMA FirstBuckets ==
    ASSUME mod \in Nat \ {0}, NEW Good, -1 \in Good,
           \A b \in 0..(mod - 1) : b - 1 \in Good => b \in Good
    PROVE  \A b \in -1..(mod - 1) : b \in Good
<1> DEFINE Bad == {m \in 0..mod : m - 1 \notin Good}
<1>1. ASSUME Bad # {} PROVE FALSE
  <2>1. PICK m \in Bad : \A j \in Bad : m <= j
    <3>1. Bad \in SUBSET Nat
      OBVIOUS
    <3> HIDE DEF Bad
    <3> QED BY <1>1, <3>1, LeastNat
  <2>2. m \in 0..mod /\ m # 0 /\ m - 1 \notin Good
    <3>1. 0 - 1 = -1
      OBVIOUS
    <3> QED BY <2>1, <3>1
  <2>3. m - 1 \in 0..(mod - 1) /\ m - 1 \in 0..mod /\ ~ (m <= m - 1)
    BY <2>2
  <2>4. (m - 1) - 1 \in Good
    <3>1. m - 1 \notin Bad
      <4> HIDE DEF Bad
      <4> QED BY <2>1, <2>3
    <3> QED BY <2>3, <3>1
  <2> QED BY <2>2, <2>3, <2>4
<1>2. ASSUME NEW b \in -1..(mod - 1) PROVE b \in Good
  <2>1. b + 1 \in 0..mod /\ (b + 1) - 1 = b
    OBVIOUS
  <2>2. (b + 1) - 1 \in Good
    BY <1>1, <2>1
  <2> QED BY <2>1, <2>2
<1> QED BY <1>2

Cells == [0..(mod - 1) -> Seq(Site)]

LEMMA SumsAreNat ==
    ASSUME mod \in Nat \ {0}, NEW S, NEW cells \in Cells, Sums(S, cells)
    PROVE  \A b \in -1..(mod - 1) : S[b] \in Nat
<1> DEFINE Good == {b \in -1..(mod - 1) : S[b] \in Nat}
<1>1. \A b \in 0..(mod - 1) : Len(cells[b]) \in Nat
  BY DEF Cells
<1>2. -1 \in Good
  BY SumsAt
<1>3. ASSUME NEW b \in 0..(mod - 1), b - 1 \in Good PROVE b \in Good
  BY <1>1, <1>3, SumsAt
<1> HIDE DEF Good
<1>4. \A b \in -1..(mod - 1) : b \in Good
  BY <1>2, <1>3, FirstBuckets
<1> QED BY <1>4 DEF Good

LEMMA SumsUnique ==
    ASSUME mod \in Nat \ {0}, NEW S, NEW R, NEW cells, Sums(S, cells), Sums(R, cells)
    PROVE  S[mod - 1] = R[mod - 1]
<1> DEFINE Good == {b \in -1..(mod - 1) : S[b] = R[b]}
<1>1. S[-1] = 0 /\ \A b \in 0..(mod - 1) : S[b] = S[b - 1] + Len(cells[b])
  BY SumsAt
<1>2. R[-1] = 0 /\ \A b \in 0..(mod - 1) : R[b] = R[b - 1] + Len(cells[b])
  BY SumsAt
<1>3. -1 \in Good
  BY <1>1, <1>2
<1>4. ASSUME NEW b \in 0..(mod - 1), b - 1 \in Good PROVE b \in Good
  BY <1>1, <1>2, <1>4
<1> HIDE DEF Good
<1>5. \A b \in -1..(mod - 1) : b \in Good
  BY <1>3, <1>4, FirstBuckets
<1>6. mod - 1 \in -1..(mod - 1)
  OBVIOUS
<1> QED BY <1>5, <1>6 DEF Good

\* A bucket changes by so many entries.
Changed(after, cells, c, s) == after = [cells EXCEPT ![c] = s]

LEMMA SumsChange ==
    ASSUME mod \in Nat \ {0}, NEW S, NEW cells \in Cells, Sums(S, cells),
           NEW c \in 0..(mod - 1), NEW s \in Seq(Site), NEW after, Changed(after, cells, c, s)
    PROVE  \E R : /\ Sums(R, after)
                  /\ R[mod - 1] = S[mod - 1] + (Len(s) - Len(cells[c]))
<1> DEFINE more == Len(s) - Len(cells[c])
           R == [b \in -1..(mod - 1) |-> IF b >= c THEN S[b] + more ELSE S[b]]
<1>1. Len(s) \in Int /\ more \in Int /\ \A b \in 0..(mod - 1) : Len(cells[b]) \in Int
  BY DEF Cells
<1>2. /\ \A b \in -1..(mod - 1) : S[b] \in Nat
      /\ S[-1] = 0 /\ \A b \in 0..(mod - 1) : S[b] = S[b - 1] + Len(cells[b])
  BY SumsAt, SumsAreNat
<1>3. after[c] = s /\ Len(s) = Len(cells[c]) + more /\ \A b \in 0..(mod - 1) : b # c => after[b] = cells[b]
  BY <1>1 DEF Cells, Changed
<1>7. \A b \in -1..(mod - 1) : R[b] = IF b >= c THEN S[b] + more ELSE S[b]
  OBVIOUS
<1>8. R = [b \in -1..(mod - 1) |-> R[b]]
  OBVIOUS
<1> HIDE DEF more, R
<1>4. ASSUME NEW b \in -1..(mod - 1)
      PROVE  R[b] = IF b = -1 THEN 0 ELSE R[b - 1] + Len(after[b])
  <2>1. CASE b = -1
    BY <1>2, <1>7, <2>1
  <2>2. CASE b # -1
    <3>1. b \in 0..(mod - 1) /\ b - 1 \in -1..(mod - 1)
      BY <2>2
    <3>4. S[b] \in Nat /\ S[b - 1] \in Nat /\ S[b] = S[b - 1] + Len(cells[b])
      BY <1>2, <3>1
    <3>2. CASE b = c
      <4>1. R[b] = S[b] + more /\ R[b - 1] = S[b - 1] /\ after[b] = s
        BY <1>3, <1>7, <3>1, <3>2
      <4> QED BY SMTT(30), <1>1, <1>3, <2>2, <3>2, <3>4, <4>1
    <3>3. CASE b # c
      <4>1. after[b] = cells[b] /\ (b >= c <=> b - 1 >= c)
        BY <1>3, <3>1, <3>3
      <4>2. CASE b >= c
        <5>1. R[b] = S[b] + more /\ R[b - 1] = S[b - 1] + more
          BY <1>7, <3>1, <4>1, <4>2
        <5> QED BY <1>1, <2>2, <3>1, <3>4, <4>1, <5>1
      <4>3. CASE ~ (b >= c)
        <5>1. R[b] = S[b] /\ R[b - 1] = S[b - 1]
          BY <1>7, <3>1, <4>1, <4>3
        <5> QED BY <2>2, <3>4, <4>1, <5>1
      <4> QED BY <4>2, <4>3
    <3> QED BY <3>2, <3>3
  <2> QED BY <2>1, <2>2
<1>5. Sums(R, after)
  BY <1>4, <1>8 DEF Sums
<1>6. R[mod - 1] = S[mod - 1] + more
  BY <1>7
<1> QED BY <1>5, <1>6 DEF more

LEMMA SumsOfEmpty ==
    ASSUME mod \in Nat \ {0}, NEW S, NEW cells, Sums(S, cells),
           \A b \in 0..(mod - 1) : cells[b] = <<>>
    PROVE  S[mod - 1] = 0
<1> DEFINE Good == {b \in -1..(mod - 1) : S[b] = 0}
<1>1. S[-1] = 0 /\ \A b \in 0..(mod - 1) : S[b] = S[b - 1] + Len(cells[b])
  BY SumsAt
<1>2. -1 \in Good
  BY <1>1
<1>3. ASSUME NEW b \in 0..(mod - 1), b - 1 \in Good PROVE b \in Good
  <2>1. Len(cells[b]) = 0
    OBVIOUS
  <2> QED BY <1>1, <1>3, <2>1
<1> HIDE DEF Good
<1>4. \A b \in -1..(mod - 1) : b \in Good
  BY <1>2, <1>3, FirstBuckets
<1>5. mod - 1 \in -1..(mod - 1)
  OBVIOUS
<1> QED BY <1>4, <1>5 DEF Good

\* No entry is left when none is counted: each count is at most the next one.
LEMMA NoneCounted ==
    ASSUME mod \in Nat \ {0}, NEW S, NEW cells \in Cells, Sums(S, cells), S[mod - 1] = 0
    PROVE  \A b \in 0..(mod - 1) : cells[b] = <<>>
<1>1. /\ \A b \in -1..(mod - 1) : S[b] \in Nat
      /\ S[-1] = 0 /\ \A b \in 0..(mod - 1) : S[b] = S[b - 1] + Len(cells[b])
  BY SumsAt, SumsAreNat
<1>2. \A b \in 0..(mod - 1) : Len(cells[b]) \in Nat /\ (Len(cells[b]) = 0 => cells[b] = <<>>)
  BY DEF Cells
<1> SUFFICES ASSUME NEW c \in 0..(mod - 1), cells[c] # <<>> PROVE FALSE
  OBVIOUS
<1> DEFINE Good == {b \in -1..(mod - 1) : b >= c => S[b] > 0}
<1>3. -1 \in Good
  OBVIOUS
<1>4. ASSUME NEW b \in 0..(mod - 1), b - 1 \in Good PROVE b \in Good
  <2>1. S[b] \in Nat /\ S[b - 1] \in Nat /\ S[b] = S[b - 1] + Len(cells[b])
    BY <1>1
  <2>2. CASE b = c
    BY <1>2, <2>1, <2>2
  <2>3. CASE b # c
    BY <1>2, <1>4, <2>1, <2>3
  <2> QED BY <2>2, <2>3
<1> HIDE DEF Good
<1>5. \A b \in -1..(mod - 1) : b \in Good
  BY <1>3, <1>4, FirstBuckets
<1>6. mod - 1 \in -1..(mod - 1) /\ mod - 1 >= c
  OBVIOUS
<1> QED BY <1>5, <1>6 DEF Good

OnceEach(cells) ==
    \A b \in 0..(mod - 1) : \A x, y \in DOMAIN cells[b] : cells[b][x] = cells[b][y] => x = y

LEMMA BucketFits ==
    ASSUME NEW s \in Seq(Site), \A x, y \in DOMAIN s : s[x] = s[y] => x = y
    PROVE  Len(s) \in 0..N
<1>1. s \in [1..Len(s) -> Site] /\ Len(s) \in Nat
  OBVIOUS
<1>2. s \in Injection(1..Len(s), Site)
  <2>1. IsInjective(s)
    BY <1>1 DEF IsInjective
  <2> QED BY <1>1, <2>1 DEF Injection
<1>3. IsFiniteSet(1..Len(s)) /\ Cardinality(1..Len(s)) = Len(s)
  <2> DEFINE a == 1
             z == Len(s)
  <2>1. a \in Int /\ z \in Int
    BY <1>1
  <2>2. IsFiniteSet(a..z) /\ Cardinality(a..z) = IF a > z THEN 0 ELSE z - a + 1
    <3> HIDE DEF a, z
    <3> QED BY <2>1, FS_Interval
  <2> QED BY <1>1, <2>2
<1>4. Cardinality(1..Len(s)) <= Cardinality(Site)
  BY <1>2, <1>3, SitesAreFinite, FS_Injection
<1> QED BY <1>1, <1>3, <1>4, SitesAreFinite

LEMMA SumsFit ==
    ASSUME mod \in Nat \ {0}, NEW S, NEW cells \in Cells, Sums(S, cells), OnceEach(cells)
    PROVE  S[mod - 1] \in 0..(N * mod)
<1> DEFINE Good == {b \in -1..(mod - 1) : S[b] <= N * (b + 1)}
<1>1. /\ \A b \in -1..(mod - 1) : S[b] \in Nat
      /\ S[-1] = 0 /\ \A b \in 0..(mod - 1) : S[b] = S[b - 1] + Len(cells[b])
  BY SumsAt, SumsAreNat
<1>2. N \in Nat
  BY SitesAreFinite
<1>3. -1 \in Good
  BY <1>1, <1>2
<1>4. ASSUME NEW b \in 0..(mod - 1), b - 1 \in Good PROVE b \in Good
  <2>1. Len(cells[b]) \in 0..N
    <3>1. cells[b] \in Seq(Site) /\ \A x, y \in DOMAIN cells[b] : cells[b][x] = cells[b][y] => x = y
      BY DEF Cells, OnceEach
    <3> QED BY <3>1, BucketFits
  <2>2. S[b - 1] <= N * ((b - 1) + 1) /\ S[b - 1] \in Nat /\ S[b] = S[b - 1] + Len(cells[b])
    BY <1>1, <1>4
  <2>3. N * (b + 1) = N * b + N /\ (b - 1) + 1 = b /\ N * b \in Int
    BY <1>2
  <2> DEFINE last == N * b
  <2>4. S[b - 1] <= last /\ last \in Int
    BY <2>2, <2>3
  <2> HIDE DEF last
  <2>5. S[b] <= last + N
    BY <1>2, <2>1, <2>2, <2>4
  <2> QED BY <2>3, <2>5 DEF last
<1> HIDE DEF Good
<1>5. \A b \in -1..(mod - 1) : b \in Good
  BY <1>3, <1>4, FirstBuckets
<1>6. mod - 1 \in -1..(mod - 1) /\ (mod - 1) + 1 = mod
  OBVIOUS
<1>7. S[mod - 1] <= N * mod /\ S[mod - 1] \in Nat
  BY <1>1, <1>5, <1>6 DEF Good
<1>8. N * mod \in Int
  BY <1>2
<1> QED BY <1>7, <1>8

Has(s, q) == \E x \in DOMAIN s : s[x] = q

\* What the loops change, and what they make of it.
Now == [dmap |-> dmap, cp_ima |-> cp_ima, bucket |-> bucket, size |-> bucket_size]
Then == [dmap |-> dmap', cp_ima |-> cp_ima', bucket |-> bucket', size |-> bucket_size']

Counted(st) ==
    /\ st.bucket \in Cells /\ OnceEach(st.bucket)
    /\ \E S : Sums(S, st.bucket) /\ st.size = S[mod - 1]

FrontTyped(st) ==
    /\ st.dmap \in [Site -> 0..max] /\ st.cp_ima \in [Site -> Sources \cup {Outside}]
    /\ Counted(st)

\* A value comes from an object point, or through a vector from a site that the
\* front, at distance c, has met.
Led(st, c) ==
    \A q \in Site :
       /\ input[q] => st.dmap[q] = 0 /\ st.cp_ima[q] = q
       /\ ~ input[q] /\ st.dmap[q] = max => st.cp_ima[q] = Outside
       /\ ~ input[q] /\ st.dmap[q] < max =>
            \E r \in Site, j \in 1..Len(w_win.w) :
               /\ w_win.q[r][j] = q /\ st.dmap[r] + w_win.w[j] = st.dmap[q]
               /\ st.dmap[r] <= c /\ st.cp_ima[q] = st.cp_ima[r]

\* A bucket holds what is at its distance or was lowered since, none at max, and
\* what the front has to meet is in the bucket of its distance.
Held(st, c) ==
    /\ \A x \in c..(c + mod - 1) :
         /\ \A y \in DOMAIN st.bucket[x % mod] : st.dmap[st.bucket[x % mod][y]] <= x
         /\ x >= max /\ x > 0 => st.bucket[x % mod] = <<>>
    /\ \A q \in Site : c < st.dmap[q] /\ st.dmap[q] < max => Has(st.bucket[st.dmap[q] % mod], q)

Relaxed(st, q) ==
    \A j \in 1..Len(w_win.w) :
       w_win.q[q][j] = Outside \/ st.dmap[w_win.q[q][j]] <= st.dmap[q] + w_win.w[j]
Interior(q) == input[q] /\ ~ D!InQueue(q)
Awaits(q) == dmap[q] = d /\ \E x \in i..Len(bucket[d % mod]) : bucket[d % mod][x] = q

FrontTypes ==
    /\ input \in [Site -> BOOLEAN] /\ max \in Nat
    /\ w_win \in Windows /\ mod = Buckets(w_win)
    /\ d \in Nat /\ d <= max + 1 /\ i \in Nat \ {0}
    /\ pc \in {"init", "browse", "done"}
    /\ FrontTyped(Now)
    /\ pc = "init" => i \in Site /\ d = 0
    /\ pc = "browse" => bucket_size # 0 /\ d <= max

FrontStart ==
    pc = "init" =>
       /\ \A q \in Site : dmap[q] = IF input[q] /\ q < i THEN 0 ELSE max
       /\ \A q \in Site : cp_ima[q] = IF input[q] THEN q ELSE Outside
       /\ \A b \in 1..(mod - 1) : bucket[b] = <<>>
       /\ \A x \in DOMAIN bucket[0] : D!InQueue(bucket[0][x]) /\ bucket[0][x] < i
       /\ \A q \in Site : q < i /\ D!InQueue(q) => Has(bucket[0], q)

\* What the front has met has given its distance, but for what is inside an
\* object and what is left of the bucket.
FrontGoes ==
    pc = "browse" =>
       /\ Led(Now, d) /\ Held(Now, d)
       /\ \A q \in Site : dmap[q] <= d /\ dmap[q] < max => Relaxed(Now, q) \/ Interior(q) \/ Awaits(q)

FrontIsOver ==
    pc = "done" =>
       /\ Led(Now, d)
       /\ \A q \in Site : dmap[q] < max => Relaxed(Now, q) \/ Interior(q)

DialInv == FrontTypes /\ FrontStart /\ FrontGoes /\ FrontIsOver

LEMMA FrontPrimes ==
    ASSUME UNCHANGED <<input, max, w_win, mod>>
    PROVE  /\ FrontTyped(Now)' <=> FrontTyped(Then)
           /\ Led(Now, d)' <=> Led(Then, d')
           /\ Held(Now, d)' <=> Held(Then, d')
           /\ \A q : Relaxed(Now, q)' <=> Relaxed(Then, q)
           /\ \A q : Interior(q)' <=> Interior(q)
           /\ \A q : D!InQueue(q)' <=> D!InQueue(q)
<1>1. FrontTyped(Now)' <=> FrontTyped(Then)
  BY DEF FrontTyped, Counted, Now, Then, Cells, OnceEach, Sums, Sources
<1>2. Led(Now, d)' <=> Led(Then, d')
  BY DEF Led, Now, Then
<1>3. Held(Now, d)' <=> Held(Then, d')
  BY DEF Held, Now, Then, Has
<1>4. \A q : Relaxed(Now, q)' <=> Relaxed(Then, q)
  BY DEF Relaxed, Now, Then
<1>5. \A q : D!InQueue(q)' <=> D!InQueue(q)
  BY DEF D!InQueue
<1> QED BY <1>1, <1>2, <1>3, <1>4, <1>5 DEF Interior

LEMMA FrontBegin == D!Init => DialInv
<1> SUFFICES ASSUME D!Init PROVE DialInv
  OBVIOUS
<1>1. /\ input \in [Site -> BOOLEAN] /\ max \in Nat /\ w_win \in Windows
      /\ dmap = [q \in Site |-> max] /\ cp_ima = [q \in Site |-> IF input[q] THEN q ELSE Outside]
      /\ mod = Buckets(w_win) /\ bucket = [b \in 0..(mod - 1) |-> <<>>]
      /\ bucket_size = 0 /\ d = 0 /\ i = 1 /\ pc = "init"
  BY FrontShare DEF D!Init, D!Start, D!FillMaps, D!Buckets, D!Weights, Buckets
<1>2. mod \in Nat \ {0} /\ mod >= 2
  BY <1>1, WindowFacts
<1>3. bucket \in Cells /\ \A b \in 0..(mod - 1) : bucket[b] = <<>>
  BY <1>1 DEF Cells
<1> DEFINE S == [b \in -1..(mod - 1) |-> 0]
<1>4. Sums(S, bucket) /\ S[mod - 1] = 0
  <2>1. \A b \in -1..(mod - 1) : S[b] = IF b = -1 THEN 0 ELSE S[b - 1] + Len(bucket[b])
    <3>1. ASSUME NEW b \in 0..(mod - 1) PROVE 0 = S[b - 1] + Len(bucket[b])
      <4>1. b - 1 \in -1..(mod - 1) /\ bucket[b] = <<>>
        BY <1>2, <1>3
      <4>2. Len(bucket[b]) = 0
        BY <4>1
      <4> QED BY <4>1, <4>2
    <3>2. \A b \in -1..(mod - 1) : S[b] = 0 /\ (b # -1 => b \in 0..(mod - 1))
      OBVIOUS
    <3> HIDE DEF S
    <3> QED BY <3>1, <3>2
  <2>2. S = [b \in -1..(mod - 1) |-> S[b]] /\ S[mod - 1] = 0
    BY <1>2
  <2> HIDE DEF S
  <2> QED BY <2>1, <2>2 DEF Sums
<1>5. Counted(Now)
  <2>1. OnceEach(bucket)
    BY <1>3 DEF OnceEach
  <2> HIDE DEF S
  <2> QED BY <1>1, <1>3, <1>4, <2>1 DEF Counted, Now
<1>6. FrontTypes
  <2>1. FrontTyped(Now)
    BY <1>1, <1>5 DEF FrontTyped, Now, Sources
  <2> QED BY <1>1, <2>1, RegionsAssumption DEF FrontTypes, Site
<1>7. FrontStart
  <2>1. bucket[0] = <<>> /\ \A b \in 1..(mod - 1) : bucket[b] = <<>>
    BY <1>2, <1>3
  <2>2. \A q \in Site : ~ (q < i)
    BY <1>1 DEF Site
  <2>3. DOMAIN bucket[0] = {}
    BY <2>1
  <2> QED BY <1>1, <2>1, <2>2, <2>3 DEF FrontStart
<1> QED BY <1>1, <1>6, <1>7 DEF DialInv, FrontGoes, FrontIsOver

\* The count follows what is appended to a bucket.
PushedIn(after, st, c, q) ==
    after.bucket = [st.bucket EXCEPT ![c] = Append(@, q)] /\ after.size = st.size + 1

LEMMA Appended ==
    ASSUME mod \in Nat \ {0}, NEW st, Counted(st), NEW c \in 0..(mod - 1), NEW q \in Site,
           ~ Has(st.bucket[c], q), NEW after, PushedIn(after, st, c, q)
    PROVE  /\ Counted(after) /\ after.size \in Nat /\ after.size # 0
           /\ \A b \in 0..(mod - 1) : b # c => after.bucket[b] = st.bucket[b]
           /\ Has(after.bucket[c], q)
           /\ \A x \in DOMAIN st.bucket[c] :
                x \in DOMAIN after.bucket[c] /\ after.bucket[c][x] = st.bucket[c][x]
           /\ \A x \in DOMAIN after.bucket[c] :
                \/ after.bucket[c][x] = q
                \/ x \in DOMAIN st.bucket[c] /\ after.bucket[c][x] = st.bucket[c][x]
<1> DEFINE s == st.bucket[c]
           t == Append(s, q)
           cells == after.bucket
           n == after.size
<1>1. s \in Seq(Site) /\ st.bucket \in Cells /\ OnceEach(st.bucket)
  BY DEF Counted, Cells
<1>2. cells = [st.bucket EXCEPT ![c] = t] /\ n = st.size + 1
  BY DEF PushedIn
<1>3. /\ t \in Seq(Site) /\ Len(t) = Len(s) + 1 /\ DOMAIN t = 1..(Len(s) + 1) /\ DOMAIN s = 1..Len(s)
      /\ t[Len(s) + 1] = q /\ \A x \in 1..Len(s) : t[x] = s[x]
  BY <1>1
<1>4. PICK S : Sums(S, st.bucket) /\ st.size = S[mod - 1]
  BY DEF Counted
<1>5. S[mod - 1] \in Nat
  <2>1. mod - 1 \in -1..(mod - 1)
    OBVIOUS
  <2> QED BY <1>1, <1>4, <2>1, SumsAreNat
<1>6. ~ Has(s, q)
  OBVIOUS
<1> HIDE DEF cells, n
<1>7. Len(s) \in Nat
  BY <1>1
<1>8. cells[c] = t /\ \A b \in 0..(mod - 1) : b # c => cells[b] = st.bucket[b]
  BY <1>1, <1>2 DEF Cells
<1>9. cells \in Cells
  BY <1>1, <1>2, <1>3 DEF Cells
<1>10. \E R : Sums(R, cells) /\ n = R[mod - 1]
  <2>1. PICK R : Sums(R, cells) /\ R[mod - 1] = S[mod - 1] + (Len(t) - Len(st.bucket[c]))
    <3> DEFINE old == st.bucket
    <3>1. t \in Seq(Site) /\ old \in Cells /\ Sums(S, old) /\ Changed(cells, old, c, t)
      BY <1>1, <1>2, <1>3, <1>4 DEF Changed
    <3> HIDE DEF t, old
    <3>2. \E R : Sums(R, cells) /\ R[mod - 1] = S[mod - 1] + (Len(t) - Len(old[c]))
      BY <3>1, SumsChange
    <3> QED BY <3>2 DEF old
  <2>2. Len(t) - Len(st.bucket[c]) = 1
    BY <1>3, <1>7
  <2> QED BY <1>2, <1>4, <2>1, <2>2
<1> HIDE DEF t
<1>11. \A x, y \in DOMAIN s : s[x] = s[y] => x = y
  BY <1>1 DEF OnceEach
<1> HIDE DEF s
<1>12. \A x \in DOMAIN t : (t[x] = q /\ x = Len(s) + 1) \/ (x \in DOMAIN s /\ t[x] = s[x])
  BY <1>3, <1>7
<1>13. \A x, y \in DOMAIN t : t[x] = t[y] => x = y
  BY <1>6, <1>11, <1>12 DEF Has
<1>14. OnceEach(cells)
  BY <1>1, <1>8, <1>13 DEF OnceEach
<1>15. Has(t, q) /\ \A x \in DOMAIN s : x \in DOMAIN t /\ t[x] = s[x]
  BY <1>3, <1>7 DEF Has
<1>16. Counted(after)
  BY <1>9, <1>10, <1>14 DEF Counted, cells, n
<1>17. n \in Nat /\ n # 0
  BY <1>2, <1>4, <1>5
<1> QED BY <1>8, <1>12, <1>15, <1>16, <1>17 DEF s, cells, n

LEMMA OtherBuckets ==
    ASSUME mod \in Nat \ {0}
    PROVE  /\ 0 % mod = 0 /\ 0 \in 0..(mod - 1)
           /\ \A x \in 1..(mod - 1) : x % mod \in 1..(mod - 1)
<1>1. /\ 0 % mod \in 0..(mod - 1) /\ 0 = mod * (0 \div mod) + (0 % mod) /\ (0 \div mod) \in Nat
  BY Division
<1>2. 0 % mod = 0
  <2> DEFINE u == 0 \div mod
             r == 0 % mod
  <2>1. mod * u \in Nat /\ r \in Nat /\ 0 = mod * u + r
    BY <1>1
  <2> HIDE DEF u, r
  <2>2. r = 0
    BY <2>1
  <2> QED BY <2>2 DEF r
<1>3. ASSUME NEW x \in 1..(mod - 1) PROVE x % mod \in 1..(mod - 1)
  <2>1. x \in Nat /\ x % mod \in 0..(mod - 1)
    BY Division
  <2>2. ASSUME x % mod = 0 PROVE FALSE
    <3>1. x % mod = 0 % mod /\ x - 0 < mod /\ 0 - x < mod /\ 0 \in Nat
      BY <1>2, <2>2
    <3>2. x = 0
      BY <2>1, <3>1, SameBucket
    <3> QED BY <3>2
  <2> QED BY <2>1, <2>2
<1> QED BY <1>2, <1>3

LEMMA FrontInitStep ==
    ASSUME DialInv, D!InitP
    PROVE  DialInv'
<1>1. /\ pc = "init"
      /\ dmap' = [dmap EXCEPT ![i] = IF input[i] THEN 0 ELSE dmap[i]] /\ cp_ima' = cp_ima
      /\ bucket' = IF D!InQueue(i) THEN [bucket EXCEPT ![0] = Append(@, i)] ELSE bucket
      /\ bucket_size' = IF D!InQueue(i) THEN bucket_size + 1 ELSE bucket_size
      /\ \/ i = N /\ pc' = (IF bucket_size' = 0 THEN "done" ELSE "browse") /\ i' = 1
         \/ i # N /\ pc' = "init" /\ i' = i + 1
      /\ UNCHANGED <<input, max, w_win, mod, d>>
  BY FrontShare DEF D!InitP, D!InitSite, D!Loop
<1>2. /\ FrontTypes /\ FrontStart /\ i \in Site /\ i \in Int /\ d = 0
      /\ input \in [Site -> BOOLEAN] /\ max \in Nat /\ dmap \in [Site -> 0..max]
      /\ cp_ima \in [Site -> Sources \cup {Outside}] /\ w_win \in Windows /\ mod = Buckets(w_win)
      /\ Counted(Now) /\ bucket \in Cells /\ OnceEach(bucket)
  BY <1>1 DEF DialInv, FrontTypes, FrontTyped, Counted, Now, Site
<1>3. mod \in Nat \ {0} /\ mod >= 2 /\ 0 \in 0..(mod - 1)
  BY <1>2, WindowFacts
<1> DEFINE Before(q) == q < i \/ q = i
<1>4. \A q \in Site : q \in Int /\ q <= N /\ (pc' = "init" => (q < i' <=> Before(q)))
  BY <1>1, <1>2, RegionsAssumption DEF Site
<1>5. pc' # "init" => i = N /\ i' = 1 /\ \A q \in Site : Before(q)
  BY <1>1, <1>2, <1>4, RegionsAssumption DEF Site
<1>6. i' \in Nat \ {0} /\ (pc' = "init" => i' \in Site) /\ pc' \in {"init", "browse", "done"}
      /\ (pc' = "browse" => bucket_size' # 0) /\ (pc' = "done" => bucket_size' = 0)
  BY SMTT(30), <1>1, <1>2, RegionsAssumption DEF Site
<1>7. \A q \in Site : dmap'[q] = IF input[q] /\ Before(q) THEN 0 ELSE max
  <2>1. \A q \in Site : dmap[q] = IF input[q] /\ q < i THEN 0 ELSE max
    BY <1>1, <1>2 DEF FrontStart
  <2>2. ASSUME NEW q \in Site PROVE dmap'[q] = IF input[q] /\ Before(q) THEN 0 ELSE max
    <3>1. CASE q = i
      BY <1>1, <1>2, <2>1, <3>1
    <3>2. CASE q # i
      <4>1. dmap'[q] = dmap[q]
        BY <1>1, <1>2, <3>2
      <4> QED BY <2>1, <3>2, <4>1
    <3> QED BY <3>1, <3>2
  <2> QED BY <2>2
<1>8. \A q \in Site : cp_ima'[q] = IF input[q] THEN q ELSE Outside
  BY <1>1, <1>2 DEF FrontStart
<1> HIDE DEF Before
<1>9. /\ \A b \in 1..(mod - 1) : bucket[b] = <<>>
      /\ \A x \in DOMAIN bucket[0] : D!InQueue(bucket[0][x]) /\ bucket[0][x] < i /\ bucket[0][x] \in Site
      /\ \A q \in Site : q < i /\ D!InQueue(q) => Has(bucket[0], q)
  <2>1. bucket[0] \in Seq(Site)
    BY <1>2, <1>3 DEF Cells
  <2> QED BY <1>1, <1>2, <2>1 DEF FrontStart
<1>10. /\ Counted(Then)
       /\ \A b \in 1..(mod - 1) : bucket'[b] = <<>>
       /\ \A x \in DOMAIN bucket'[0] : /\ D!InQueue(bucket'[0][x]) /\ Before(bucket'[0][x])
                                       /\ bucket'[0][x] \in Site
       /\ \A q \in Site : Before(q) /\ D!InQueue(q) => Has(bucket'[0], q)
  <2>1. CASE ~ D!InQueue(i)
    <3>1. bucket' = bucket /\ bucket_size' = bucket_size
      BY <1>1, <2>1
    <3>2. Counted(Then)
      BY <1>2, <3>1 DEF Counted, Now, Then
    <3> QED BY <1>9, <2>1, <3>1, <3>2 DEF Before
  <2>2. CASE D!InQueue(i)
    <3> DEFINE st == Now
               after == Then
               cells == bucket'
               c == 0
    <3>1. ~ Has(st.bucket[c], i)
      <4>1. ~ (i < i) /\ st.bucket = bucket
        BY <1>2 DEF Now
      <4> QED BY <1>9, <4>1 DEF Has
    <3>2. PushedIn(after, st, c, i) /\ after.bucket = cells
      BY <1>1, <2>2 DEF Now, Then, PushedIn
    <3>3. c \in 0..(mod - 1) /\ Counted(st)
      BY <1>2, <1>3
    <3> HIDE DEF st, after, c
    <3>9. /\ Counted(after)
          /\ \A b \in 0..(mod - 1) : b # c => after.bucket[b] = st.bucket[b]
          /\ Has(after.bucket[c], i)
          /\ \A x \in DOMAIN st.bucket[c] : x \in DOMAIN after.bucket[c] /\ after.bucket[c][x] = st.bucket[c][x]
          /\ \A x \in DOMAIN after.bucket[c] :
                \/ after.bucket[c][x] = i
                \/ x \in DOMAIN st.bucket[c] /\ after.bucket[c][x] = st.bucket[c][x]
      BY <1>2, <1>3, <3>1, <3>2, <3>3, Appended
    <3> HIDE DEF cells
    <3>4. /\ Counted(after)
          /\ \A b \in 0..(mod - 1) : b # c => cells[b] = st.bucket[b]
          /\ Has(cells[c], i)
          /\ \A x \in DOMAIN st.bucket[c] : x \in DOMAIN cells[c] /\ cells[c][x] = st.bucket[c][x]
          /\ \A x \in DOMAIN cells[c] : cells[c][x] = i \/ (x \in DOMAIN st.bucket[c] /\ cells[c][x] = st.bucket[c][x])
      BY <3>2, <3>9
    <3>5. st.bucket = bucket
      BY DEF st, Now
    <3>6. \A b \in 1..(mod - 1) : cells[b] = <<>>
      <4>1. \A b \in 1..(mod - 1) : b \in 0..(mod - 1) /\ b # 0
        OBVIOUS
      <4> QED BY <1>9, <3>4, <3>5, <4>1 DEF c
    <3>7. \A x \in DOMAIN cells[c] : D!InQueue(cells[c][x]) /\ Before(cells[c][x]) /\ cells[c][x] \in Site
      BY <1>2, <1>9, <2>2, <3>4, <3>5 DEF Before, c
    <3>8. \A q \in Site : Before(q) /\ D!InQueue(q) => Has(cells[c], q)
      <4>1. \A q : Has(bucket[0], q) => Has(cells[c], q)
        BY <3>4, <3>5 DEF Has, c
      <4> QED BY <1>9, <3>4, <4>1 DEF Before
    <3> QED BY <3>4, <3>6, <3>7, <3>8 DEF after, cells, c
  <2> QED BY <2>1, <2>2
<1>11. FrontTyped(Then)
  <2>1. dmap' \in [Site -> 0..max] /\ cp_ima' \in [Site -> Sources \cup {Outside}]
    BY <1>1, <1>2
  <2> QED BY <1>10, <2>1 DEF FrontTyped, Then
<1>12. FrontTypes'
  <2>1. FrontTyped(Now)'
    BY <1>1, <1>11, FrontPrimes
  <2> QED BY <1>1, <1>2, <1>6, <2>1 DEF FrontTypes
<1>13. FrontStart'
  <2> SUFFICES ASSUME pc' = "init" PROVE FrontStart'
    BY DEF FrontStart
  <2>1. \A q \in Site : q < i' <=> Before(q)
    BY <1>4
  <2>2. \A q : D!InQueue(q)' <=> D!InQueue(q)
    BY <1>1, FrontPrimes
  <2>3. \A q : Has(bucket[0], q)' <=> Has(bucket'[0], q)
    BY DEF Has
  <2>4. \A x \in DOMAIN bucket'[0] : bucket'[0][x] < i'
    BY <1>10, <2>1
  <2>5. \A q \in Site : dmap'[q] = IF input'[q] /\ q < i' THEN 0 ELSE max'
    BY <1>1, <1>7, <2>1
  <2> QED BY <1>1, <1>8, <1>10, <2>1, <2>2, <2>3, <2>4, <2>5 DEF FrontStart
<1>14. ASSUME pc' # "init" PROVE FrontGoes' /\ FrontIsOver'
  <2>1. \A q \in Site : /\ dmap'[q] = IF input[q] THEN 0 ELSE max
                        /\ cp_ima'[q] = IF input[q] THEN q ELSE Outside
    BY <1>5, <1>7, <1>8, <1>14
  <2>2. Led(Then, 0)
    <3>1. \A q \in Site : ~ input[q] => ~ (dmap'[q] < max)
      BY <1>2, <2>1
    <3> QED BY <2>1, <3>1 DEF Led, Then
  <2>3. /\ 0 % mod = 0 /\ 0 \in 0..(mod - 1) /\ \A x \in 1..(mod - 1) : x % mod \in 1..(mod - 1)
    BY <1>3, OtherBuckets
  <2>4. Held(Then, 0)
    <3>1. ASSUME NEW x \in 0..(0 + mod - 1)
          PROVE  /\ \A y \in DOMAIN bucket'[x % mod] : dmap'[bucket'[x % mod][y]] <= x
                 /\ x >= max /\ x > 0 => bucket'[x % mod] = <<>>
      <4>1. CASE x = 0
        <5>1. \A y \in DOMAIN bucket'[0] : dmap'[bucket'[0][y]] = 0
          <6>1. \A q : D!InQueue(q) => input[q]
            BY DEF D!InQueue
          <6> QED BY <1>10, <2>1, <6>1
        <5> QED BY <2>3, <4>1, <5>1
      <4>2. CASE x # 0
        <5>1. x \in 1..(mod - 1)
          BY <1>3, <4>2
        <5>2. bucket'[x % mod] = <<>>
          BY <1>10, <2>3, <5>1
        <5>3. DOMAIN bucket'[x % mod] = {}
          BY <5>2
        <5> QED BY <5>2, <5>3
      <4> QED BY <4>1, <4>2
    <3>2. \A q \in Site : ~ (0 < dmap'[q] /\ dmap'[q] < max)
      BY <1>2, <2>1
    <3> QED BY <3>1, <3>2 DEF Held, Then
  <2>5. ASSUME NEW q \in Site, dmap'[q] < max PROVE Interior(q) \/ (Has(bucket'[0], q) /\ dmap'[q] = 0)
    <3>1. input[q] /\ dmap'[q] = 0
      BY <1>2, <2>1, <2>5
    <3> QED BY <1>5, <1>10, <1>14, <3>1 DEF Interior
  <2>6. \A q : Interior(q)' <=> Interior(q)
    BY <1>1, FrontPrimes
  <2>7. Led(Now, d)' /\ Held(Now, d)'
    BY <1>1, <1>2, <2>2, <2>4, FrontPrimes
  <2>8. CASE pc' = "browse"
    <3>1. \A q : Has(bucket'[0], q) => \E x \in 1..Len(bucket'[0]) : bucket'[0][x] = q
      <4>1. bucket'[0] \in Seq(Site)
        BY <1>3, <1>10 DEF Counted, Then, Cells
      <4>2. DOMAIN bucket'[0] = 1..Len(bucket'[0])
        BY <4>1
      <4> QED BY <4>2 DEF Has
    <3>2. d' = 0 /\ i' = 1 /\ d' % mod' = 0
      BY <1>1, <1>2, <1>5, <1>14, <2>3
    <3>3. \A q \in Site : Has(bucket'[0], q) /\ dmap'[q] = 0 => Awaits(q)'
      BY <3>1, <3>2 DEF Awaits
    <3>4. \A q \in Site : dmap'[q] < max' => Interior(q)' \/ Awaits(q)'
      BY <1>1, <2>5, <2>6, <3>3
    <3> QED BY <2>7, <2>8, <3>4 DEF FrontGoes, FrontIsOver
  <2>9. CASE pc' = "done"
    <3>1. \A b \in 0..(mod - 1) : bucket'[b] = <<>>
      <4>1. bucket' \in Cells /\ \E S : Sums(S, bucket') /\ S[mod - 1] = 0
        BY <1>6, <1>10, <2>9 DEF Counted, Then
      <4> QED BY <1>3, <4>1, NoneCounted
    <3>2. \A q : ~ Has(bucket'[0], q)
      <4>1. DOMAIN bucket'[0] = {}
        BY <1>3, <3>1
      <4> QED BY <4>1 DEF Has
    <3>3. \A q \in Site : dmap'[q] < max' => Interior(q)'
      BY <1>1, <2>5, <2>6, <3>2
    <3> QED BY <2>7, <2>9, <3>3 DEF FrontGoes, FrontIsOver
  <2> QED BY <1>6, <1>14, <2>8, <2>9
<1>15. pc' = "init" => FrontGoes' /\ FrontIsOver'
  BY DEF FrontGoes, FrontIsOver
<1> QED BY <1>12, <1>13, <1>14, <1>15 DEF DialInv

\* What a vector of the window makes of what was reached so far.
FrontOne(p, j, st) ==
    IF D!Improves(st.dmap, w_win.q[p][j], d + w_win.w[j])
      THEN [dmap |-> [st.dmap EXCEPT ![w_win.q[p][j]] = d + w_win.w[j]],
            cp_ima |-> [st.cp_ima EXCEPT ![w_win.q[p][j]] = st.cp_ima[p]],
            bucket |-> [st.bucket EXCEPT ![(d + w_win.w[j]) % mod] = Append(@, w_win.q[p][j])],
            size |-> st.size + 1]
      ELSE st

FrontLoop(g, p, m) == g = [j \in 0..m |-> IF j = 0 THEN Now ELSE FrontOne(p, j, g[j - 1])]

LEMMA FrontLoopExists ==
    ASSUME NEW p, NEW n \in Nat
    PROVE  \E g : FrontLoop(g, p, n)
<1> DEFINE Bad == {m \in 0..n : ~ \E g : FrontLoop(g, p, m)}
<1>1. SUFFICES ASSUME Bad # {} PROVE FALSE
  BY <1>1
<1>2. PICK m \in Bad : \A l \in Bad : m <= l
  <2>1. Bad \in SUBSET Nat
    OBVIOUS
  <2> HIDE DEF Bad
  <2> QED BY <1>1, <2>1, LeastNat
<1>3. m # 0
  <2>1. FrontLoop([j \in 0..0 |-> Now], p, 0)
    BY DEF FrontLoop
  <2> QED BY <2>1
<1>4. m \in 1..n /\ m - 1 \in 0..n /\ m - 1 \notin Bad
  BY <1>2, <1>3
<1>5. PICK g : FrontLoop(g, p, m - 1)
  BY <1>4
<1> DEFINE h == [j \in 0..m |-> IF j = m THEN FrontOne(p, m, g[m - 1]) ELSE g[j]]
<1>6. \A j \in 0..(m - 1) : g[j] = IF j = 0 THEN Now ELSE FrontOne(p, j, g[j - 1])
  BY <1>5 DEF FrontLoop
<1>7. ASSUME NEW j \in 0..m
      PROVE  h[j] = IF j = 0 THEN Now ELSE FrontOne(p, j, h[j - 1])
  <2>1. CASE j = m
    <3>1. h[j - 1] = g[m - 1] /\ h[j] = FrontOne(p, m, g[m - 1])
      BY <1>4, <2>1
    <3> QED BY <1>4, <2>1, <3>1
  <2>2. CASE j # m
    <3>1. j \in 0..(m - 1) /\ h[j] = g[j]
      BY <1>4, <2>2
    <3>2. j # 0 => h[j - 1] = g[j - 1]
      BY <1>4, <2>2
    <3> QED BY <1>6, <3>1, <3>2
  <2> QED BY <2>1, <2>2
<1>8. h = [j \in 0..m |-> IF j = 0 THEN Now ELSE FrontOne(p, j, h[j - 1])]
  <2>1. h = [j \in 0..m |-> h[j]]
    OBVIOUS
  <2> HIDE DEF h
  <2> QED BY <1>7, <2>1
<1>9. FrontLoop(h, p, m)
  <2> HIDE DEF h
  <2> QED BY <1>8 DEF FrontLoop
<1> QED BY <1>4, <1>9

\* What holds once m vectors were followed from p: nothing changed but beyond
\* the front, and the sites of these vectors got at most what p gives them.
FrontReached(st, p, m) ==
    /\ FrontTyped(st) /\ Led(st, d) /\ Held(st, d) /\ st.size # 0
    /\ \A q \in Site :
         /\ st.dmap[q] <= dmap[q]
         /\ dmap[q] <= d => st.dmap[q] = dmap[q]
         /\ dmap[q] > d => st.dmap[q] > d
    /\ \A x \in 1..m : w_win.q[p][x] = Outside \/ st.dmap[w_win.q[p][x]] <= d + w_win.w[x]
    /\ st.bucket[d % mod] = bucket[d % mod]

FrontReady(p) ==
    /\ input \in [Site -> BOOLEAN] /\ max \in Nat /\ w_win \in Windows /\ mod = Buckets(w_win) /\ d \in Nat
    /\ dmap \in [Site -> 0..max] /\ p \in Site /\ dmap[p] = d

LEMMA FrontOneSound ==
    ASSUME NEW p, FrontReady(p), NEW m \in 1..Len(w_win.w), NEW st, FrontReached(st, p, m - 1)
    PROVE  FrontReached(FrontOne(p, m, st), p, m)
<1> DEFINE q == w_win.q[p][m]
           w == w_win.w[m]
           z == d + w
           c == z % mod
           after == FrontOne(p, m, st)
<1>1. /\ mod \in Nat /\ mod >= 2 /\ mod \in Nat \ {0} /\ Len(w_win.w) \in Nat
      /\ w \in Nat /\ w >= 1 /\ w <= mod - 1 /\ q \in Site \cup {Outside}
      /\ \A j \in 1..Len(w_win.w) : w_win.w[j] \in Nat /\ \A r \in Site : w_win.q[r][j] \in Site \cup {Outside}
  BY WindowFacts DEF FrontReady
<1>2. /\ input \in [Site -> BOOLEAN] /\ max \in Nat /\ d \in Nat /\ p \in Site /\ dmap[p] = d
      /\ \A r \in Site : dmap[r] \in Nat
      /\ Outside \notin Site
  BY DEF FrontReady, Site, Outside
<1>3. z \in Nat /\ z > d /\ z <= d + mod - 1 /\ c \in 0..(mod - 1) /\ z \in d..(d + mod - 1)
  <2>1. z \in Nat /\ z > d /\ z <= d + mod - 1
    BY <1>1, <1>2
  <2> HIDE DEF z
  <2>2. z % mod \in 0..(mod - 1)
    BY <1>1, <2>1, Division
  <2>3. z \in d..(d + mod - 1)
    BY <1>1, <1>2, <2>1
  <2> QED BY <2>1, <2>2, <2>3
<1>4. /\ st.dmap \in [Site -> 0..max] /\ st.cp_ima \in [Site -> Sources \cup {Outside}]
      /\ Counted(st) /\ Led(st, d) /\ Held(st, d) /\ st.size # 0
      /\ \A r \in Site : /\ st.dmap[r] \in Nat /\ st.dmap[r] <= max
                         /\ st.dmap[r] <= dmap[r] /\ (dmap[r] <= d => st.dmap[r] = dmap[r])
                         /\ (dmap[r] > d => st.dmap[r] > d)
      /\ \A x \in 1..(m - 1) : w_win.q[p][x] = Outside \/ st.dmap[w_win.q[p][x]] <= d + w_win.w[x]
      /\ st.bucket[d % mod] = bucket[d % mod]
  BY <1>2 DEF FrontReached, FrontTyped
<1>5. \A x : x \in 1..m <=> x \in 1..(m - 1) \/ x = m
  BY <1>1
<1>6. CASE ~ D!Improves(st.dmap, q, z)
  <2>1. after = st
    BY <1>6 DEF FrontOne
  <2>2. q = Outside \/ st.dmap[q] <= z
    <3> HIDE DEF q, z
    <3>1. q = Outside \/ ~ (st.dmap[q] > d) \/ ~ (z < st.dmap[q])
      BY <1>6, FrontShare DEF D!Improves
    <3>2. q # Outside => st.dmap[q] \in Nat
      BY <1>1, <1>4
    <3> QED BY <1>2, <1>3, <3>1, <3>2
  <2> HIDE DEF after
  <2> QED BY <1>4, <1>5, <2>1, <2>2 DEF FrontReached, FrontTyped, after
<1>7. CASE D!Improves(st.dmap, q, z)
  <2>1. q \in Site /\ st.dmap[q] > d /\ z < st.dmap[q] /\ z < max /\ q # p /\ dmap[q] > d
    <3> HIDE DEF q, z
    <3>1. q # Outside /\ st.dmap[q] > d /\ z < st.dmap[q]
      BY <1>7, FrontShare DEF D!Improves
    <3>2. q \in Site
      BY <1>1, <3>1
    <3> QED BY <1>2, <1>3, <1>4, <3>1, <3>2
  <2>2. /\ after.dmap = [st.dmap EXCEPT ![q] = z]
        /\ after.cp_ima = [st.cp_ima EXCEPT ![q] = st.cp_ima[p]]
        /\ PushedIn(after, st, c, q)
    BY <1>7 DEF FrontOne, PushedIn
  <2> HIDE DEF after, q, z, w
  <2>3. /\ after.dmap[q] = z /\ after.cp_ima[q] = st.cp_ima[p]
        /\ \A r \in Site : r # q => after.dmap[r] = st.dmap[r] /\ after.cp_ima[r] = st.cp_ima[r]
        /\ \A r \in Site : after.dmap[r] <= st.dmap[r] /\ after.dmap[r] \in Nat
    BY <1>3, <1>4, <2>1, <2>2
  <2>4. ~ Has(st.bucket[c], q)
    <3>1. \A y \in DOMAIN st.bucket[c] : st.dmap[st.bucket[c][y]] <= z
      BY <1>3, <1>4 DEF Held
    <3>2. ~ (st.dmap[q] <= z)
      BY <1>3, <1>4, <2>1
    <3> QED BY <3>1, <3>2 DEF Has
  <2>10. c \in 0..(mod - 1) /\ c = z % mod
    BY <1>3
  <2> HIDE DEF c
  <2>5. /\ Counted(after) /\ after.size \in Nat /\ after.size # 0
        /\ \A b \in 0..(mod - 1) : b # c => after.bucket[b] = st.bucket[b]
        /\ Has(after.bucket[c], q)
        /\ \A x \in DOMAIN st.bucket[c] : x \in DOMAIN after.bucket[c] /\ after.bucket[c][x] = st.bucket[c][x]
        /\ \A x \in DOMAIN after.bucket[c] :
             \/ after.bucket[c][x] = q
             \/ x \in DOMAIN st.bucket[c] /\ after.bucket[c][x] = st.bucket[c][x]
    BY <1>1, <1>4, <2>1, <2>2, <2>4, <2>10, Appended
  <2>6. FrontTyped(after)
    <3>1. z \in 0..max
      BY <1>2, <1>3, <2>1
    <3>2. after.dmap \in [Site -> 0..max]
      BY <1>4, <2>2, <3>1
    <3>3. after.cp_ima \in [Site -> Sources \cup {Outside}]
      BY <1>2, <1>4, <2>2
    <3> QED BY <2>5, <3>2, <3>3 DEF FrontTyped
  <2>7. Led(after, d)
    <3>1. \A r \in Site : input[r] => r # q
      BY <1>2, <1>4, <2>1 DEF Led
    <3>2. ASSUME NEW r \in Site, ~ input[r], after.dmap[r] = max PROVE after.cp_ima[r] = Outside
      <4>1. r # q
        BY <1>2, <1>3, <2>1, <2>3, <3>2
      <4> QED BY <1>4, <2>3, <3>2, <4>1 DEF Led
    <3>3. ASSUME NEW r \in Site, ~ input[r], after.dmap[r] < max
          PROVE  \E s \in Site, j \in 1..Len(w_win.w) :
                    /\ w_win.q[s][j] = r /\ after.dmap[s] + w_win.w[j] = after.dmap[r]
                    /\ after.dmap[s] <= d /\ after.cp_ima[r] = after.cp_ima[s]
      <4>1. CASE r = q
        <5>1. after.dmap[p] = d /\ after.cp_ima[p] = st.cp_ima[p]
          BY <1>2, <1>4, <2>1, <2>3
        <5>2. w_win.q[p][m] = r /\ d + w_win.w[m] = after.dmap[r]
          BY <2>3, <4>1 DEF q, z, w
        <5>3. after.dmap[p] <= d /\ after.cp_ima[r] = after.cp_ima[p]
          BY <1>2, <2>3, <4>1, <5>1
        <5> QED BY <1>2, <5>1, <5>2, <5>3
      <4>2. CASE r # q
        <5>1. after.dmap[r] = st.dmap[r] /\ after.cp_ima[r] = st.cp_ima[r]
          BY <2>3, <4>2
        <5>2. PICK s \in Site, j \in 1..Len(w_win.w) :
                    /\ w_win.q[s][j] = r /\ st.dmap[s] + w_win.w[j] = st.dmap[r]
                    /\ st.dmap[s] <= d /\ st.cp_ima[r] = st.cp_ima[s]
          BY <1>4, <3>3, <5>1 DEF Led
        <5>3. s # q
          BY <1>2, <1>4, <2>1, <5>2
        <5>4. after.dmap[s] = st.dmap[s] /\ after.cp_ima[s] = st.cp_ima[s]
          BY <2>3, <5>3
        <5> QED BY <5>1, <5>2, <5>4
      <4> QED BY <4>1, <4>2
    <3> QED BY <1>4, <2>3, <3>1, <3>2, <3>3 DEF Led
  <2>8. Held(after, d)
    <3>1. ASSUME NEW x \in d..(d + mod - 1)
          PROVE  /\ \A y \in DOMAIN after.bucket[x % mod] : after.dmap[after.bucket[x % mod][y]] <= x
                 /\ x >= max /\ x > 0 => after.bucket[x % mod] = <<>>
      <4> DEFINE b == x % mod
      <4>1. x \in Nat /\ b \in 0..(mod - 1)
        <5>1. x \in Nat
          BY <1>1, <1>2
        <5> QED BY <1>1, <5>1, Division
      <4>2. /\ \A y \in DOMAIN st.bucket[b] : st.dmap[st.bucket[b][y]] <= x
            /\ x >= max /\ x > 0 => st.bucket[b] = <<>>
        BY <1>4 DEF Held
      <4>3. \A y \in DOMAIN st.bucket[b] : after.dmap[st.bucket[b][y]] <= x
        <5>1. \A y \in DOMAIN st.bucket[b] : st.bucket[b][y] \in Site
          <6>1. st.bucket[b] \in Seq(Site)
            BY <1>4, <4>1 DEF Counted, Cells
          <6> QED BY <6>1
        <5> HIDE DEF b
        <5> QED BY <1>4, <2>3, <4>1, <4>2, <5>1
      <4>4. CASE b # c
        <5>1. after.bucket[b] = st.bucket[b]
          BY <2>5, <4>1, <4>4
        <5> HIDE DEF b
        <5>2. \A y \in DOMAIN after.bucket[b] : after.dmap[after.bucket[b][y]] <= x
          BY <4>3, <5>1
        <5> QED BY <4>2, <5>1, <5>2 DEF b
      <4>5. CASE b = c
        <5>1. x - z < mod /\ z - x < mod
          BY <1>1, <1>2, <1>3
        <5>2. x = z
          BY <1>1, <1>3, <2>10, <4>1, <4>5, <5>1, SameBucket
        <5>3. ~ (x >= max)
          BY <1>2, <1>3, <2>1, <5>2
        <5>4. after.dmap[q] <= x
          BY <1>3, <2>3, <5>2
        <5> HIDE DEF b
        <5>5. \A y \in DOMAIN after.bucket[b] : after.dmap[after.bucket[b][y]] <= x
          BY <2>5, <4>3, <4>5, <5>4
        <5> QED BY <5>3, <5>5 DEF b
      <4> QED BY <4>4, <4>5
    <3>2. ASSUME NEW r \in Site, d < after.dmap[r], after.dmap[r] < max
          PROVE  Has(after.bucket[after.dmap[r] % mod], r)
      <4>1. CASE r = q
        BY <2>3, <2>5, <2>10, <4>1
      <4>2. CASE r # q
        <5> DEFINE b == st.dmap[r] % mod
        <5>1. after.dmap[r] = st.dmap[r] /\ st.dmap[r] \in Nat
          BY <1>4, <2>3, <4>2
        <5>2. b \in 0..(mod - 1)
          BY <1>1, <5>1, Division
        <5>3. Has(st.bucket[b], r)
          BY <1>4, <3>2, <5>1 DEF Held
        <5>4. after.dmap[r] % mod = b
          BY <5>1
        <5> HIDE DEF b
        <5>5. Has(after.bucket[b], r)
          <6>1. CASE b = c
            BY <2>5, <5>3, <6>1 DEF Has
          <6>2. CASE b # c
            BY <2>5, <5>2, <5>3, <6>2
          <6> QED BY <6>1, <6>2
        <5> QED BY <5>4, <5>5
      <4> QED BY <4>1, <4>2
    <3> QED BY <3>1, <3>2 DEF Held
  <2>9. after.bucket[d % mod] = bucket[d % mod]
    <3>1. d % mod \in 0..(mod - 1)
      BY <1>1, <1>2, Division
    <3>2. d % mod # c
      <4>1. ASSUME d % mod = z % mod PROVE FALSE
        <5>1. d - z < mod /\ z - d < mod
          BY <1>1, <1>2, <1>3
        <5>2. d = z
          BY <1>1, <1>2, <1>3, <4>1, <5>1, SameBucket
        <5> QED BY <1>2, <1>3, <5>2
      <4> QED BY <2>10, <4>1
    <3> QED BY <1>4, <2>5, <3>1, <3>2
  <2>11. ASSUME NEW r \in Site
         PROVE  /\ after.dmap[r] <= dmap[r] /\ (dmap[r] <= d => after.dmap[r] = dmap[r])
                /\ (dmap[r] > d => after.dmap[r] > d)
    <3>1. CASE r = q
      BY <1>2, <1>3, <1>4, <2>1, <2>3, <3>1
    <3>2. CASE r # q
      BY <1>4, <2>3, <3>2
    <3> QED BY <3>1, <3>2
  <2>12. ASSUME NEW x \in 1..m PROVE w_win.q[p][x] = Outside \/ after.dmap[w_win.q[p][x]] <= d + w_win.w[x]
    <3>1. CASE x = m
      BY <1>2, <1>3, <2>3, <3>1 DEF q, z, w
    <3>2. CASE x # m
      <4>1. w_win.q[p][x] = Outside \/ st.dmap[w_win.q[p][x]] <= d + w_win.w[x]
        BY <1>4, <1>5, <3>2
      <4>2. w_win.q[p][x] \in Site \cup {Outside} /\ w_win.w[x] \in Nat
        BY <1>1, <1>2
      <4>3. \A r \in Site : st.dmap[r] <= d + w_win.w[x] => after.dmap[r] <= d + w_win.w[x]
        BY SMTT(30), <1>2, <1>4, <2>3, <4>2
      <4> QED BY <4>1, <4>2, <4>3
    <3> QED BY <3>1, <3>2
  <2>13. FrontReached(after, p, m)
    BY <2>5, <2>6, <2>7, <2>8, <2>9, <2>11, <2>12 DEF FrontReached
  <2> QED BY <2>13 DEF after
<1> QED BY <1>6, <1>7

FrontChosen(p, j, st) == CHOOSE now \in {D!Reach(p, j, seen) : seen \in {st}} : TRUE

LEMMA FrontChosenIs == \A p, j, st : FrontChosen(p, j, st) = FrontOne(p, j, st)
<1> TAKE p, j, st
<1>1. D!Reach(p, j, st) = FrontOne(p, j, st)
  BY FrontShare DEF D!Reach, FrontOne, D!process
<1>2. {D!Reach(p, j, seen) : seen \in {st}} = {D!Reach(p, j, st)}
  OBVIOUS
<1>3. FrontChosen(p, j, st) \in {D!Reach(p, j, st)}
  BY <1>2 DEF FrontChosen
<1> QED BY <1>1, <1>3

LEMMA FrontReachSound ==
    ASSUME NEW p, FrontReady(p), FrontReached(Now, p, 0), NEW n, n = Len(w_win.w)
    PROVE  FrontReached(D!ReachUpTo(p, n), p, n)
<1> DEFINE Loop(g) == [j \in 0..n |-> IF j = 0 THEN Now ELSE FrontChosen(p, j, g[j - 1])]
           after == CHOOSE g : g = Loop(g)
<1>1. n \in Nat
  BY WindowFacts DEF FrontReady
<1>2. FrontLoop(after, p, n)
  <2>1. PICK g : FrontLoop(g, p, n)
    BY <1>1, FrontLoopExists
  <2>2. \A f : Loop(f) = [j \in 0..n |-> IF j = 0 THEN Now ELSE FrontOne(p, j, f[j - 1])]
    BY FrontChosenIs
  <2>3. g = Loop(g)
    BY <2>1, <2>2 DEF FrontLoop
  <2> HIDE DEF Loop
  <2>4. after = Loop(after)
    BY <2>3
  <2> QED BY <2>2, <2>4 DEF FrontLoop
<1>3. D!ReachUpTo(p, n) = after[n]
  BY FrontShare DEF D!ReachUpTo, FrontChosen, Now
<1> HIDE DEF Loop
<1> HIDE DEF after
<1>4. \A j \in 0..n : after[j] = IF j = 0 THEN Now ELSE FrontOne(p, j, after[j - 1])
  BY <1>2 DEF FrontLoop
<1> DEFINE Bad == {j \in 0..n : ~ FrontReached(after[j], p, j)}
<1>5. ASSUME Bad # {} PROVE FALSE
  <2>1. PICK m \in Bad : \A j \in Bad : m <= j
    <3>1. Bad \in SUBSET Nat
      BY <1>1
    <3> HIDE DEF Bad
    <3> QED BY <1>5, <3>1, LeastNat
  <2>2. m # 0
    BY <1>1, <1>4, <2>1
  <2>3. m \in 1..n /\ m - 1 \in 0..n /\ m - 1 \notin Bad
    BY <1>1, <2>1, <2>2
  <2>4. FrontReached(after[m - 1], p, m - 1)
    BY <2>3
  <2>5. FrontReached(FrontOne(p, m, after[m - 1]), p, m)
    BY <2>3, <2>4, FrontOneSound
  <2> QED BY <1>4, <2>1, <2>3, <2>5
<1> QED BY <1>1, <1>3, <1>5

LEMMA FrontProcessStep ==
    ASSUME DialInv, D!Process
    PROVE  DialInv'
<1> DEFINE p == bucket[d % mod][i]
           n == Len(w_win.w)
           st == D!ReachUpTo(p, n)
<1>1. /\ pc = "browse" /\ i <= Len(bucket[d % mod])
      /\ dmap[p] # max /\ dmap[p] \notin 0..(d - 1)
      /\ dmap' = st.dmap /\ cp_ima' = st.cp_ima /\ bucket' = st.bucket /\ bucket_size' = st.size
      /\ i' = i + 1
      /\ UNCHANGED <<input, max, w_win, mod, d, pc>>
  BY DEF D!Process, D!InBucket, D!bucket_d
<1>2. /\ FrontTypes /\ Led(Now, d) /\ Held(Now, d) /\ d \in Nat /\ i \in Nat \ {0} /\ bucket_size # 0
      /\ input \in [Site -> BOOLEAN] /\ max \in Nat /\ dmap \in [Site -> 0..max]
      /\ w_win \in Windows /\ mod = Buckets(w_win) /\ FrontTyped(Now) /\ Counted(Now) /\ bucket \in Cells
      /\ \A q \in Site : dmap[q] <= d /\ dmap[q] < max => Relaxed(Now, q) \/ Interior(q) \/ Awaits(q)
  BY <1>1 DEF DialInv, FrontTypes, FrontGoes, FrontTyped, Counted, Now
<1>3. /\ mod \in Nat /\ mod >= 2 /\ mod \in Nat \ {0}
      /\ \A j \in 1..n : w_win.w[j] \in Nat /\ \A r \in Site : w_win.q[r][j] \in Site \cup {Outside}
  BY <1>2, WindowFacts
<1>4. d % mod \in 0..(mod - 1)
  BY <1>2, <1>3, Division
<1>5. bucket[d % mod] \in Seq(Site)
  BY <1>2, <1>4 DEF Cells
<1>6. i \in DOMAIN bucket[d % mod] /\ p \in Site
  BY <1>1, <1>2, <1>5
<1>7. dmap[p] <= d
  <2>1. d \in d..(d + mod - 1)
    BY <1>2, <1>3
  <2> QED BY <1>2, <1>6, <2>1 DEF Held, Now
<1> HIDE DEF p, st, n
<1>8. dmap[p] = d /\ \A q \in Site : dmap[q] \in Nat
  BY <1>1, <1>2, <1>6, <1>7
<1>9. FrontReady(p)
  BY <1>2, <1>6, <1>8 DEF FrontReady
<1>10. FrontReached(Now, p, 0)
  <2>1. \A x \in 1..0 : FALSE
    OBVIOUS
  <2>2. \A q \in Site : dmap[q] <= dmap[q]
    BY <1>8
  <2>3. Now.dmap = dmap /\ Now.bucket = bucket /\ Now.size = bucket_size
    BY DEF Now
  <2> QED BY <1>2, <2>1, <2>2, <2>3 DEF FrontReached
<1>11. FrontReached(st, p, n)
  BY <1>9, <1>10, FrontReachSound DEF st, n
<1>12. /\ FrontTyped(Then) /\ Led(Then, d) /\ Held(Then, d) /\ bucket_size' # 0
       /\ \A q \in Site : /\ dmap'[q] <= dmap[q] /\ (dmap[q] <= d => dmap'[q] = dmap[q])
                          /\ (dmap[q] > d => dmap'[q] > d)
       /\ \A x \in 1..n : w_win.q[p][x] = Outside \/ dmap'[w_win.q[p][x]] <= d + w_win.w[x]
       /\ bucket'[d % mod] = bucket[d % mod]
  BY SMTT(30), <1>1, <1>11 DEF FrontReached, Then, FrontTyped, Counted, Led, Held
<1>13. \A q \in Site : dmap'[q] \in Nat
  BY <1>2, <1>12 DEF FrontTyped, Then
<1>14. FrontTypes'
  <2>1. FrontTyped(Now)'
    BY <1>1, <1>12, FrontPrimes
  <2> QED BY <1>1, <1>2, <1>12, <2>1 DEF FrontTypes
<1>15. ASSUME NEW q \in Site, dmap'[q] <= d, dmap'[q] < max
       PROVE  Relaxed(Then, q) \/ Interior(q) \/ Awaits(q)'
  <2>1. dmap[q] = dmap'[q] /\ dmap[q] <= d /\ dmap[q] < max
    BY <1>2, <1>8, <1>12, <1>13, <1>15
  <2>2. CASE q = p
    BY <1>8, <1>12, <2>1, <2>2 DEF Relaxed, Then, n
  <2>3. CASE Relaxed(Now, q)
    <3>1. ASSUME NEW j \in 1..Len(w_win.w), w_win.q[q][j] # Outside
          PROVE  dmap'[w_win.q[q][j]] <= dmap'[q] + w_win.w[j]
      <4>1. w_win.q[q][j] \in Site /\ w_win.w[j] \in Nat
        BY <1>3, <3>1 DEF n
      <4>2. dmap[w_win.q[q][j]] <= dmap[q] + w_win.w[j]
        BY <2>3, <3>1 DEF Relaxed, Now
      <4>3. dmap'[w_win.q[q][j]] <= dmap[w_win.q[q][j]]
        BY <1>12, <4>1
      <4> QED BY <1>8, <1>13, <2>1, <4>1, <4>2, <4>3
    <3> QED BY <3>1 DEF Relaxed, Then
  <2>4. CASE Awaits(q) /\ q # p
    <3>1. PICK x \in i..Len(bucket[d % mod]) : bucket[d % mod][x] = q
      BY <2>4 DEF Awaits
    <3>2. Len(bucket[d % mod]) \in Nat /\ x # i
      BY <1>5, <2>4, <3>1 DEF p
    <3>3. x \in (i + 1)..Len(bucket[d % mod])
      BY <1>2, <3>1, <3>2
    <3>4. dmap'[q] = d
      BY <2>1, <2>4 DEF Awaits
    <3> QED BY <1>1, <1>12, <3>1, <3>3, <3>4 DEF Awaits
  <2> QED BY <1>2, <2>1, <2>2, <2>3, <2>4
<1>16. FrontGoes'
  <2>1. Led(Now, d)' /\ Held(Now, d)'
    BY <1>1, <1>12, FrontPrimes
  <2>2. \A q \in Site : dmap'[q] <= d' /\ dmap'[q] < max' => Relaxed(Now, q)' \/ Interior(q)' \/ Awaits(q)'
    BY <1>1, <1>15, FrontPrimes
  <2> QED BY <2>1, <2>2 DEF FrontGoes
<1>17. FrontStart' /\ FrontIsOver'
  BY <1>1 DEF FrontStart, FrontIsOver
<1> QED BY <1>14, <1>16, <1>17 DEF DialInv

LEMMA FrontSkipStep ==
    ASSUME DialInv, D!SkipProcessed
    PROVE  DialInv'
<1>1. /\ pc = "browse" /\ i <= Len(bucket[d % mod]) /\ dmap[bucket[d % mod][i]] < d
      /\ i' = i + 1
      /\ UNCHANGED <<input, max, dmap, cp_ima, w_win, mod, bucket, bucket_size, d, pc>>
  BY DEF D!SkipProcessed, D!InBucket, D!bucket_d
<1>2. FrontTypes /\ FrontGoes /\ d \in Nat /\ i \in Nat \ {0} /\ bucket \in Cells
      /\ w_win \in Windows /\ mod = Buckets(w_win)
  BY DEF DialInv, FrontTypes, FrontTyped, Counted, Now
<1>3. Then = Now
  BY <1>1 DEF Then, Now
<1>4. FrontTypes'
  <2>1. FrontTyped(Now)'
    BY <1>1, <1>2, <1>3, FrontPrimes DEF FrontTypes
  <2> QED BY <1>1, <1>2, <2>1 DEF FrontTypes
<1>5. ASSUME NEW q \in Site, Awaits(q) PROVE Awaits(q)'
  <2>1. PICK x \in i..Len(bucket[d % mod]) : bucket[d % mod][x] = q /\ dmap[q] = d
    BY <1>5 DEF Awaits
  <2>2. x # i
    BY <1>1, <1>2, <2>1
  <2>3. Len(bucket[d % mod]) \in Nat
    <3>1. d % mod \in 0..(mod - 1)
      BY <1>2, WindowFacts, Division
    <3> QED BY <1>2, <3>1 DEF Cells
  <2>4. x \in (i + 1)..Len(bucket[d % mod])
    BY <1>2, <2>1, <2>2, <2>3
  <2> QED BY <1>1, <2>1, <2>4 DEF Awaits
<1>6. FrontGoes'
  <2>1. Led(Now, d)' /\ Held(Now, d)'
    BY <1>1, <1>2, <1>3, FrontPrimes DEF FrontGoes
  <2>2. \A q \in Site : dmap'[q] <= d' /\ dmap'[q] < max' => Relaxed(Now, q)' \/ Interior(q)' \/ Awaits(q)'
    BY <1>1, <1>2, <1>3, <1>5, FrontPrimes DEF FrontGoes
  <2> QED BY <2>1, <2>2 DEF FrontGoes
<1>7. FrontStart' /\ FrontIsOver'
  BY <1>1 DEF FrontStart, FrontIsOver
<1> QED BY <1>4, <1>6, <1>7 DEF DialInv

\* A bucket that was browsed is cleared.
ClearedIn(after, st, c) ==
    after.bucket = [st.bucket EXCEPT ![c] = <<>>] /\ after.size = st.size - Len(st.bucket[c])

LEMMA Cleared ==
    ASSUME mod \in Nat \ {0}, NEW st, Counted(st), NEW c \in 0..(mod - 1),
           NEW after, ClearedIn(after, st, c)
    PROVE  /\ Counted(after) /\ after.bucket[c] = <<>>
           /\ \A b \in 0..(mod - 1) : b # c => after.bucket[b] = st.bucket[b]
<1> DEFINE old == st.bucket
           t == <<>>
           cells == after.bucket
           n == after.size
<1>1. old \in Cells /\ OnceEach(old) /\ t \in Seq(Site) /\ Len(t) = 0
  BY DEF Counted
<1>2. PICK S : Sums(S, old) /\ st.size = S[mod - 1]
  BY DEF Counted
<1>3. Changed(cells, old, c, t) /\ n = st.size - Len(old[c])
  BY DEF Changed, ClearedIn
<1> HIDE DEF cells, n, old
<1>4. cells \in Cells /\ cells[c] = <<>> /\ \A b \in 0..(mod - 1) : b # c => cells[b] = old[b]
  BY <1>1, <1>3 DEF Cells, Changed
<1>5. OnceEach(cells)
  <2>1. \A x, y \in DOMAIN <<>> : x = y
    OBVIOUS
  <2> QED BY <1>1, <1>4, <2>1 DEF OnceEach
<1>6. Len(old[c]) \in Nat
  BY <1>1 DEF Cells
<1>7. S[mod - 1] \in Nat
  <2>1. mod - 1 \in -1..(mod - 1)
    OBVIOUS
  <2> QED BY <1>1, <1>2, <2>1, SumsAreNat
<1> HIDE DEF t
<1>8. n = S[mod - 1] + (Len(t) - Len(old[c]))
  BY <1>1, <1>2, <1>3, <1>6, <1>7
<1>9. \E R : Sums(R, cells) /\ R[mod - 1] = S[mod - 1] + (Len(t) - Len(old[c]))
  <2>1. t \in Seq(Site) /\ old \in Cells /\ Sums(S, old) /\ Changed(cells, old, c, t)
    BY <1>1, <1>2, <1>3
  <2> QED BY <2>1, SumsChange
<1>10. Counted(after)
  BY <1>4, <1>5, <1>8, <1>9 DEF Counted, cells, n
<1> QED BY <1>4, <1>10 DEF old, cells

\* What is below max is not beyond the buckets.
LEMMA NearFront ==
    ASSUME w_win \in Windows, mod = Buckets(w_win), max \in Nat, d \in Nat, input \in [Site -> BOOLEAN],
           dmap \in [Site -> 0..max], Led(Now, d), NEW q \in Site, dmap[q] < max
    PROVE  dmap[q] <= d + mod - 1
<1>1. /\ mod \in Nat /\ mod >= 2
      /\ \A j \in 1..Len(w_win.w) : w_win.w[j] \in Nat /\ w_win.w[j] <= mod - 1
  BY WindowFacts
<1>2. CASE input[q]
  <2>1. dmap[q] = 0
    BY <1>2 DEF Led, Now
  <2> QED BY <1>1, <2>1
<1>3. CASE ~ input[q]
  <2>1. PICK r \in Site, j \in 1..Len(w_win.w) : dmap[r] + w_win.w[j] = dmap[q] /\ dmap[r] <= d
    BY <1>3 DEF Led, Now
  <2>2. dmap[r] \in Nat /\ dmap[q] \in Nat
    OBVIOUS
  <2> QED BY <1>1, <2>1, <2>2
<1> QED BY <1>2, <1>3

\* While entries are left the front is below max.
LEMMA FrontBelowMax ==
    ASSUME mod \in Nat \ {0}, max \in Nat, NEW st, Counted(st), NEW c \in Nat, Held(st, c),
           c > 0, c >= max
    PROVE  st.size = 0
<1>1. ASSUME NEW b \in 0..(mod - 1) PROVE st.bucket[b] = <<>>
  <2>1. PICK x \in c..(c + mod - 1) : x % mod = b
    BY BucketServes
  <2>2. x >= max /\ x > 0
    BY <2>1
  <2> QED BY <2>1, <2>2 DEF Held
<1>2. PICK S : Sums(S, st.bucket) /\ st.size = S[mod - 1]
  BY DEF Counted
<1> DEFINE cells == st.bucket
<1>3. Sums(S, cells) /\ \A b \in 0..(mod - 1) : cells[b] = <<>>
  BY <1>1, <1>2
<1> HIDE DEF cells
<1>4. S[mod - 1] = 0
  BY <1>3, SumsOfEmpty
<1> QED BY <1>2, <1>4

LEMMA FrontNextStep ==
    ASSUME DialInv, D!NextBucket
    PROVE  DialInv'
<1> DEFINE c == d % mod
           e == d + 1
<1>1. /\ pc = "browse" /\ i > Len(bucket[c])
      /\ bucket_size' = bucket_size - Len(bucket[c]) /\ bucket' = [bucket EXCEPT ![c] = <<>>]
      /\ d' = e /\ i' = 1 /\ pc' = IF bucket_size' = 0 THEN "done" ELSE "browse"
      /\ UNCHANGED <<input, max, dmap, cp_ima, w_win, mod>>
  BY DEF D!NextBucket, D!bucket_d, D!Loop
<1>2. /\ FrontTypes /\ Led(Now, d) /\ Held(Now, d) /\ d \in Nat /\ i \in Nat \ {0} /\ d <= max
      /\ input \in [Site -> BOOLEAN] /\ max \in Nat /\ dmap \in [Site -> 0..max]
      /\ cp_ima \in [Site -> Sources \cup {Outside}]
      /\ w_win \in Windows /\ mod = Buckets(w_win) /\ Counted(Now) /\ bucket \in Cells
      /\ \A q \in Site : dmap[q] <= d /\ dmap[q] < max => Relaxed(Now, q) \/ Interior(q) \/ Awaits(q)
  BY <1>1 DEF DialInv, FrontTypes, FrontGoes, FrontTyped, Counted, Now
<1>3. /\ mod \in Nat /\ mod >= 2 /\ mod \in Nat \ {0}
  BY <1>2, WindowFacts
<1>4. c \in 0..(mod - 1) /\ c = d % mod /\ e = d + 1 /\ e \in Nat
  BY <1>2, <1>3, Division
<1> HIDE DEF c, e
<1>5. Len(bucket[c]) \in Nat
  BY <1>2, <1>4 DEF Cells
<1>6. /\ Counted(Then) /\ bucket'[c] = <<>> /\ \A b \in 0..(mod - 1) : b # c => bucket'[b] = bucket[b]
  <2> DEFINE st == Now
             after == Then
  <2>1. ClearedIn(after, st, c) /\ Counted(st) /\ st.bucket = bucket /\ after.bucket = bucket'
    BY <1>1, <1>2 DEF Now, Then, ClearedIn
  <2> HIDE DEF st, after
  <2>2. /\ Counted(after) /\ after.bucket[c] = <<>>
        /\ \A b \in 0..(mod - 1) : b # c => after.bucket[b] = st.bucket[b]
    BY <1>3, <1>4, <2>1, Cleared
  <2> QED BY <2>1, <2>2 DEF after
<1>7. \A q \in Site : dmap[q] \in Nat
  BY <1>2
<1>8. ASSUME NEW q \in Site, d < dmap[q], dmap[q] < max
      PROVE  dmap[q] % mod \in 0..(mod - 1) /\ Has(bucket'[dmap[q] % mod], q)
  <2>1. dmap[q] <= d + mod - 1
    BY <1>2, <1>8, NearFront
  <2>2. dmap[q] % mod \in 0..(mod - 1)
    BY <1>3, <1>7, Division
  <2>3. dmap[q] % mod # c
    <3>1. ASSUME dmap[q] % mod = d % mod PROVE FALSE
      <4>1. dmap[q] - d < mod /\ d - dmap[q] < mod
        BY <1>2, <1>3, <1>7, <1>8, <2>1
      <4>2. dmap[q] = d
        BY <1>2, <1>3, <1>7, <3>1, <4>1, SameBucket
      <4> QED BY <1>2, <1>8, <4>2
    <3> QED BY <1>4, <3>1
  <2>4. Has(bucket[dmap[q] % mod], q)
    BY <1>2, <1>8 DEF Held, Now
  <2> QED BY <1>6, <2>2, <2>3, <2>4
<1>9. Held(Then, e)
  <2>1. ASSUME NEW x \in e..(e + mod - 1)
        PROVE  /\ \A y \in DOMAIN bucket'[x % mod] : dmap'[bucket'[x % mod][y]] <= x
               /\ x >= max /\ x > 0 => bucket'[x % mod] = <<>>
    <3> DEFINE b == x % mod
    <3>1. x \in Nat
      BY <1>3, <1>4
    <3>2. b \in 0..(mod - 1)
      BY <1>3, <3>1, Division
    <3>3. CASE b = c
      <4>1. bucket'[b] = <<>>
        BY <1>6, <3>3
      <4>2. DOMAIN bucket'[b] = {}
        BY <4>1
      <4> QED BY <4>1, <4>2
    <3>4. CASE b # c
      <4>1. x # d + mod
        BY <1>2, <1>3, <1>4, <3>4, NextInBucket
      <4>2. x \in d..(d + mod - 1)
        BY <1>2, <1>3, <1>4, <4>1
      <4>3. bucket'[b] = bucket[b]
        BY <1>6, <3>2, <3>4
      <4>4. /\ \A y \in DOMAIN bucket[b] : dmap[bucket[b][y]] <= x
            /\ x >= max /\ x > 0 => bucket[b] = <<>>
        BY <1>2, <4>2 DEF Held, Now
      <4> HIDE DEF b
      <4> QED BY <1>1, <4>3, <4>4 DEF b
    <3> QED BY <3>3, <3>4
  <2>2. \A q \in Site : e < dmap[q] => d < dmap[q]
    BY <1>2, <1>4, <1>7
  <2> QED BY <1>1, <1>8, <2>1, <2>2 DEF Held, Then
<1>10. Led(Then, e)
  <2>1. \A r \in Site : dmap[r] <= d => dmap[r] <= e
    BY <1>2, <1>4, <1>7
  <2>2. ASSUME NEW q \in Site, ~ input[q], dmap[q] < max
        PROVE  \E r \in Site, j \in 1..Len(w_win.w) :
                  /\ w_win.q[r][j] = q /\ dmap[r] + w_win.w[j] = dmap[q]
                  /\ dmap[r] <= e /\ cp_ima[q] = cp_ima[r]
    <3>1. PICK r \in Site, j \in 1..Len(w_win.w) :
                  /\ w_win.q[r][j] = q /\ dmap[r] + w_win.w[j] = dmap[q]
                  /\ dmap[r] <= d /\ cp_ima[q] = cp_ima[r]
      <4> DEFINE st == Now
      <4>1. Led(st, d) /\ st.dmap = dmap /\ st.cp_ima = cp_ima
        BY <1>2 DEF Now
      <4> HIDE DEF st
      <4>2. \E r \in Site, j \in 1..Len(w_win.w) :
                  /\ w_win.q[r][j] = q /\ st.dmap[r] + w_win.w[j] = st.dmap[q]
                  /\ st.dmap[r] <= d /\ st.cp_ima[q] = st.cp_ima[r]
        BY <2>2, <4>1 DEF Led
      <4> QED BY <4>1, <4>2
    <3> QED BY <2>1, <3>1
  <2> QED BY <1>1, <1>2, <2>2 DEF Led, Now, Then
<1>11. \A q \in Site : ~ Awaits(q)
  <2>1. ASSUME NEW x \in i..Len(bucket[c]) PROVE FALSE
    BY <1>1, <1>2, <1>5
  <2> QED BY <1>4, <2>1 DEF Awaits
<1>12. ASSUME NEW q \in Site, dmap[q] <= d, dmap[q] < max PROVE Relaxed(Then, q) \/ Interior(q)
  <2>1. Relaxed(Now, q) => Relaxed(Then, q)
    BY <1>1 DEF Relaxed, Now, Then
  <2> QED BY <1>2, <1>11, <1>12, <2>1
<1>13. FrontTyped(Then)
  BY <1>1, <1>2, <1>6 DEF FrontTyped, Then
<1>14. pc' = "browse" => bucket_size' # 0 /\ d' <= max
  <2>1. CASE e >= max
    <3> DEFINE st == Then
    <3>1. Counted(st) /\ Held(st, e) /\ e > 0 /\ e \in Nat /\ st.size = bucket_size'
      BY <1>2, <1>4, <1>6, <1>9 DEF Then
    <3> HIDE DEF st
    <3>2. bucket_size' = 0
      BY <1>2, <1>3, <2>1, <3>1, FrontBelowMax
    <3> QED BY <1>1, <3>2
  <2>2. CASE ~ (e >= max)
    BY <1>1, <1>2, <1>4, <2>2
  <2> QED BY <2>1, <2>2
<1>15. FrontTypes'
  <2>1. FrontTyped(Now)'
    BY <1>1, <1>13, FrontPrimes
  <2>2. d' <= max + 1 /\ d' \in Nat /\ pc' \in {"browse", "done"}
    BY <1>1, <1>2, <1>4
  <2> QED BY <1>1, <1>2, <1>14, <2>1, <2>2 DEF FrontTypes
<1>16. Led(Now, d)' /\ Held(Now, d)'
  BY <1>1, <1>9, <1>10, FrontPrimes
<1>17. FrontGoes'
  <2> SUFFICES ASSUME pc' = "browse" PROVE FrontGoes'
    BY DEF FrontGoes
  <2>1. ASSUME NEW q \in Site, dmap[q] <= e, dmap[q] < max
        PROVE  Relaxed(Then, q) \/ Interior(q) \/ Awaits(q)'
    <3>1. CASE dmap[q] <= d
      BY <1>12, <2>1, <3>1
    <3>2. CASE ~ (dmap[q] <= d)
      <4>1. dmap[q] = e /\ d < dmap[q]
        BY <1>2, <1>4, <1>7, <2>1, <3>2
      <4> DEFINE b == dmap[q] % mod
      <4>2. b \in 0..(mod - 1) /\ Has(bucket'[b], q)
        BY <1>8, <2>1, <4>1
      <4>3. b = d' % mod'
        BY <1>1, <4>1
      <4> HIDE DEF b
      <4>4. DOMAIN bucket'[b] = 1..Len(bucket'[b])
        <5>1. bucket'[b] \in Seq(Site)
          BY <1>6, <4>2 DEF Counted, Then, Cells
        <5> QED BY <5>1
      <4> QED BY <1>1, <4>1, <4>2, <4>3, <4>4 DEF Awaits, Has
    <3> QED BY <3>1, <3>2
  <2>2. \A q \in Site : dmap'[q] <= d' /\ dmap'[q] < max' => Relaxed(Now, q)' \/ Interior(q)' \/ Awaits(q)'
    BY <1>1, <2>1, FrontPrimes
  <2> QED BY <1>16, <2>2 DEF FrontGoes
<1>18. FrontIsOver'
  <2> SUFFICES ASSUME pc' = "done" PROVE FrontIsOver'
    BY DEF FrontIsOver
  <2>1. \A b \in 0..(mod - 1) : bucket'[b] = <<>>
    <3>1. bucket_size' = 0
      BY <1>1
    <3>2. bucket' \in Cells /\ \E S : Sums(S, bucket') /\ S[mod - 1] = 0
      BY <1>6, <3>1 DEF Counted, Then
    <3> QED BY <1>3, <3>2, NoneCounted
  <2>2. ASSUME NEW q \in Site, dmap[q] < max PROVE Relaxed(Then, q) \/ Interior(q)
    <3>1. ASSUME d < dmap[q] PROVE FALSE
      <4>1. DOMAIN bucket'[dmap[q] % mod] = {}
        BY <1>8, <2>1, <2>2, <3>1
      <4> QED BY <1>8, <2>2, <3>1, <4>1 DEF Has
    <3>2. dmap[q] <= d
      BY <1>2, <1>7, <3>1
    <3> QED BY <1>12, <2>2, <3>2
  <2>3. \A q \in Site : dmap'[q] < max' => Relaxed(Now, q)' \/ Interior(q)'
    BY <1>1, <2>2, FrontPrimes
  <2> QED BY <1>16, <2>3 DEF FrontIsOver
<1>19. FrontStart'
  BY <1>1 DEF FrontStart
<1> QED BY <1>15, <1>17, <1>18, <1>19 DEF DialInv

\* Nothing but max itself is met at max, when max is 0.
LEMMA FrontSaturateStep ==
    ASSUME DialInv, D!Saturate
    PROVE  DialInv'
<1> DEFINE c == d % mod
           p == bucket[c][i]
<1>1. /\ pc = "browse" /\ i <= Len(bucket[c]) /\ dmap[p] = max
      /\ bucket' = [bucket EXCEPT ![c] = <<>>] /\ bucket_size' = 0
      /\ d' = d + 1 /\ i' = 1 /\ pc' = "done"
      /\ UNCHANGED <<input, max, dmap, cp_ima, w_win, mod>>
  BY DEF D!Saturate, D!InBucket, D!bucket_d
<1>2. /\ FrontTypes /\ Led(Now, d) /\ Held(Now, d) /\ d \in Nat /\ i \in Nat \ {0} /\ d <= max
      /\ input \in [Site -> BOOLEAN] /\ max \in Nat /\ dmap \in [Site -> 0..max]
      /\ cp_ima \in [Site -> Sources \cup {Outside}]
      /\ w_win \in Windows /\ mod = Buckets(w_win) /\ Counted(Now) /\ bucket \in Cells /\ OnceEach(bucket)
  BY <1>1 DEF DialInv, FrontTypes, FrontGoes, FrontTyped, Counted, Now
<1>3. /\ mod \in Nat /\ mod >= 2 /\ mod \in Nat \ {0}
  BY <1>2, WindowFacts
<1>4. c \in 0..(mod - 1) /\ c = d % mod
  BY <1>2, <1>3, Division
<1> HIDE DEF c
<1>5. bucket[c] \in Seq(Site) /\ i \in DOMAIN bucket[c] /\ bucket[c] # <<>>
  <2>1. bucket[c] \in Seq(Site)
    BY <1>2, <1>4 DEF Cells
  <2>2. i \in DOMAIN bucket[c]
    BY <1>1, <1>2, <2>1
  <2> QED BY <2>1, <2>2
<1>6. max = 0 /\ d = 0
  <2>1. d \in d..(d + mod - 1)
    BY <1>2, <1>3
  <2>2. /\ \A y \in DOMAIN bucket[c] : dmap[bucket[c][y]] <= d
        /\ d >= max /\ d > 0 => bucket[c] = <<>>
    BY <1>2, <1>4, <2>1 DEF Held, Now
  <2> HIDE DEF p
  <2>3. dmap[p] <= d
    BY <1>5, <2>2 DEF p
  <2> QED BY <1>1, <1>2, <1>5, <2>2, <2>3
<1>7. 0 % mod = 0 /\ \A x \in 1..(mod - 1) : x % mod \in 1..(mod - 1)
  BY <1>3, OtherBuckets
<1>8. c = 0
  BY <1>4, <1>6, <1>7
<1>9. ASSUME NEW b \in 0..(mod - 1), b # 0 PROVE bucket[b] = <<>>
  <2>1. 0 \in Nat
    OBVIOUS
  <2>2. PICK x \in 0..(0 + mod - 1) : x % mod = b
    BY <1>3, <2>1, BucketServes
  <2>3. x # 0 /\ x \in d..(d + mod - 1) /\ x >= max /\ x > 0
    BY <1>3, <1>6, <1>7, <1>9, <2>2
  <2>4. x >= max /\ x > 0 => bucket[x % mod] = <<>>
    BY <1>2, <2>3 DEF Held, Now
  <2> QED BY <2>2, <2>3, <2>4
<1>10. bucket' \in Cells /\ \A b \in 0..(mod - 1) : bucket'[b] = <<>>
  <2>1. <<>> \in Seq(Site)
    OBVIOUS
  <2> QED BY <1>1, <1>2, <1>4, <1>8, <1>9, <2>1 DEF Cells
<1>11. Counted(Then)
  <2> DEFINE st == Now
             after == [bucket |-> bucket', size |-> st.size - Len(st.bucket[c])]
  <2>1. ClearedIn(after, st, c) /\ Counted(st) /\ after.bucket = bucket'
    BY <1>1, <1>2 DEF Now, ClearedIn
  <2> HIDE DEF st, after
  <2>2. Counted(after)
    BY <1>3, <1>4, <2>1, Cleared
  <2>3. PICK S : Sums(S, bucket')
    BY <2>1, <2>2 DEF Counted
  <2>4. S[mod - 1] = 0
    <3> DEFINE cells == bucket'
    <3>1. Sums(S, cells) /\ \A b \in 0..(mod - 1) : cells[b] = <<>>
      BY <1>10, <2>3
    <3> HIDE DEF cells
    <3> QED BY <1>3, <3>1, SumsOfEmpty
  <2>5. OnceEach(bucket')
    <3>1. \A x, y \in DOMAIN <<>> : x = y
      OBVIOUS
    <3> QED BY <1>10, <3>1 DEF OnceEach
  <2> QED BY <1>1, <1>10, <2>3, <2>4, <2>5 DEF Counted, Then
<1>12. FrontTypes'
  <2>1. FrontTyped(Then)
    BY <1>1, <1>2, <1>11 DEF FrontTyped, Then
  <2>2. FrontTyped(Now)'
    BY <1>1, <2>1, FrontPrimes
  <2> QED BY <1>1, <1>2, <1>6, <2>2 DEF FrontTypes
<1>13. \A q \in Site : ~ (dmap[q] < max) /\ dmap[q] = max
  BY <1>2, <1>6
<1>14. FrontIsOver'
  <2>1. Led(Then, 1)
    BY <1>1, <1>2, <1>13 DEF Led, Now, Then
  <2>2. Led(Now, d)'
    BY <1>1, <1>6, <2>1, FrontPrimes
  <2> QED BY <1>1, <1>13, <2>2 DEF FrontIsOver
<1>15. FrontStart' /\ FrontGoes'
  BY <1>1 DEF FrontStart, FrontGoes
<1> QED BY <1>12, <1>14, <1>15 DEF DialInv

LEMMA DialStep == DialInv /\ [D!Next]_D!vars => DialInv'
<1> SUFFICES ASSUME DialInv, [D!Next]_D!vars PROVE DialInv'
  OBVIOUS
<1>1. CASE UNCHANGED D!vars
  <2>1. UNCHANGED <<input, max, dmap, cp_ima, w_win, mod, bucket, bucket_size, d, i, pc>>
    BY <1>1 DEF D!vars
  <2>2. Then = Now
    BY <2>1 DEF Then, Now
  <2>3. /\ FrontTyped(Now)' <=> FrontTyped(Now)
        /\ Led(Now, d)' <=> Led(Now, d)
        /\ Held(Now, d)' <=> Held(Now, d)
        /\ \A q : Relaxed(Now, q)' <=> Relaxed(Now, q)
        /\ \A q : Interior(q)' <=> Interior(q)
        /\ \A q : D!InQueue(q)' <=> D!InQueue(q)
    BY <2>1, <2>2, FrontPrimes
  <2>4. \A q : (Awaits(q)' <=> Awaits(q)) /\ (Has(bucket[0], q)' <=> Has(bucket[0], q))
    BY <2>1 DEF Awaits, Has
  <2>5. FrontTypes'
    BY <2>1, <2>3 DEF DialInv, FrontTypes
  <2>6. FrontStart'
    BY <2>1, <2>3, <2>4 DEF DialInv, FrontStart
  <2>7. FrontGoes' /\ FrontIsOver'
    BY <2>1, <2>3, <2>4 DEF DialInv, FrontGoes, FrontIsOver
  <2> QED BY <2>5, <2>6, <2>7 DEF DialInv
<1>2. CASE D!Next
  BY <1>2, FrontInitStep, FrontSkipStep, FrontProcessStep, FrontSaturateStep, FrontNextStep DEF D!Next
<1> QED BY <1>1, <1>2

\* The maps, the buckets and their count have their types.
LEMMA DialTyped == DialInv => D!TypeOK
<1> SUFFICES ASSUME DialInv PROVE D!TypeOK
  OBVIOUS
<1>1. /\ FrontTypes /\ FrontTyped(Now) /\ Counted(Now) /\ w_win \in Windows /\ mod = Buckets(w_win)
      /\ bucket \in Cells /\ OnceEach(bucket) /\ max \in Nat /\ d \in Nat /\ d <= max + 1
  BY DEF DialInv, FrontTypes, FrontTyped, Counted, Now
<1>2. mod \in Nat \ {0}
  BY <1>1, WindowFacts
<1>3. bucket_size \in 0..(N * mod)
  <2>1. PICK S : Sums(S, bucket) /\ bucket_size = S[mod - 1]
    BY <1>1 DEF Counted, Now
  <2> QED BY <1>1, <1>2, <2>1, SumsFit
<1>4. D!MapsTypeOK
  BY <1>1, FrontShare DEF FrontTypes, FrontTyped, Now, Sources, D!MapsTypeOK
<1>5. mod = 1 + CHOOSE x \in D!Weights : \A y \in D!Weights : y <= x
  BY <1>1 DEF Buckets, D!Weights
<1>6. DOMAIN bucket = 0..(mod - 1) /\ \A b \in DOMAIN bucket : bucket[b] \in Seq(D!Site)
  BY <1>1, FrontShare DEF Cells
<1>7. d \in 0..(max + 1)
  BY <1>1
<1>8. i \in Nat /\ pc \in {"init", "browse", "done"}
  BY <1>1 DEF FrontTypes
<1> QED BY <1>1, <1>3, <1>4, <1>5, <1>6, <1>7, <1>8 DEF D!TypeOK

\* The buckets hold the front, each site once in a bucket.
LEMMA DialHolds == DialInv => D!BucketsHoldFront
<1> SUFFICES ASSUME DialInv, pc = "browse" PROVE D!BucketsHoldFront
  BY DEF D!BucketsHoldFront
<1>1. /\ FrontTypes /\ Counted(Now) /\ w_win \in Windows /\ mod = Buckets(w_win)
      /\ bucket \in Cells /\ OnceEach(bucket) /\ max \in Nat /\ d \in Nat
      /\ input \in [Site -> BOOLEAN] /\ dmap \in [Site -> 0..max]
      /\ Led(Now, d) /\ Held(Now, d)
  BY DEF DialInv, FrontTypes, FrontTyped, Counted, Now, FrontGoes
<1>2. mod \in Nat \ {0}
  BY <1>1, WindowFacts
<1>3. bucket_size = D!Total[mod - 1]
  <2>1. PICK S : Sums(S, bucket) /\ bucket_size = S[mod - 1]
    BY <1>1 DEF Counted, Now
  <2> DEFINE R == CHOOSE g : Sums(g, bucket)
  <2>2. D!Total = R
    BY DEF D!Total, Sums
  <2>3. Sums(R, bucket)
    BY <2>1
  <2> HIDE DEF R
  <2>4. S[mod - 1] = R[mod - 1]
    BY <1>2, <2>1, <2>3, SumsUnique
  <2> QED BY <2>1, <2>2, <2>4
<1>4. \A x \in d..(d + mod - 1) : \A j \in DOMAIN bucket[x % mod] : dmap[bucket[x % mod][j]] <= x
  BY <1>1 DEF Held, Now
<1>5. \A b \in DOMAIN bucket : \A j, y \in DOMAIN bucket[b] : bucket[b][j] = bucket[b][y] => j = y
  BY <1>1 DEF OnceEach, Cells
<1>6. ASSUME NEW q \in Site, d < dmap[q], dmap[q] < max
      PROVE  /\ dmap[q] < d + mod
             /\ \E j \in DOMAIN bucket[dmap[q] % mod] : bucket[dmap[q] % mod][j] = q
  <2>1. dmap[q] <= d + mod - 1 /\ dmap[q] \in Nat
    BY <1>1, <1>6, NearFront
  <2>2. dmap[q] < d + mod
    BY <1>1, <1>2, <2>1
  <2>3. Has(bucket[dmap[q] % mod], q)
    BY <1>1, <1>6 DEF Held, Now
  <2> QED BY <2>2, <2>3 DEF Has
<1> QED BY <1>3, <1>4, <1>5, <1>6, FrontShare DEF D!BucketsHoldFront

LEMMA EdgesOfWindow ==
    ASSUME w_win \in Windows, mod = Buckets(w_win), NEW e
    PROVE  e \in D!Edges <=>
             \E p \in Site, j \in 1..Len(w_win.w) :
                /\ w_win.q[p][j] # Outside
                /\ e = [from |-> p, to |-> w_win.q[p][j], w |-> w_win.w[j]]
<1>1. DOMAIN w_win.w = 1..Len(w_win.w)
  BY WindowFacts
<1> QED BY <1>1, FrontShare DEF D!Edges

\* What a site inside an object could give, a site of its border gives.
LEMMA InsideIsCovered ==
    ASSUME DialInv, pc = "done", NEW p \in Site, NEW j \in 1..Len(w_win.w), NEW q \in Site,
           w_win.q[p][j] = q, ~ input[q], dmap[p] < max
    PROVE  dmap[q] <= dmap[p] + w_win.w[j]
<1>1. /\ w_win \in Windows /\ mod = Buckets(w_win) /\ max \in Nat
      /\ input \in [Site -> BOOLEAN] /\ dmap \in [Site -> 0..max]
      /\ Led(Now, d) /\ \A r \in Site : dmap[r] < max => Relaxed(Now, r) \/ Interior(r)
  BY DEF DialInv, FrontTypes, FrontTyped, FrontIsOver, Now
<1>2. DOMAIN w_win.w = 1..Len(w_win.w) /\ \A l \in 1..Len(w_win.w) : w_win.w[l] \in Nat
  BY <1>1, WindowFacts
<1>3. \A r \in Site : dmap[r] \in Nat /\ (input[r] => dmap[r] = 0)
  BY <1>1 DEF Led, Now
<1>4. q # Outside
  BY DEF Site, Outside
<1>5. CASE Relaxed(Now, p)
  BY <1>4, <1>5 DEF Relaxed, Now
<1>6. CASE Interior(p)
  <2>1. input[p] /\ dmap[p] = 0 /\ \A r \in Neighbours[p] : input[r] /\ r \in Site
    BY <1>3, <1>6, FrontShare DEF Interior, D!InQueue, Neighbours
  <2>2. q \notin Neighbours[p] \cup {p, Outside}
    BY <1>4, <2>1
  <2>3. D!FollowsNbh(w_win)
    BY <1>1, FrontsAssumption
  <2>4. PICK r \in Neighbours[p], l \in 1..Len(w_win.w) :
             q \in Neighbours[r] /\ w_win.q[r][l] = q /\ w_win.w[l] <= w_win.w[j]
    BY <1>2, <2>2, <2>3, FrontShare DEF D!FollowsNbh
  <2>5. r \in Site /\ input[r] /\ dmap[r] = 0 /\ dmap[r] < max
    BY <1>3, <2>1
  <2>6. ~ Interior(r)
    BY <2>4, <2>5, FrontShare DEF Interior, D!InQueue
  <2>7. Relaxed(Now, r)
    BY <1>1, <2>5, <2>6
  <2>8. dmap[q] <= dmap[r] + w_win.w[l]
    BY <1>4, <2>4, <2>7 DEF Relaxed, Now
  <2> QED BY <1>2, <1>3, <2>1, <2>4, <2>5, <2>8
<1> QED BY <1>1, <1>5, <1>6

\* The distances of the thick front are the shortest ones.
LEMMA DialShortest == DialInv => D!DistancesAreShortest
<1> SUFFICES ASSUME DialInv, pc = "done" PROVE D!DistancesAreShortest
  BY DEF D!DistancesAreShortest
<1>1. /\ w_win \in Windows /\ mod = Buckets(w_win) /\ max \in Nat
      /\ input \in [Site -> BOOLEAN] /\ dmap \in [Site -> 0..max] /\ Led(Now, d)
  BY DEF DialInv, FrontTypes, FrontTyped, FrontIsOver, Now
<1>2. \A q \in Site : dmap[q] \in Nat /\ dmap[q] <= max
  BY <1>1
<1>3. \A l \in 1..Len(w_win.w) : w_win.w[l] \in Nat
  BY <1>1, WindowFacts
<1>4. /\ \A q \in Site : input[q] => dmap[q] = 0 /\ cp_ima[q] = q
      /\ \A q \in Site : ~ input[q] /\ dmap[q] = max => cp_ima[q] = Outside
  BY <1>1 DEF Led, Now
<1>5. ASSUME NEW q \in Site, ~ input[q], dmap[q] < max
      PROVE  \E e \in D!Edges : e.to = q /\ dmap[e.from] + e.w = dmap[q] /\ cp_ima[q] = cp_ima[e.from]
  <2> DEFINE st == Now
  <2>1. Led(st, d) /\ st.dmap = dmap /\ st.cp_ima = cp_ima
    BY <1>1 DEF Now
  <2> HIDE DEF st
  <2>2. \E r \in Site, j \in 1..Len(w_win.w) :
           /\ w_win.q[r][j] = q /\ st.dmap[r] + w_win.w[j] = st.dmap[q]
           /\ st.dmap[r] <= d /\ st.cp_ima[q] = st.cp_ima[r]
    BY <1>5, <2>1 DEF Led
  <2>3. PICK r \in Site, j \in 1..Len(w_win.w) :
           w_win.q[r][j] = q /\ dmap[r] + w_win.w[j] = dmap[q] /\ cp_ima[q] = cp_ima[r]
    BY <2>1, <2>2
  <2> DEFINE e == [from |-> r, to |-> w_win.q[r][j], w |-> w_win.w[j]]
  <2>4. w_win.q[r][j] # Outside
    BY <2>3 DEF Site, Outside
  <2>5. e \in D!Edges
    BY <1>1, <2>4, EdgesOfWindow
  <2>6. e.from = r /\ e.to = q /\ e.w = w_win.w[j]
    BY <2>3
  <2> HIDE DEF e
  <2> QED BY <2>3, <2>5, <2>6
<1>6. ASSUME NEW e \in D!Edges, ~ input[e.to] PROVE dmap[e.to] <= dmap[e.from] + e.w
  <2>1. PICK p \in Site, j \in 1..Len(w_win.w) :
           w_win.q[p][j] # Outside /\ e = [from |-> p, to |-> w_win.q[p][j], w |-> w_win.w[j]]
    BY <1>1, EdgesOfWindow
  <2>2. e.from = p /\ e.to = w_win.q[p][j] /\ e.w = w_win.w[j]
    BY <2>1
  <2>3. e.to \in Site
    <3>1. w_win.q[p][j] \in Site \cup {Outside}
      BY <1>1, WindowFacts
    <3> QED BY <2>1, <2>2, <3>1
  <2>6. p \in Site /\ w_win.w[j] \in Nat
    BY <1>3, <2>1
  <2>4. CASE dmap[p] < max
    BY <1>6, <2>2, <2>3, <2>4, InsideIsCovered
  <2>5. CASE ~ (dmap[p] < max)
    <3>1. dmap[p] = max /\ dmap[e.to] <= max /\ dmap[e.to] \in Nat /\ e.w \in Nat
      BY <1>1, <1>2, <2>2, <2>3, <2>5, <2>6
    <3> QED BY <1>1, <2>2, <3>1
  <2> QED BY <2>4, <2>5
<1>7. ASSUME NEW q \in Site
      PROVE  IF input[q] THEN dmap[q] = 0
             ELSE /\ \A x \in {dmap[e.from] + e.w : e \in {f \in D!Edges : f.to = q}} : dmap[q] <= x
                  /\ dmap[q] \in {dmap[e.from] + e.w : e \in {f \in D!Edges : f.to = q}} \cup {max}
                  /\ dmap[q] <= max
  <2>1. CASE input[q]
    BY <1>4, <2>1
  <2>2. CASE ~ input[q]
    <3>1. \A e \in {f \in D!Edges : f.to = q} : dmap[q] <= dmap[e.from] + e.w
      BY <1>6, <2>2
    <3>2. CASE dmap[q] < max
      <4>1. PICK e \in D!Edges : e.to = q /\ dmap[e.from] + e.w = dmap[q]
        BY <1>5, <2>2, <3>2
      <4>2. dmap[q] \in {dmap[f.from] + f.w : f \in {f \in D!Edges : f.to = q}}
        BY <4>1
      <4> QED BY <1>2, <2>2, <3>1, <4>2
    <3>3. CASE ~ (dmap[q] < max)
      BY <1>1, <1>2, <2>2, <3>1, <3>3
    <3> QED BY <3>2, <3>3
  <2> QED BY <2>1, <2>2
<1>8. D!IsShortest(D!Edges)
  BY <1>7, FrontShare DEF D!IsShortest
<1>9. D!IsClosest(D!Edges)
  BY <1>4, <1>5, FrontShare DEF D!IsClosest
<1> QED BY <1>4, <1>8, <1>9, FrontShare DEF D!DistancesAreShortest

-----------------------------------------------------------------------------

LEMMA DistancesRun ==
    /\ FrontsInit => (kind = "geodesic" => GeoInv) /\ (kind = "front" => DialInv)
    /\ (kind = "geodesic" => GeoInv) /\ (kind = "front" => DialInv) /\ [MCNext]_mcvars
         => (kind = "geodesic" => GeoInv)' /\ (kind = "front" => DialInv)'
<1>1. FrontsInit => (kind = "geodesic" => GeoInv) /\ (kind = "front" => DialInv)
  BY GeoBegin, FrontBegin DEF FrontsInit
<1>2. ASSUME kind = "geodesic" => GeoInv, [MCNext]_mcvars, kind' = "geodesic" PROVE GeoInv'
  BY <1>2, OneRuns, GeoStep
<1>3. ASSUME kind = "front" => DialInv, [MCNext]_mcvars, kind' = "front" PROVE DialInv'
  BY <1>3, OneRuns, DialStep
<1> QED BY <1>1, <1>2, <1>3

\* When distance_geodesic.hh and distance_front.hh return, the distances are the
\* shortest ones and the values come along shortest paths, for any image, any
\* saturation, and any weighted window that follows the neighborhood.
THEOREM DistancesAreRight == FrontsSpec => []DistancesAreShortest
<1>1. (kind = "geodesic" => GeoInv) /\ (kind = "front" => DialInv) => DistancesAreShortest
  BY GeoShortest, DialShortest DEF DistancesAreShortest
<1> QED BY <1>1, DistancesRun, PTL DEF FrontsSpec

Inv ==
    /\ kind = "flooding" => FloodInv
    /\ kind = "blobs" => BlobsInv
    /\ kind = "geodesic" => GeoInv
    /\ kind = "front" => DialInv

OneOf == kind \in {"flooding", "blobs", "geodesic", "front", "topological"}

LEMMA KindsOf == FrontsSpec => []OneOf
<1>1. FrontsInit => OneOf
  BY DEF FrontsInit, OneOf
<1>2. OneOf /\ [MCNext]_mcvars => OneOf'
  BY OneRuns DEF OneOf
<1> QED BY <1>1, <1>2, PTL DEF FrontsSpec

LEMMA AllRun == FrontsSpec => []Inv
<1>1. FrontsInit => Inv
  BY FloodingRuns, BlobsRun, DistancesRun DEF Inv
<1>2. Inv /\ [MCNext]_mcvars => Inv'
  BY FloodingRuns, BlobsRun, DistancesRun DEF Inv
<1> QED BY <1>1, <1>2, PTL DEF FrontsSpec

\* But for the topological watershed, no label, queue, bucket or distance leaves
\* its type, whatever the image and the neighborhood.
THEOREM FrontsFitTypes == FrontsSpec => [](kind # "topological" => FrontsTypeOK)
<1>1. Inv /\ OneOf => (kind # "topological" => FrontsTypeOK)
  BY TypesFollow, BlobsTyped, GeoTyped, DialTyped DEF Inv, OneOf, FrontsTypeOK
<1> QED BY <1>1, AllRun, KindsOf, PTL

\* But for the topological watershed, what waits in the queues and the buckets
\* is the front: lowest level first, one blob at a time, by distances.
THEOREM QueuesHoldFronts == FrontsSpec => [](kind # "topological" => QueueHoldsFront)
<1>1. Inv /\ OneOf => (kind # "topological" => QueueHoldsFront)
  BY FrontFollows, BlobsOrdered, GeoWaits, DialHolds DEF Inv, OneOf, QueueHoldsFront
<1> QED BY <1>1, AllRun, KindsOf, PTL

=============================================================================
