---------------------------- MODULE LabelingProofs ----------------------------
(***************************************************************************)
(* Proofs about Labeling, for every image, neighborhood, order of the sites *)
(* and number of labels: the trees of the first pass are the flat zones,    *)
(* the attributes of their roots tell the extrema, and the second pass      *)
(* numbers the objects.                                                     *)
(***************************************************************************)
EXTENDS Labeling, RegionsProofs

(* Trees of links.                                                          *)

\* The links of D stay in it, and go down in the order o.
Forest(o, link, D) ==
    /\ D \in SUBSET Site
    /\ \A q \in D : link[q] \in D /\ (link[q] = q \/ Rank(o, link[q]) < Rank(o, q))

\* The way that find_root follows from m.
IsClimb(up, link, m) == up = [j \in 0..N |-> IF j = 0 THEN m ELSE link[up[j - 1]]]

LEMMA ClimbIsClimb ==
    ASSUME NEW o, NEW D, NEW link, Forest(o, link, D), NEW m \in D
    PROVE  /\ Climb(link, m) \in [0..N -> D]
           /\ Climb(link, m)[0] = m
           /\ \A j \in 1..N : Climb(link, m)[j] = link[Climb(link, m)[j - 1]]
<1>1. N \in Nat /\ \A q \in D : link[q] \in D
  BY RegionsAssumption DEF Forest
<1>2. \E up : IsClimb(up, link, m)
  <2> DEFINE F == [r \in (1..N) \X D |-> link[r[2]]]
  <2>1. F \in [(1..N) \X D -> D]
    BY <1>1
  <2>2. \A j \in 1..N : \A q \in D : F[<<j, q>>] = link[q]
    OBVIOUS
  <2> HIDE DEF F
  <2>3. PICK up : Follows(up, F, m, N, D)
    BY <1>1, <2>1, Recursion
  <2>4. ASSUME NEW j \in 0..N PROVE up[j] = IF j = 0 THEN m ELSE link[up[j - 1]]
    <3>1. CASE j = 0
      BY <2>3, <3>1 DEF Follows
    <3>2. CASE j # 0
      <4>1. j \in 1..N /\ j - 1 \in 0..N
        BY <1>1, <3>2
      <4>2. QED
        BY <2>2, <2>3, <3>2, <4>1 DEF Follows
    <3>3. QED
      BY <3>1, <3>2
  <2>5. up = [j \in 0..N |-> up[j]]
    BY <2>3 DEF Follows
  <2>6. QED
    BY <2>4, <2>5 DEF IsClimb
<1>3. PICK up : up = Climb(link, m)
  OBVIOUS
<1>4. IsClimb(up, link, m)
  <2>1. Climb(link, m) = CHOOSE f : IsClimb(f, link, m)
    BY DEF Climb, IsClimb
  <2>2. QED
    BY <1>2, <1>3, <2>1
<1>5. /\ DOMAIN up = 0..N /\ up[0] = m
      /\ \A j \in 1..N : up[j] = link[up[j - 1]]
      /\ up = [j \in 0..N |-> up[j]]
  <2>1. /\ DOMAIN up = 0..N
        /\ \A j \in 0..N : up[j] = IF j = 0 THEN m ELSE link[up[j - 1]]
    BY <1>4 DEF IsClimb
  <2>2. QED
    BY <1>1, <1>4, <2>1 DEF IsClimb
<1>6. \A j \in 0..N : up[j] \in D
  <2> DEFINE Bad == {j \in 0..N : up[j] \notin D}
  <2>1. SUFFICES ASSUME Bad # {} PROVE FALSE
    OBVIOUS
  <2>2. PICK j \in Bad : \A l \in Bad : j <= l
    <3>1. Bad \in SUBSET Nat
      BY <1>1
    <3> HIDE DEF Bad
    <3>2. QED
      BY <2>1, <3>1, LeastNat
  <2>3. j # 0
    BY <1>5
  <2>4. j \in 1..N /\ j - 1 \in 0..N /\ j - 1 \notin Bad
    BY <1>1, <2>2, <2>3
  <2>5. QED
    BY <1>1, <1>5, <2>4
<1>7. QED
  BY <1>3, <1>5, <1>6

\* A way down the links ends in a root before N steps.
LEMMA ChainFacts ==
    ASSUME NEW o, IsSiteArray(o), NEW link, NEW D, Forest(o, link, D), NEW m \in D
    PROVE  LET up == Climb(link, m) IN
           /\ up \in [0..N -> D] /\ up[0] = m
           /\ \A j \in 1..N : up[j] = link[up[j - 1]]
           /\ up[N] = Root(link, m)
           /\ link[up[N]] = up[N]
<1>1. PICK up : up = Climb(link, m)
  OBVIOUS
<1>2. /\ up \in [0..N -> D] /\ up[0] = m
      /\ \A j \in 1..N : up[j] = link[up[j - 1]]
  <2>1. /\ Climb(link, m) \in [0..N -> D] /\ Climb(link, m)[0] = m
        /\ \A j \in 1..N : Climb(link, m)[j] = link[Climb(link, m)[j - 1]]
    BY ClimbIsClimb
  <2>2. QED
    BY <1>1, <2>1
<1>3. up[N] = Root(link, m)
  BY <1>1 DEF Root
<1>4. N \in Nat \ {0}
  BY RegionsAssumption
<1>5. \A q \in D : Rank(o, q) \in 1..N
  BY RankFacts DEF Forest
<1> DEFINE Bad == {j \in 0..N : link[up[j]] # up[j] /\ ~ (Rank(o, up[j]) + j <= N)}
<1>6. Bad = {}
  <2>1. SUFFICES ASSUME Bad # {} PROVE FALSE
    OBVIOUS
  <2>2. PICK j \in Bad : \A l \in Bad : j <= l
    <3>1. Bad \in SUBSET Nat
      BY <1>4
    <3> HIDE DEF Bad
    <3>2. QED
      BY <2>1, <3>1, LeastNat
  <2>3. j # 0
    BY <1>2, <1>4, <1>5
  <2>4. j \in 1..N /\ j - 1 \in 0..N /\ j - 1 \notin Bad
    BY <1>4, <2>2, <2>3
  <2>5. PICK q \in D : q = up[j - 1]
    BY <1>2, <2>4
  <2>6. up[j] = link[q] /\ up[j] \in D
    BY <1>2, <2>4, <2>5
  <2>7. link[q] # q
    BY <2>2, <2>6
  <2>8. Rank(o, link[q]) < Rank(o, q)
    BY <2>7 DEF Forest
  <2>9. Rank(o, q) + (j - 1) <= N
    BY <2>4, <2>5, <2>7
  <2>10. Rank(o, up[j]) + j <= N
    BY <1>4, <1>5, <2>4, <2>6, <2>8, <2>9
  <2>11. QED
    BY <2>2, <2>10
<1>7. link[up[N]] = up[N]
  <2>1. N \in 0..N /\ N \notin Bad /\ up[N] \in D
    BY <1>2, <1>4, <1>6
  <2>2. Rank(o, up[N]) \in 1..N
    BY <1>5, <2>1
  <2>3. ~ (Rank(o, up[N]) + N <= N)
    BY <1>4, <2>2
  <2>4. QED
    BY <2>1, <2>3
<1>8. QED
  BY <1>1, <1>2, <1>3, <1>7

\* What holds of m and is kept by every link holds all the way and of the root.
LEMMA ChainStays ==
    ASSUME NEW o, IsSiteArray(o), NEW link, NEW D, Forest(o, link, D), NEW m \in D,
           NEW C, m \in C, \A q \in D \cap C : link[q] \in C
    PROVE  \A j \in 0..N : Climb(link, m)[j] \in C
<1>1. PICK up : up = Climb(link, m)
  OBVIOUS
<1>2. /\ up \in [0..N -> D] /\ up[0] = m
      /\ \A j \in 1..N : up[j] = link[up[j - 1]]
  BY <1>1, ChainFacts
<1>3. N \in Nat
  BY RegionsAssumption
<1> DEFINE Bad == {j \in 0..N : up[j] \notin C}
<1>4. SUFFICES ASSUME Bad # {} PROVE FALSE
  BY <1>1
<1>5. PICK j \in Bad : \A l \in Bad : j <= l
  <2>1. Bad \in SUBSET Nat
    BY <1>3
  <2> HIDE DEF Bad
  <2>2. QED
    BY <1>4, <2>1, LeastNat
<1>6. j # 0
  BY <1>2
<1>7. j \in 1..N /\ j - 1 \in 0..N /\ j - 1 \notin Bad
  BY <1>3, <1>5, <1>6
<1>8. QED
  BY <1>2, <1>7

LEMMA RootFacts ==
    ASSUME NEW o, IsSiteArray(o), NEW link, NEW D, Forest(o, link, D), NEW m \in D
    PROVE  /\ Root(link, m) \in D
           /\ link[Root(link, m)] = Root(link, m)
           /\ \A C : m \in C /\ (\A q \in D \cap C : link[q] \in C) => Root(link, m) \in C
           /\ Rank(o, Root(link, m)) <= Rank(o, m)
<1>1. N \in 0..N
  BY RegionsAssumption
<1>2. Root(link, m) \in D /\ link[Root(link, m)] = Root(link, m)
  BY <1>1, ChainFacts
<1>3. ASSUME NEW C, m \in C, \A q \in D \cap C : link[q] \in C
      PROVE  Root(link, m) \in C
  <2>1. \A j \in 0..N : Climb(link, m)[j] \in C
    BY <1>3, ChainStays
  <2>2. QED
    BY <1>1, <2>1 DEF Root
<1>4. Rank(o, Root(link, m)) <= Rank(o, m)
  <2> DEFINE C == {q \in D : Rank(o, q) <= Rank(o, m)}
  <2>1. \A q \in D : Rank(o, q) \in 1..N
    BY RankFacts DEF Forest
  <2>2. m \in C /\ \A q \in D \cap C : link[q] \in C
    BY <1>1, <2>1 DEF Forest
  <2>3. QED
    BY <1>3, <2>2
<1>5. QED
  BY <1>2, <1>3, <1>4

\* g sends each root to itself, and any other site where its parent is sent.
Sends(g, link, D) == \A q \in D : g[q] = IF link[q] = q THEN q ELSE g[link[q]]

\* Root is the only way to do that.
LEMMA RootUnique ==
    ASSUME NEW o, IsSiteArray(o), NEW link, NEW D, Forest(o, link, D),
           NEW g, Sends(g, link, D)
    PROVE  \A q \in D : Root(link, q) = g[q]
<1> SUFFICES ASSUME NEW m \in D PROVE Root(link, m) = g[m]
  OBVIOUS
<1> DEFINE C == {q \in D : g[q] = g[m]}
<1>1. m \in C /\ \A q \in D \cap C : link[q] \in C
  BY DEF Forest, Sends
<1>2. Root(link, m) \in C /\ Root(link, m) \in D /\ link[Root(link, m)] = Root(link, m)
  <2> HIDE DEF C
  <2>1. QED
    BY <1>1, RootFacts
<1>3. QED
  BY <1>2 DEF Sends

\* A site has the root of its parent.
LEMMA RootOfParent ==
    ASSUME NEW o, IsSiteArray(o), NEW link, NEW D, Forest(o, link, D), NEW m \in D
    PROVE  /\ Root(link, m) = Root(link, link[m])
           /\ link[m] = m => Root(link, m) = m
<1>0. N \in Nat \ {0} /\ link[m] \in D
  BY RegionsAssumption DEF Forest
<1>1. PICK a, b : a = Climb(link, m) /\ b = Climb(link, link[m])
  OBVIOUS
<1>2. /\ a[0] = m /\ \A j \in 1..N : a[j] = link[a[j - 1]]
      /\ b[0] = link[m] /\ \A j \in 1..N : b[j] = link[b[j - 1]]
      /\ a[N] = Root(link, m) /\ b[N] = Root(link, link[m])
      /\ link[a[N]] = a[N]
  BY SMTT(30), <1>0, <1>1, ChainFacts
<1> DEFINE Bad == {j \in 0..(N - 1) : b[j] # a[j + 1]}
<1>3. Bad = {}
  <2>1. SUFFICES ASSUME Bad # {} PROVE FALSE
    OBVIOUS
  <2>2. PICK j \in Bad : \A l \in Bad : j <= l
    <3>1. Bad \in SUBSET Nat
      BY <1>0
    <3> HIDE DEF Bad
    <3>2. QED
      BY <2>1, <3>1, LeastNat
  <2>3. j # 0
    <3>1. a[1] = link[a[1 - 1]] /\ 1 - 1 = 0
      BY <1>0, <1>2
    <3>2. QED
      BY <1>2, <3>1
  <2>4. /\ j - 1 \in 0..(N - 1) /\ j - 1 \notin Bad
        /\ j \in 1..N /\ j + 1 \in 1..N /\ (j - 1) + 1 = j /\ (j + 1) - 1 = j
    BY <1>0, <2>2, <2>3
  <2>5. b[j] = link[b[j - 1]] /\ a[j + 1] = link[a[j]]
    BY <1>2, <2>4
  <2>6. QED
    BY <2>2, <2>4, <2>5
<1>4. b[N] = a[N]
  <2>1. N - 1 \in 0..(N - 1) /\ N - 1 \notin Bad /\ (N - 1) + 1 = N /\ N \in 1..N
    BY <1>0, <1>3
  <2>2. QED
    BY <1>2, <2>1
<1>5. link[m] = m => Root(link, m) = m
  <2>1. SUFFICES ASSUME link[m] = m PROVE Root(link, m) = m
    OBVIOUS
  <2>2. m \in {m} /\ \A q \in D \cap {m} : link[q] \in {m}
    BY <2>1
  <2>3. \A C : m \in C /\ (\A q \in D \cap C : link[q] \in C) => Root(link, m) \in C
    BY RootFacts
  <2>4. Root(link, m) \in {m}
    BY <2>2, <2>3
  <2>5. QED
    BY <2>4
<1>6. QED
  BY <1>2, <1>4, <1>5

\* The links after a Do-Union that gives the root t to the tree of m.
Merged(next, link, m, t) == next = [Compressed(link, m) EXCEPT ![Root(link, m)] = t]

\* After a Do-Union the sites that had the root of m have the root p; path
\* compression alone changes no root.
LEMMA UnionRoots ==
    ASSUME NEW o, IsSiteArray(o), NEW D, NEW link \in [Site -> Site \cup {Unset}],
           Forest(o, link, D), NEW m \in D, NEW t \in D, link[t] = t,
           Rank(o, t) <= Rank(o, Root(link, m)),
           NEW next, Merged(next, link, m, t)
    PROVE  /\ next \in [Site -> Site \cup {Unset}]
           /\ Forest(o, next, D)
           /\ \A q \in Site \ D : next[q] = link[q]
           /\ next[t] = t
           /\ \A q \in D : Root(next, q) = IF Root(link, q) = Root(link, m)
                                             THEN t ELSE Root(link, q)
           /\ \A q \in D : next[q] = q => link[q] = q
<1> DEFINE r == Root(link, m)
           way == {Climb(link, m)[j] : j \in 0..N}
<1>0. /\ r \in D /\ link[r] = r /\ D \subseteq Site
      /\ \A q \in D : Rank(o, q) \in 1..N /\ link[q] \in D
      /\ \A q, u \in D : Rank(o, q) = Rank(o, u) => q = u
  BY SMTT(30), RootFacts, RankFacts DEF Forest
<1>1. way \subseteq D /\ r \in way
  <2>1. N \in 0..N
    BY RegionsAssumption
  <2>2. \A j \in 0..N : Climb(link, m)[j] \in D
    <3>1. Climb(link, m) \in [0..N -> D]
      BY ChainFacts
    <3>2. QED
      BY <3>1
  <2>3. QED
    BY <2>1, <2>2 DEF Root
<1>2. \A q \in way : Root(link, q) = r /\ Rank(o, r) <= Rank(o, q)
  <2> DEFINE C == {q \in D : Root(link, q) = r}
  <2>1. m \in C /\ \A q \in D \cap C : link[q] \in C
    BY <1>0, RootOfParent
  <2> HIDE DEF C
  <2>2. \A j \in 0..N : Climb(link, m)[j] \in C
    BY <2>1, ChainStays
  <2>3. \A q \in way : q \in C
    BY <2>2
  <2>4. \A q \in D : Rank(o, Root(link, q)) <= Rank(o, q)
    BY RootFacts
  <2> USE DEF C
  <2>5. QED
    BY <1>1, <2>3, <2>4
<1>3. Compressed(link, m) = [q \in Site |-> IF q \in way THEN r ELSE link[q]]
  BY DEF Compressed, Root
<1> HIDE DEF way, r
<1>4. \A q \in Site : next[q] = IF q = r THEN t ELSE IF q \in way THEN r ELSE link[q]
  BY <1>0, <1>3 DEF Merged, r
<1>5. next \in [Site -> Site \cup {Unset}]
  <2>1. next = [[q \in Site |-> IF q \in way THEN r ELSE link[q]] EXCEPT ![r] = t]
    BY <1>3 DEF Merged, r
  <2>2. QED
    BY <1>0, <2>1
<1>6. Forest(o, next, D)
  <2>1. SUFFICES ASSUME NEW q \in D
                 PROVE  next[q] \in D /\ (next[q] = q \/ Rank(o, next[q]) < Rank(o, q))
    BY <1>0 DEF Forest
  <2>2. CASE q = r
    <3>1. next[q] = t
      BY <1>0, <1>4, <2>2
    <3>2. Rank(o, t) <= Rank(o, q)
      BY <2>2 DEF r
    <3>3. QED
      BY <1>0, <3>1, <3>2
  <2>3. CASE q # r /\ q \in way
    <3>1. next[q] = r /\ Rank(o, r) <= Rank(o, q)
      BY <1>0, <1>2, <1>4, <2>3
    <3>2. QED
      BY <1>0, <2>3, <3>1
  <2>4. CASE q # r /\ q \notin way
    <3>1. next[q] = link[q]
      BY <1>0, <1>4, <2>4
    <3>2. QED
      BY <3>1 DEF Forest
  <2>5. QED
    BY <2>2, <2>3, <2>4
<1>7. \A q \in Site \ D : next[q] = link[q]
  BY <1>0, <1>1, <1>4
<1>8. next[t] = t /\ \A q \in D : next[q] = q => link[q] = q
  <2>1. \A q \in D : link[q] = q => Root(link, q) = q
    BY RootOfParent
  <2>2. QED
    BY <1>0, <1>1, <1>2, <1>4, <2>1
<1> DEFINE g == [q \in D |-> IF Root(link, q) = r THEN t ELSE Root(link, q)]
<1>9. \A q \in D : Root(link, q) = Root(link, link[q]) /\ (link[q] = q => Root(link, q) = q)
  BY RootOfParent
<1>10. ASSUME NEW q \in D PROVE g[q] = IF next[q] = q THEN q ELSE g[next[q]]
  <2>1. CASE q = r
    <3>1. next[q] = t /\ Root(link, q) = r /\ Root(link, t) = t
      BY <1>0, <1>4, <1>9, <2>1
    <3>2. QED
      BY <3>1
  <2>2. CASE q # r /\ q \in way
    <3>1. next[q] = r /\ Root(link, q) = r /\ Root(link, r) = r
      BY <1>0, <1>2, <1>4, <1>9, <2>2
    <3>2. QED
      BY <1>0, <2>2, <3>1
  <2>3. CASE q # r /\ q \notin way
    <3>1. next[q] = link[q] /\ link[q] \in D
      BY <1>0, <1>4, <2>3
    <3>2. CASE link[q] = q
      <4>1. Root(link, q) = q
        BY <1>9, <3>2
      <4>2. QED
        BY <2>3, <3>1, <3>2, <4>1
    <3>3. CASE link[q] # q
      <4>1. Root(link, q) = Root(link, link[q])
        BY <1>9
      <4>2. QED
        BY <3>1, <3>3, <4>1
    <3>4. QED
      BY <3>2, <3>3
  <2>4. QED
    BY <2>1, <2>2, <2>3
<1>11. \A q \in D : Root(next, q) = g[q]
  <2> HIDE DEF g
  <2>1. PICK h : h = g
    OBVIOUS
  <2>2. Sends(h, next, D)
    BY <1>10, <2>1 DEF Sends
  <2>3. \A q \in D : Root(next, q) = h[q]
    BY <1>6, <2>2, RootUnique
  <2>4. QED
    BY <2>1, <2>3
<1>12. QED
  BY <1>5, <1>6, <1>7, <1>8, <1>11 DEF r

SameLinks(next, link, D) == \A q \in D : next[q] = link[q]

LEMMA RootLocal ==
    ASSUME NEW o, IsSiteArray(o), NEW link, NEW D, Forest(o, link, D),
           NEW next, SameLinks(next, link, D)
    PROVE  Forest(o, next, D) /\ \A q \in D : Root(next, q) = Root(link, q)
<1>1. Forest(o, next, D)
  BY DEF Forest, SameLinks
<1>2. PICK g : g = [q \in D |-> Root(link, q)]
  OBVIOUS
<1>3. Sends(g, next, D)
  <2>1. \A q \in D : Root(link, q) = Root(link, link[q]) /\ (link[q] = q => Root(link, q) = q)
    BY RootOfParent
  <2>2. \A q \in D : link[q] \in D
    BY DEF Forest
  <2>3. QED
    BY <1>2, <2>1, <2>2 DEF Sends, SameLinks
<1>4. \A q \in D : Root(next, q) = g[q]
  BY <1>1, <1>3, RootUnique
<1>5. QED
  BY <1>1, <1>2, <1>4

-----------------------------------------------------------------------------
(* Neighbours to browse.                                                    *)

Points == Site \cup {Outside}

\* The positive offsets are the points of the window outside the domain or
\* after q.
LEMMA PositiveFacts ==
    ASSUME NEW nbh \in Seq(Points), NEW q \in Int
    PROVE  /\ Positive(nbh, q) \in Seq(Points)
           /\ \A m : (\E j \in DOMAIN Positive(nbh, q) : Positive(nbh, q)[j] = m)
                     <=> (\E j \in DOMAIN nbh : nbh[j] = m) /\ (m = Outside \/ m > q)
<1> DEFINE n == Len(nbh)
           T == Seq(Points)
           Keep(j) == nbh[j] = Outside \/ nbh[j] > q
           Step(j, c) == IF Keep(j) THEN Append(c, nbh[j]) ELSE c
           IsKept(g) == g = [j \in 0..n |-> IF j = 0 THEN <<>> ELSE Step(j, g[j - 1])]
           F == [r \in (1..n) \X T |-> Step(r[1], r[2])]
<1>1. n \in Nat /\ DOMAIN nbh = 1..n /\ \A j \in 1..n : nbh[j] \in Points
  OBVIOUS
<1>2. \A j \in 1..n : \A c \in T : Step(j, c) \in T /\ F[<<j, c>>] = Step(j, c)
  BY <1>1
<1>3. F \in [(1..n) \X T -> T]
  BY <1>2
<1>4. <<>> \in T
  OBVIOUS
<1> HIDE DEF F, Step
<1>5. PICK up : Follows(up, F, <<>>, n, T)
  <2> HIDE DEF n, T
  <2>1. QED
    BY <1>1, <1>3, <1>4, Recursion
<1>6. IsKept(up)
  <2>1. ASSUME NEW j \in 0..n PROVE up[j] = IF j = 0 THEN <<>> ELSE Step(j, up[j - 1])
    <3>1. CASE j = 0
      BY <1>5, <3>1 DEF Follows
    <3>2. CASE j # 0
      <4>1. j \in 1..n /\ j - 1 \in 0..n
        BY <1>1, <3>2
      <4>2. QED
        BY <1>2, <1>5, <3>2, <4>1 DEF Follows
    <3>3. QED
      BY <3>1, <3>2
  <2>2. up = [j \in 0..n |-> up[j]]
    BY <1>5 DEF Follows
  <2>3. QED
    BY <2>1, <2>2
<1>7. PICK kept : IsKept(kept) /\ kept[n] = Positive(nbh, q)
  <2>1. Positive(nbh, q) = (CHOOSE g : IsKept(g))[n]
    BY DEF Positive, Step
  <2> HIDE DEF IsKept
  <2>2. QED
    BY <1>6, <2>1
<1>8. kept[0] = <<>> /\ \A j \in 1..n : kept[j] = Step(j, kept[j - 1])
  <2>1. \A j \in 0..n : kept[j] = IF j = 0 THEN <<>> ELSE Step(j, kept[j - 1])
    BY <1>7
  <2>2. QED
    BY <1>1, <2>1
<1> DEFINE Good(j) == /\ kept[j] \in T
                      /\ \A m : (\E l \in 1..Len(kept[j]) : kept[j][l] = m)
                                <=> (\E l \in 1..j : nbh[l] = m /\ Keep(l))
           Bad == {j \in 0..n : ~ Good(j)}
<1>9. Bad = {}
  <2>1. SUFFICES ASSUME Bad # {} PROVE FALSE
    OBVIOUS
  <2>2. PICK j \in Bad : \A l \in Bad : j <= l
    <3>1. Bad \in SUBSET Nat
      BY <1>1
    <3> HIDE DEF Bad
    <3>2. QED
      BY <2>1, <3>1, LeastNat
  <2>3. j # 0
    <3>1. Good(0)
      BY <1>4, <1>8
    <3>2. QED
      BY <2>2, <3>1
  <2>4. j \in 1..n /\ j - 1 \in 0..n /\ Good(j - 1)
    <3>1. j \in 1..n /\ j - 1 \in 0..n /\ ~ (j <= j - 1)
      BY <1>1, <2>2, <2>3
    <3>2. j - 1 \notin Bad
      BY <2>2, <3>1
    <3> HIDE DEF Good
    <3>3. QED
      BY <3>1, <3>2
  <2>5. PICK c : c = kept[j - 1]
    OBVIOUS
  <2>6. /\ c \in T
        /\ \A m : (\E l \in 1..Len(c) : c[l] = m)
                  <=> (\E l \in 1..(j - 1) : nbh[l] = m /\ Keep(l))
    BY <2>4, <2>5
  <2>7. kept[j] = Step(j, c)
    BY <1>8, <2>4, <2>5
  <2>8. \A l : l \in 1..j <=> l \in 1..(j - 1) \/ l = j
    BY <2>4
  <2>9. CASE Keep(j)
    <3>1. kept[j] = Append(c, nbh[j])
      BY <2>7, <2>9 DEF Step
    <3>2. /\ Append(c, nbh[j]) \in T /\ Len(c) \in Nat
          /\ Len(Append(c, nbh[j])) = Len(c) + 1
          /\ \A l \in 1..Len(c) : Append(c, nbh[j])[l] = c[l]
          /\ Append(c, nbh[j])[Len(c) + 1] = nbh[j]
      BY <1>1, <2>4, <2>6
    <3>3. \A l : l \in 1..(Len(c) + 1) <=> l \in 1..Len(c) \/ l = Len(c) + 1
      BY <3>2
    <3>4. \A m : (\E l \in 1..(Len(c) + 1) : Append(c, nbh[j])[l] = m)
                 <=> (\E l \in 1..Len(c) : c[l] = m) \/ m = nbh[j]
      BY <3>2, <3>3
    <3>5. \A m : (\E l \in 1..j : nbh[l] = m /\ Keep(l))
                 <=> (\E l \in 1..(j - 1) : nbh[l] = m /\ Keep(l)) \/ m = nbh[j]
      BY <2>8, <2>9
    <3>6. PICK w : w = kept[j]
      OBVIOUS
    <3>7. w \in T /\ \A m : (\E l \in 1..Len(w) : w[l] = m)
                             <=> (\E l \in 1..(j - 1) : nbh[l] = m /\ Keep(l)) \/ m = nbh[j]
      <4>1. w = Append(c, nbh[j]) /\ Len(w) = Len(c) + 1
        BY <3>1, <3>2, <3>6
      <4>2. \A m : (\E l \in 1..Len(w) : w[l] = m)
                     <=> (\E l \in 1..Len(c) : c[l] = m) \/ m = nbh[j]
        BY <3>4, <4>1
      <4>3. QED
        BY <2>6, <3>2, <4>1, <4>2
    <3>8. Good(j)
      BY <3>5, <3>6, <3>7
    <3>9. QED
      BY <2>2, <3>8
  <2>10. CASE ~ Keep(j)
    <3>1. kept[j] = c
      BY <2>7, <2>10 DEF Step
    <3>2. Good(j)
      BY <2>6, <2>8, <2>10, <3>1
    <3>3. QED
      BY <2>2, <3>2
  <2>11. QED
    BY <2>9, <2>10
<1>10. Good(n)
  <2>1. n \in 0..n
    BY <1>1
  <2> HIDE DEF Good
  <2>2. QED
    BY <1>9, <2>1
<1>11. PICK w : w = Positive(nbh, q)
  BY Zenon
<1>12. w \in T /\ \A m : (\E l \in 1..Len(w) : w[l] = m)
                         <=> (\E l \in 1..n : nbh[l] = m /\ Keep(l))
  <2>1. w = kept[n]
    BY <1>7, <1>11
  <2>2. kept[n] \in T /\ \A m : (\E l \in 1..Len(kept[n]) : kept[n][l] = m)
                                 <=> (\E l \in 1..n : nbh[l] = m /\ Keep(l))
    BY <1>10
  <2> HIDE DEF n, T, Keep, IsKept
  <2>3. QED
    BY <2>1, <2>2
<1>13. DOMAIN w = 1..Len(w)
  BY <1>12
<1> HIDE DEF n
<1>14. \A m : (\E l \in DOMAIN w : w[l] = m)
             <=> (\E l \in DOMAIN nbh : nbh[l] = m) /\ (m = Outside \/ m > q)
  BY ZenonT(60), <1>1, <1>12, <1>13
<1>15. QED
  BY <1>11, <1>12, <1>14

LEMMA OffsetsFacts ==
    ASSUME s \in [1..N -> Site], i \in 1..N
    PROVE  /\ Offsets \in Seq(Points)
           /\ \A m : (\E j \in DOMAIN Offsets : Offsets[j] = m)
                     <=> /\ \E j \in DOMAIN Nbh[p] : Nbh[p][j] = m
                         /\ canvas = "video_fastest" => m = Outside \/ m > p
<1>1. p \in Site /\ p \in Int /\ Nbh[p] \in Seq(Points)
  <2>1. p \in Site
    BY DEF p
  <2>2. QED
    BY <2>1, RegionsAssumption DEF Site, Points
<1>2. CASE canvas = "video_fastest"
  <2>1. Offsets = Positive(Nbh[p], p)
    BY <1>2 DEF Offsets
  <2>2. /\ Positive(Nbh[p], p) \in Seq(Points)
        /\ \A m : (\E j \in DOMAIN Positive(Nbh[p], p) : Positive(Nbh[p], p)[j] = m)
                  <=> (\E j \in DOMAIN Nbh[p] : Nbh[p][j] = m) /\ (m = Outside \/ m > p)
    BY <1>1, PositiveFacts
  <2>3. QED
    BY <1>2, <2>1, <2>2
<1>3. CASE canvas # "video_fastest"
  BY <1>1, <1>3 DEF Offsets
<1>4. QED
  BY <1>2, <1>3

-----------------------------------------------------------------------------
(* The inductive invariant.                                                 *)

CallInv == /\ canvas \in Canvas /\ functor \in Functor
           /\ input \in [Site -> Value]
           /\ IsSiteArray(s)
           /\ LegalCall

\* The sites linked so far.
Passed == IF pc = "make_set" THEN i ELSE IF pc = "neighbours" THEN i - 1 ELSE 0
Made == {q \in Site : handles(q) /\ Rank(s, q) > Passed}

\* What deja_vu says of the sites browsed before p.
SeenInv ==
    pc \in {"make_set", "neighbours"} =>
       \A q \in Site :
          deja_vu[q] <=> canvas = "video_fastest" \/ (handles(q) /\ Rank(s, q) > i)

\* p stays a root while its neighbours are browsed.
SiteInv == pc = "neighbours" => handles(p) /\ parent[p] = p /\ k # 0

TreesInv == Forest(s, parent, Made)

Zone(q) == FlatZone(input, q)

\* The trees hold nothing but sites of one zone ...
SoundInv == \A q \in Made : Root(parent, q) \in Zone(q)

\* u is a neighbour that was browsed for t, and before it.
Paired(t, u) ==
    /\ t \in Made /\ u \in Made
    /\ u \in Neighbours[t]
    /\ Rank(s, u) > Rank(s, t)
    /\ (pc = "neighbours" /\ t = p) => \E j \in 1..Len(Offsets) : j < k /\ Offsets[j] = u

\* ... and each neighbour of equal value browsed so far.
JoinInv ==
    \A t, u \in Site :
       (Paired(t, u) /\ input[t] = input[u]) => Root(parent, t) = Root(parent, u)

\* The attribute of a root tells whether every neighbour browsed so far for a
\* site of its tree has the value of that site.
AttrInv ==
    IsExtrema =>
       \A q \in Site :
          /\ q \notin Made => attr[q]
          /\ q \in Made /\ parent[q] = q =>
               (attr[q] <=> \A t, u \in Site :
                              (Paired(t, u) /\ Root(parent, t) = q) => input[t] = input[u])

\* The first pass ...
BuildInv == /\ CallInv
            /\ TypeOK
            /\ SeenInv
            /\ SiteInv
            /\ TreesInv
            /\ SoundInv
            /\ JoinInv
            /\ AttrInv

\* The place in s where a zone is first met.
FirstOf(Z) == CHOOSE j \in 1..N : s[j] \in Z /\ \A l \in 1..(j - 1) : s[l] \notin Z

\* How many objects are met up to place j, and the label of q among all.
Met(j) == {Y \in Objects : FirstOf(Y) <= j}
Full(q) == IF Zone(q) \in Objects THEN Cardinality(Met(FirstOf(Zone(q)))) ELSE 0

\* How far the second pass has gone.
Dealt == IF pc \in {"label", "aborted"} THEN i - 1 ELSE IF pc = "done" THEN N ELSE 0

OutputInv ==
    /\ \A q \in Site : output[q] = IF Rank(s, q) <= Dealt THEN Full(q) ELSE 0
    /\ nlabels = Cardinality(Met(Dealt))
    /\ \A q \in Site : output[q] <= nlabels
    /\ pc = "aborted" => nlabels = MaxLabel /\ handles(p) /\ IsRoot(p) /\ labels(p)

IInv == BuildInv /\ OutputInv /\ AccusFollowOutput

-----------------------------------------------------------------------------
(* The first pass.                                                          *)

LEMMA CallFacts ==
    ASSUME CallInv, i \in 1..N
    PROVE  /\ s \in [1..N -> Site] /\ N \in Nat \ {0} /\ Site = 1..N
           /\ p \in Site /\ Rank(s, p) = i
           /\ \A q \in Site : Rank(s, q) \in 1..N /\ s[Rank(s, q)] = q
           /\ \A j \in 1..N : s[j] \in Site /\ Rank(s, s[j]) = j
           /\ \A q, r \in Site : Rank(s, q) = Rank(s, r) => q = r
           /\ \A q \in Site : input[q] \in Int
           /\ canvas = "video_fastest" => ~ IsExtrema /\ \A q \in Site : Rank(s, q) = q
<1>1. s \in [1..N -> Site] /\ N \in Nat \ {0} /\ Site = 1..N
  BY RegionsAssumption DEF CallInv, IsSiteArray, Site
<1>2. /\ \A q \in Site : Rank(s, q) \in 1..N /\ s[Rank(s, q)] = q
      /\ \A j \in 1..N : s[j] \in Site /\ Rank(s, s[j]) = j
      /\ \A q, r \in Site : Rank(s, q) = Rank(s, r) => q = r
  BY RankFacts DEF CallInv
<1>3. p \in Site /\ Rank(s, p) = i
  BY <1>2 DEF p
<1>4. \A q \in Site : input[q] \in Int
  BY LabelingAssumption DEF CallInv
<1>5. canvas = "video_fastest" => ~ IsExtrema /\ \A q \in Site : Rank(s, q) = q
  <2>1. canvas = "video_fastest" => ~ IsExtrema /\ s = [j \in 1..N |-> j]
    BY DEF CallInv, LegalCall
  <2>2. s = [j \in 1..N |-> j] => \A q \in 1..N : s[q] = q
    OBVIOUS
  <2>3. QED
    BY <1>1, <1>2, <2>1, <2>2
<1>6. QED
  BY <1>1, <1>2, <1>3, <1>4, <1>5

\* Whatever the canvas, a browsed neighbour of p comes later in s, and it has
\* been linked when its value makes it equivalent.
LEMMA BrowsedFacts ==
    ASSUME CallInv, TypeOK, SeenInv, SiteInv, pc = "neighbours",
           NEW j \in 1..Len(Offsets), NEW m, m = Offsets[j]
    PROVE  /\ Browsed(m) => m \in Neighbours[p] /\ m \in Site /\ Rank(s, m) > i
           /\ Browsed(m) /\ equiv(m, p) => m \in Made /\ input[m] = input[p]
           /\ m \in Made /\ Rank(s, m) > i => Browsed(m) /\ (~ equiv(m, p) => input[m] # input[p])
           /\ IsExtrema /\ Browsed(m) => m \in Made
<1>0. i \in 1..N
  BY DEF TypeOK
<1>1. /\ Offsets \in Seq(Points)
      /\ \E l \in DOMAIN Nbh[p] : Nbh[p][l] = m
      /\ canvas = "video_fastest" => m = Outside \/ m > p
  <2>1. s \in [1..N -> Site]
    BY <1>0, CallFacts
  <2>2. Offsets \in Seq(Points) /\ j \in DOMAIN Offsets
    BY <1>0, <2>1, OffsetsFacts
  <2>3. QED
    BY <1>0, <2>1, <2>2, OffsetsFacts
<1>2. /\ p \in Site /\ Rank(s, p) = i
      /\ canvas = "video_fastest" => ~ IsExtrema /\ \A q \in Site : Rank(s, q) = q
      /\ \A q \in Site : Rank(s, q) \in 1..N
      /\ Site = 1..N
  BY <1>0, CallFacts
<1>3. m \in Points
  BY <1>1
<1>4. ASSUME Browsed(m)
      PROVE  m \in Neighbours[p] /\ m \in Site /\ Rank(s, m) > i /\ deja_vu[m]
  <2>1. m \in Site /\ deja_vu[m]
    BY <1>3, <1>4 DEF Browsed, Points
  <2>2. m \in Neighbours[p]
    BY <1>1, <1>2, <2>1 DEF Neighbours
  <2>3. Rank(s, m) > i
    <3>1. CASE canvas = "video_fastest"
      <4>1. m > p /\ Rank(s, m) = m /\ Rank(s, p) = p
        BY <1>1, <1>2, <1>4, <2>1, <3>1 DEF Browsed
      <4>2. QED
        BY <1>2, <4>1
    <3>2. CASE canvas # "video_fastest"
      BY <2>1, <3>2 DEF SeenInv
    <3>3. QED
      BY <3>1, <3>2
  <2>4. QED
    BY <2>1, <2>2, <2>3
<1>5. Passed = i - 1
  BY DEF Passed
<1>6. ASSUME Browsed(m), equiv(m, p) PROVE m \in Made /\ input[m] = input[p]
  <2>1. m \in Site /\ Rank(s, m) > i
    BY <1>4, <1>6
  <2>2. handles(m) /\ input[m] = input[p]
    BY <1>6 DEF equiv, handles, SiteInv
  <2>3. QED
    BY <1>0, <1>2, <1>5, <2>1, <2>2 DEF Made
<1>7. ASSUME m \in Made, Rank(s, m) > i
      PROVE  Browsed(m) /\ (~ equiv(m, p) => input[m] # input[p])
  <2>1. m \in Site /\ handles(m) /\ m # Outside
    BY <1>2, <1>7 DEF Made, Outside
  <2>2. deja_vu[m]
    BY <1>7, <2>1 DEF SeenInv
  <2>3. ~ equiv(m, p) => input[m] # input[p]
    BY <2>1 DEF equiv, handles
  <2>4. QED
    BY <2>1, <2>2, <2>3 DEF Browsed
<1>8. ASSUME IsExtrema, Browsed(m) PROVE m \in Made
  <2>1. m \in Site /\ Rank(s, m) > i
    BY <1>4, <1>8
  <2>2. handles(m)
    BY <1>8 DEF IsExtrema, handles
  <2>3. QED
    BY <1>0, <1>2, <1>5, <2>1, <2>2 DEF Made
<1>9. QED
  BY <1>4, <1>6, <1>7, <1>8

\* No neighbour that was linked before p is missing from the offsets.
LEMMA AllBrowsed ==
    ASSUME CallInv, i \in 1..N, NEW u \in Neighbours[p], Rank(s, u) > i
    PROVE  \E j \in 1..Len(Offsets) : Offsets[j] = u
<1>1. /\ s \in [1..N -> Site] /\ p \in Site /\ Rank(s, p) = i
      /\ canvas = "video_fastest" => \A q \in Site : Rank(s, q) = q
  BY CallFacts
<1>2. u \in Site /\ \E j \in DOMAIN Nbh[p] : Nbh[p][j] = u
  BY <1>1 DEF Neighbours
<1>3. canvas = "video_fastest" => u > p
  BY <1>1, <1>2
<1>4. Offsets \in Seq(Points) /\ \E j \in DOMAIN Offsets : Offsets[j] = u
  BY <1>1, <1>2, <1>3, OffsetsFacts
<1>5. QED
  BY <1>4

\* What a Do-Union does to the trees.
LEMMA UnionFacts ==
    ASSUME BuildInv, Union, NEW m, m = Offsets[k], NEW r, r = Root(parent, m)
    PROVE  /\ m \in Made /\ r \in Made /\ p \in Made /\ Browsed(m)
           /\ parent[r] = r /\ parent[p] = p
           /\ m \in Neighbours[p] /\ Rank(s, m) > i /\ input[m] = input[p]
           /\ parent' \in [Site -> Site \cup {Unset}]
           /\ Forest(s, parent', Made)
           /\ parent'[p] = p
           /\ \A q \in Made : Root(parent', q) = IF Root(parent, q) = r THEN p
                                                 ELSE Root(parent, q)
           /\ \A q \in Made : parent'[q] = q => parent[q] = q
           /\ attr' = IF r # p THEN merge_attr(r) ELSE attr
<1> USE DEF BuildInv
<1>1. /\ pc = "neighbours" /\ i \in 1..N /\ Browsed(m) /\ equiv(m, p)
      /\ k \in 1..Len(Offsets)
      /\ parent' = LinkRoot(m)
      /\ attr' = IF r # p THEN merge_attr(r) ELSE attr
  <2>1. /\ pc = "neighbours" /\ i \in 1..N /\ k <= Len(Offsets) /\ k \in Nat
        /\ Browsed(m) /\ equiv(m, p) /\ parent' = LinkRoot(m)
        /\ attr' = IF r # p THEN merge_attr(r) ELSE attr
    BY DEF Union, TypeOK
  <2>2. k # 0
    BY <2>1 DEF SiteInv
  <2>3. Offsets \in Seq(Points)
    BY <2>1, CallFacts, OffsetsFacts
  <2>4. QED
    BY <2>1, <2>2, <2>3
<1>2. m \in Made /\ input[m] = input[p] /\ m \in Neighbours[p] /\ Rank(s, m) > i
  BY <1>1, BrowsedFacts
<1>3. IsSiteArray(s) /\ Forest(s, parent, Made)
  BY DEF CallInv, TreesInv
<1>4. p \in Made /\ parent[p] = p /\ Rank(s, p) = i /\ \A q \in Made : Rank(s, q) >= i
  <2>1. p \in Site /\ Rank(s, p) = i /\ Passed = i - 1 /\ \A q \in Site : Rank(s, q) \in 1..N
    BY <1>1, CallFacts DEF Passed
  <2>2. QED
    BY <1>1, <2>1 DEF SiteInv, Made
<1>5. r \in Made /\ parent[r] = r
  BY <1>2, <1>3, RootFacts
<1>6. Rank(s, p) <= Rank(s, r)
  BY <1>4, <1>5
<1>7. parent' = [Compressed(parent, m) EXCEPT ![Root(parent, m)] = p]
  BY <1>1 DEF LinkRoot
<1>8. parent \in [Site -> Site \cup {Unset}]
  BY DEF TypeOK
<1>9. PICK o, D, link, next, t :
        o = s /\ D = Made /\ link = parent /\ next = parent' /\ t = p
  OBVIOUS
<1>10. /\ IsSiteArray(o) /\ link \in [Site -> Site \cup {Unset}]
       /\ Forest(o, link, D) /\ m \in D /\ t \in D /\ link[t] = t
       /\ Rank(o, t) <= Rank(o, Root(link, m))
       /\ Merged(next, link, m, t)
  BY <1>2, <1>3, <1>4, <1>6, <1>7, <1>8, <1>9 DEF Merged
<1>11. /\ next \in [Site -> Site \cup {Unset}]
       /\ Forest(o, next, D)
       /\ next[t] = t
       /\ \A q \in D : Root(next, q) = IF Root(link, q) = Root(link, m) THEN t ELSE Root(link, q)
       /\ \A q \in D : next[q] = q => link[q] = q
  BY <1>10, UnionRoots
<1>12. QED
  BY <1>1, <1>2, <1>4, <1>5, <1>9, <1>11

LEMMA CallStays ==
    Next \/ UNCHANGED vars =>
       /\ canvas' = canvas /\ functor' = functor /\ input' = input /\ s' = s
BY DEF Next, SkipSite, MakeSet, IgnoreNeighbour, Union, NoUnion, EndSite, SkipLabel,
       NewLabel, Abort, TakeLabel, Returned, call, vars

LEMMA TypeStep ==
    ASSUME BuildInv, Next
    PROVE  TypeOK'
<1> USE DEF BuildInv
<1>0. i \in 1..N /\ k \in Nat /\ p \in Site /\ N \in Nat \ {0}
  <2>1. i \in 1..N /\ k \in Nat
    BY DEF TypeOK
  <2>2. QED
    BY <2>1, CallFacts
<1>1. PreviousSite => /\ pc' \in {"make_set", "label"} /\ i' \in 1..N
  BY <1>0 DEF PreviousSite
<1>2. ASSUME NextSite, pc = "label", accus' \in Seq(SUBSET Site)
      PROVE  pc' \in {"label", "done"} /\ i' \in 1..N /\ result' \in Seq(SUBSET Site)
  BY <1>0, <1>2 DEF NextSite, TypeOK
<1>3. ASSUME NEW a \in Seq(SUBSET Site), NEW l \in Nat
      PROVE  Take(a, l) \in Seq(SUBSET Site) /\ Len(Take(a, l)) = Len(a)
  <2>1. \A A \in SUBSET Site : A \cup {p} \in SUBSET Site
    BY <1>0
  <2>2. Take(a, l) = [a EXCEPT ![l + 1] = a[l + 1] \cup {p}]
    BY DEF Take
  <2>3. CASE l + 1 \in 1..Len(a)
    <3>1. a[l + 1] \in SUBSET Site
      BY <2>3
    <3>2. QED
      BY <2>1, <2>2, <2>3, <3>1, ExceptSeq
  <2>4. CASE l + 1 \notin 1..Len(a)
    <3>1. a = [j \in 1..Len(a) |-> a[j]]
      OBVIOUS
    <3>2. Take(a, l) = a
      BY <2>2, <2>4, <3>1
    <3>3. QED
      BY <3>2
  <2>5. QED
    BY <2>3, <2>4
<1>4. CASE SkipSite
  BY <1>1, <1>4 DEF SkipSite, TypeOK
<1>5. CASE MakeSet
  BY <1>0, <1>5 DEF MakeSet, TypeOK, call
<1>6. CASE IgnoreNeighbour
  BY <1>0, <1>6 DEF IgnoreNeighbour, TypeOK
<1>7. CASE Union
  <2>1. PICK m, r : m = Offsets[k] /\ r = Root(parent, m)
    OBVIOUS
  <2>2. parent' \in [Site -> Site \cup {Unset}]
    BY <1>7, <2>1, UnionFacts
  <2>3. attr' \in [Site -> BOOLEAN]
    <3>1. r \in Site /\ attr' = IF r # p THEN merge_attr(r) ELSE attr
      BY <1>7, <2>1, UnionFacts DEF Made
    <3>2. merge_attr(r) \in [Site -> BOOLEAN]
      BY <1>0, <3>1 DEF merge_attr, TypeOK
    <3>3. QED
      BY <3>1, <3>2 DEF TypeOK
  <2>4. QED
    BY <1>0, <1>7, <2>2, <2>3 DEF Union, TypeOK
<1>8. CASE NoUnion
  BY <1>0, <1>8 DEF NoUnion, TypeOK
<1>9. CASE EndSite
  BY <1>0, <1>1, <1>9 DEF EndSite, TypeOK
<1>10. CASE SkipLabel
  BY <1>2, <1>10 DEF SkipLabel, TypeOK
<1>11. CASE NewLabel
  <2>1. nlabels' \in 0..MaxLabel /\ nlabels' \in Nat
    BY <1>11, LabelingAssumption DEF NewLabel, Exhausted, TypeOK
  <2>2. accus' \in Seq(SUBSET Site)
    <3>1. Append(accus, {}) \in Seq(SUBSET Site)
      BY DEF TypeOK
    <3>2. QED
      BY <1>3, <1>11, <2>1, <3>1 DEF NewLabel, set_new_label, TypeOK
  <2>3. output' \in [Site -> 0..MaxLabel]
    BY <1>0, <1>11, <2>1 DEF NewLabel, TypeOK
  <2>4. QED
    BY <1>2, <1>11, <2>1, <2>2, <2>3 DEF NewLabel, TypeOK
<1>12. CASE Abort
  BY <1>12 DEF Abort, TypeOK
<1>13. CASE TakeLabel
  <2>1. parent[p] \in Site
    <3>1. p \in Made
      <4>1. Rank(s, p) = i /\ Passed = 0
        BY <1>0, <1>13, CallFacts DEF Passed, TakeLabel
      <4>2. QED
        BY <1>0, <1>13, <4>1 DEF Made, TakeLabel
    <3>2. QED
      BY <3>1 DEF TreesInv, Forest
  <2>2. output[parent[p]] \in 0..MaxLabel /\ output[parent[p]] \in Nat
    BY <2>1, LabelingAssumption DEF TypeOK
  <2>3. output' \in [Site -> 0..MaxLabel] /\ output'[p] \in Nat
    BY <1>0, <1>13, <2>2 DEF TakeLabel, TypeOK
  <2>4. accus' \in Seq(SUBSET Site)
    BY <1>3, <1>13, <2>3 DEF TakeLabel, set_label, TypeOK
  <2>5. QED
    BY <1>2, <1>13, <2>3, <2>4 DEF TakeLabel, TypeOK
<1>14. CASE Returned
  BY <1>14 DEF Returned, TypeOK, vars
<1>15. QED
  BY <1>4, <1>5, <1>6, <1>7, <1>8, <1>9, <1>10, <1>11, <1>12, <1>13, <1>14 DEF Next

LEMMA MadeStep ==
    ASSUME BuildInv, Next
    PROVE  /\ CallInv'
           /\ \A q : (handles(q))' <=> handles(q)
           /\ Made' = IF pc = "make_set" /\ handles(p) THEN Made \cup {p} ELSE Made
           /\ pc = "make_set" => p \notin Made
           /\ pc \notin {"make_set", "neighbours"} => Passed = 0
<1>1. canvas' = canvas /\ functor' = functor /\ input' = input /\ s' = s
  BY CallStays
<1>2. CallInv' /\ \A q : (handles(q))' <=> handles(q)
  BY <1>1 DEF BuildInv, CallInv, LegalCall, IsExtrema, handles
<1>3. i \in 1..N /\ N \in Nat \ {0}
  BY CallFacts DEF BuildInv, TypeOK
<1>4. /\ p \in Site /\ Rank(s, p) = i
      /\ \A q \in Site : Rank(s, q) \in 1..N
      /\ \A q \in Site : Rank(s, q) = i => q = p
  BY <1>3, CallFacts DEF BuildInv
<1>5. Passed \in 0..N /\ \A q : q \in Made <=> q \in Site /\ handles(q) /\ Rank(s, q) > Passed
  BY <1>3 DEF Made, Passed
<1>6. \A q : q \in Made' <=> q \in Site /\ handles(q) /\ Rank(s, q) > Passed'
  BY <1>1, <1>2 DEF Made
<1>7. CASE pc = "make_set"
  <2>1. Passed = i /\ Passed' = i - 1
    <3>1. CASE SkipSite
      BY <1>3, <1>7, <3>1 DEF SkipSite, PreviousSite, Passed
    <3>2. CASE MakeSet
      BY <1>3, <1>7, <3>2 DEF MakeSet, Passed
    <3>3. QED
      BY <1>7, <3>1, <3>2 DEF Next, IgnoreNeighbour, Union, NoUnion, EndSite, SkipLabel,
                              NewLabel, Abort, TakeLabel, Returned
  <2>2. \A q \in Site : Rank(s, q) > i - 1 <=> Rank(s, q) > i \/ q = p
    BY <1>3, <1>4
  <2>3. \A q : q \in Made' <=> q \in Made \/ (q = p /\ handles(p))
    BY <1>4, <1>5, <1>6, <2>1, <2>2
  <2>4. p \notin Made
    BY <1>3, <1>4, <1>5, <2>1
  <2>5. Made' = IF handles(p) THEN Made \cup {p} ELSE Made
    <3>1. CASE handles(p)
      BY <2>3, <3>1
    <3>2. CASE ~ handles(p)
      BY <2>3, <3>2
    <3>3. QED
      BY <3>1, <3>2
  <2>6. QED
    BY <1>2, <1>7, <2>4, <2>5
<1>8. CASE pc # "make_set"
  <2>1. Passed' = Passed
    <3>1. CASE EndSite
      BY <1>3, <3>1 DEF EndSite, PreviousSite, Passed
    <3>2. CASE SkipLabel \/ NewLabel \/ TakeLabel
      BY <3>2 DEF SkipLabel, NewLabel, TakeLabel, NextSite, Passed
    <3>3. CASE IgnoreNeighbour \/ Union \/ NoUnion \/ Abort \/ Returned
      BY <3>3 DEF IgnoreNeighbour, Union, NoUnion, Abort, Returned, vars, Passed
    <3>4. QED
      BY <1>8, <3>1, <3>2, <3>3 DEF Next, SkipSite, MakeSet
  <2>2. Made' = Made
    BY <1>5, <1>6, <2>1
  <2>3. QED
    BY <1>2, <1>8, <2>2 DEF Passed
<1>9. QED
  BY <1>7, <1>8

\* A step that neither links nor pairs anything.
LEMMA SameTrees ==
    ASSUME BuildInv, Next, Made' = Made, parent' = parent, attr' = attr,
           \A t, u \in Site : (Paired(t, u))' <=> Paired(t, u)
    PROVE  TreesInv' /\ SoundInv' /\ JoinInv' /\ AttrInv'
<1>1. canvas' = canvas /\ functor' = functor /\ input' = input /\ s' = s
  BY CallStays
<1>2. TreesInv' /\ SoundInv'
  BY <1>1 DEF BuildInv, TreesInv, SoundInv, Zone
<1>3. JoinInv'
  BY <1>1 DEF BuildInv, JoinInv
<1>4. AttrInv'
  <2>1. IsExtrema' <=> IsExtrema
    BY <1>1 DEF IsExtrema
  <2>2. QED
    BY <1>1, <2>1 DEF BuildInv, AttrInv
<1>5. QED
  BY <1>2, <1>3, <1>4

\* Going on to the next neighbour pairs p with the one that is left.
LEMMA NextPair ==
    ASSUME BuildInv, Next, pc = "neighbours", pc' = pc, i' = i, k' = k + 1, k <= Len(Offsets)
    PROVE  /\ p' = p /\ Offsets' = Offsets /\ Made' = Made /\ k \in 1..Len(Offsets)
           /\ \A t, u \in Site :
                (Paired(t, u))' <=> \/ Paired(t, u)
                                   \/ /\ t = p /\ u = Offsets[k] /\ p \in Made /\ u \in Made
                                      /\ u \in Neighbours[p] /\ Rank(s, u) > i
<1>1. canvas' = canvas /\ functor' = functor /\ input' = input /\ s' = s
  BY CallStays
<1>2. p' = p /\ Offsets' = Offsets /\ Made' = Made /\ k \in Nat /\ k # 0
  BY <1>1, MadeStep DEF p, Offsets, BuildInv, TypeOK, SiteInv
<1>3. Offsets \in Seq(Points) /\ p \in Site /\ Rank(s, p) = i
  BY CallFacts, OffsetsFacts DEF BuildInv, TypeOK
<1>4. Len(Offsets) \in Nat /\ k \in 1..Len(Offsets)
  BY <1>2, <1>3
<1>5. SUFFICES ASSUME NEW t \in Site, NEW u \in Site
               PROVE  (Paired(t, u))' <=> \/ Paired(t, u)
                                         \/ /\ t = p /\ u = Offsets[k] /\ p \in Made /\ u \in Made
                                            /\ u \in Neighbours[p] /\ Rank(s, u) > i
  BY <1>2, <1>4
<1>6. CASE t # p
  BY <1>1, <1>2, <1>6 DEF Paired, Neighbours
<1>7. CASE t = p
  <2>1. (\E j \in 1..Len(Offsets) : j < k + 1 /\ Offsets[j] = u)
          <=> (\E j \in 1..Len(Offsets) : j < k /\ Offsets[j] = u) \/ Offsets[k] = u
    <3>1. \A j \in 1..Len(Offsets) : j < k + 1 <=> j < k \/ j = k
      BY <1>4
    <3>2. QED
      BY <1>4, <3>1
  <2>2. Paired(t, u) <=> /\ p \in Made /\ u \in Made /\ u \in Neighbours[p] /\ Rank(s, u) > i
                         /\ \E j \in 1..Len(Offsets) : j < k /\ Offsets[j] = u
    BY <1>3, <1>7 DEF Paired
  <2>3. (Paired(t, u))' <=> /\ p \in Made /\ u \in Made /\ u \in Neighbours[p] /\ Rank(s, u) > i
                            /\ \E j \in 1..Len(Offsets) : j < k + 1 /\ Offsets[j] = u
    BY <1>1, <1>2, <1>3, <1>7 DEF Paired, Neighbours
  <2>4. QED
    BY <1>7, <2>1, <2>2, <2>3
<1>8. QED
  BY <1>6, <1>7

LEMMA BuildStep ==
    ASSUME BuildInv, Next
    PROVE  BuildInv'
<1> USE DEF BuildInv
<1>a. /\ canvas' = canvas /\ functor' = functor /\ input' = input /\ s' = s
      /\ CallInv' /\ TypeOK'
  BY CallStays, MadeStep, TypeStep
<1>b. /\ i \in 1..N /\ N \in Nat \ {0} /\ p \in Site /\ Rank(s, p) = i
      /\ \A q \in Site : Rank(s, q) \in 1..N
      /\ \A q, r \in Site : Rank(s, q) = Rank(s, r) => q = r
  BY CallFacts DEF TypeOK
<1>c. /\ \A q : (handles(q))' <=> handles(q)
      /\ Made' = IF pc = "make_set" /\ handles(p) THEN Made \cup {p} ELSE Made
      /\ pc = "make_set" => p \notin Made
  BY MadeStep
<1>d. /\ IsExtrema' <=> IsExtrema
      /\ \A q : (Zone(q))' = Zone(q)
      /\ Neighbours' = Neighbours
  BY <1>a DEF IsExtrema, Zone, Neighbours
<1>e. Made \subseteq Site
  BY DEF Made
<1>1. CASE SkipSite
  <2> USE <1>1 DEF SkipSite
  <2>1. /\ pc = "make_set" /\ ~ handles(p) /\ PreviousSite
        /\ pc' \in {"make_set", "label"} /\ (pc' = "make_set" => i' = i - 1)
    BY DEF PreviousSite
  <2>2. \A t, u \in Site : (Paired(t, u))' <=> Paired(t, u)
    BY <1>a, <1>c, <2>1 DEF Paired
  <2>3. SeenInv'
    <3>1. SUFFICES ASSUME pc' = "make_set", NEW q \in Site
                   PROVE  deja_vu[q] <=> canvas = "video_fastest" \/ (handles(q) /\ Rank(s, q) > i')
      BY <1>a, <1>c, <2>1 DEF SeenInv
    <3>2. Rank(s, q) > i - 1 <=> Rank(s, q) > i \/ q = p
      BY <1>b
    <3>3. QED
      BY <2>1, <3>1, <3>2 DEF SeenInv
  <2>4. SiteInv'
    BY <2>1 DEF SiteInv
  <2>5. TreesInv' /\ SoundInv' /\ JoinInv' /\ AttrInv'
    BY <1>c, <2>1, <2>2, SameTrees
  <2>6. QED
    BY <1>a, <2>3, <2>4, <2>5
<1>2. CASE MakeSet
  <2> USE <1>2 DEF MakeSet
  <2>0. /\ pc = "make_set" /\ pc' = "neighbours" /\ handles(p) /\ i' = i /\ p' = p /\ k' = 1
        /\ p \notin Made /\ Made' = Made \cup {p} /\ attr' = attr
        /\ parent' = [parent EXCEPT ![p] = p]
    BY <1>a, <1>c DEF call, p
  <2>1. SeenInv'
    BY <1>a, <1>c, <2>0 DEF SeenInv
  <2>2. /\ parent'[p] = p
        /\ \A q \in Made : parent'[q] = parent[q]
    BY <1>b, <1>e, <2>0 DEF TypeOK
  <2>3. SiteInv'
    BY <1>c, <2>0, <2>2 DEF SiteInv
  <2>4. /\ Forest(s, parent', Made)
        /\ \A q \in Made : Root(parent', q) = Root(parent, q)
    <3>1. PICK next : next = parent'
      OBVIOUS
    <3>2. SameLinks(next, parent, Made)
      BY <2>2, <3>1 DEF SameLinks
    <3>3. IsSiteArray(s) /\ Forest(s, parent, Made)
      BY DEF TreesInv, CallInv
    <3>4. Forest(s, next, Made) /\ \A q \in Made : Root(next, q) = Root(parent, q)
      BY <3>2, <3>3, RootLocal
    <3>5. QED
      BY <3>1, <3>4
  <2>5. Forest(s, parent', Made')
    BY <1>b, <2>0, <2>2, <2>4 DEF Forest
  <2>6. Root(parent', p) = p
    <3>1. IsSiteArray(s) /\ p \in Made'
      BY <2>0 DEF CallInv
    <3>2. PICK next, D : next = parent' /\ D = Made'
      OBVIOUS
    <3>3. Forest(s, next, D) /\ p \in D /\ next[p] = p
      BY <2>2, <2>5, <3>1, <3>2
    <3>4. Root(next, p) = p
      BY <3>1, <3>3, RootOfParent
    <3>5. QED
      BY <3>2, <3>4
  <2>7. TreesInv'
    BY <1>a, <2>5 DEF TreesInv
  <2>8. SoundInv'
    <3>1. SUFFICES ASSUME NEW q \in Made' PROVE Root(parent', q) \in Zone(q)
      BY <1>d DEF SoundInv
    <3>2. CASE q = p
      BY <1>b, <2>6, <3>2, ZoneFacts DEF Zone
    <3>3. CASE q # p
      <4>1. q \in Made
        BY <2>0, <3>3
      <4>2. QED
        BY <2>4, <4>1 DEF SoundInv
    <3>4. QED
      BY <3>2, <3>3
  <2>9. \A t, u \in Site : (Paired(t, u))' <=> Paired(t, u)
    <3>1. \A q \in Made : Rank(s, q) > i
      BY <2>0 DEF Made, Passed
    <3>2. SUFFICES ASSUME NEW t \in Site, NEW u \in Site
                   PROVE  (Paired(t, u))' <=> Paired(t, u)
      OBVIOUS
    <3>3. CASE t = p
      <4>1. ~ Paired(t, u)
        BY <2>0, <3>3 DEF Paired
      <4>2. ~ (Paired(t, u))'
        <5>1. SUFFICES ASSUME (Paired(t, u))' PROVE FALSE
          OBVIOUS
        <5>2. PICK j \in 1..Len(Offsets') : j < k'
          BY <2>0, <3>3, <5>1 DEF Paired
        <5>3. QED
          BY <2>0, <5>2
      <4>3. QED
        BY <4>1, <4>2
    <3>4. CASE t # p /\ u = p
      <4>1. ~ Paired(t, u) /\ ~ (Paired(t, u))'
        BY <1>a, <1>b, <2>0, <3>1, <3>4 DEF Paired
      <4>2. QED
        BY <4>1
    <3>5. CASE t # p /\ u # p
      BY <1>a, <1>d, <2>0, <3>5 DEF Paired
    <3>6. QED
      BY <3>3, <3>4, <3>5
  <2>10. JoinInv'
    <3>1. \A t, u : Paired(t, u) => t \in Made /\ u \in Made
      BY DEF Paired
    <3>2. QED
      BY <1>a, <2>4, <2>9, <3>1 DEF JoinInv
  <2>11. AttrInv'
    <3> HIDE DEF MakeSet
    <3>1. \A t, u : Paired(t, u) => t \in Made /\ u \in Made
      BY DEF Paired
    <3>2. SUFFICES ASSUME IsExtrema, NEW q \in Site
                   PROVE  /\ q \notin Made' => attr'[q]
                          /\ q \in Made' /\ parent'[q] = q =>
                               (attr'[q] <=> \A t, u \in Site :
                                   ((Paired(t, u))' /\ Root(parent', t) = q) => input[t] = input[u])
      BY <1>a, <1>d DEF AttrInv
    <3>0. attr' = attr
      BY <2>0
    <3>3. CASE q = p
      <4>1. attr'[q]
        BY <3>0, <1>b, <2>0, <3>2, <3>3 DEF AttrInv
      <4>2. \A t \in Made : Root(parent', t) # p
        <5>1. \A t \in Made : Root(parent, t) \in Made
          BY RootFacts DEF TreesInv, CallInv
        <5>2. QED
          BY <2>0, <2>4, <5>1
      <4>3. QED
        BY <2>9, <3>1, <3>3, <4>1, <4>2
    <3>4. CASE q # p
      <4>1. /\ q \notin Made => attr[q]
            /\ q \in Made /\ parent[q] = q =>
                 (attr[q] <=> \A t, u \in Site :
                                (Paired(t, u) /\ Root(parent, t) = q) => input[t] = input[u])
        BY <3>2 DEF AttrInv
      <4>2. q \in Made' <=> q \in Made
        BY <2>0, <3>4
      <4>3. \A t, u \in Site : ((Paired(t, u))' /\ Root(parent', t) = q)
                                 <=> (Paired(t, u) /\ Root(parent, t) = q)
        BY <2>4, <2>9, <3>1
      <4>4. q \in Made => parent'[q] = parent[q]
        BY <2>2
      <4>5. QED
        BY <3>0, <4>1, <4>2, <4>3, <4>4
    <3>5. QED
      BY <3>3, <3>4
  <2>12. QED
    BY <1>a, <2>1, <2>3, <2>7, <2>8, <2>10, <2>11
<1>3. CASE IgnoreNeighbour
  <2> USE <1>3 DEF IgnoreNeighbour
  <2>0. /\ pc = "neighbours" /\ pc' = pc /\ i' = i /\ k' = k + 1 /\ k <= Len(Offsets)
        /\ parent' = parent /\ attr' = attr /\ deja_vu' = deja_vu /\ k \in Nat
    BY DEF TypeOK
  <2>1. p' = p /\ Made' = Made /\ k \in 1..Len(Offsets)
    BY <2>0, NextPair
  <2>2. SeenInv' /\ SiteInv'
    BY <1>a, <1>c, <2>0, <2>1 DEF SeenInv, SiteInv
  <2>3. \A t, u \in Site : (Paired(t, u))' <=> Paired(t, u)
    <3>1. ~ Browsed(Offsets[k])
      OBVIOUS
    <3>2. Offsets[k] \in Made /\ Rank(s, Offsets[k]) > i => Browsed(Offsets[k])
      BY <2>0, <2>1, BrowsedFacts
    <3>3. QED
      BY <2>0, <3>1, <3>2, NextPair
  <2>4. TreesInv' /\ SoundInv' /\ JoinInv' /\ AttrInv'
    BY <2>0, <2>1, <2>3, SameTrees
  <2>5. QED
    BY <1>a, <2>2, <2>4
<1>4. CASE Union
  <2> USE <1>4
  <2>0. /\ pc = "neighbours" /\ pc' = pc /\ i' = i /\ k' = k + 1 /\ k <= Len(Offsets)
        /\ deja_vu' = deja_vu /\ k \in Nat
    BY DEF Union, TypeOK
  <2>1. p' = p /\ Made' = Made
    BY <2>0, NextPair
  <2>2. PICK m, r : m = Offsets[k] /\ r = Root(parent, m)
    OBVIOUS
  <2>3. /\ m \in Made /\ r \in Made /\ p \in Made
        /\ parent[r] = r /\ parent[p] = p
        /\ m \in Neighbours[p] /\ Rank(s, m) > i /\ input[m] = input[p]
        /\ Forest(s, parent', Made) /\ parent'[p] = p
        /\ \A q \in Made : parent'[q] = q => parent[q] = q
        /\ attr' = IF r # p THEN merge_attr(r) ELSE attr
    BY <2>2, UnionFacts
  <2>4. \A q \in Made : Root(parent', q) = IF Root(parent, q) = r THEN p ELSE Root(parent, q)
    BY <2>2, UnionFacts
  <2>5. \A t, u \in Site : (Paired(t, u))' <=> Paired(t, u) \/ (t = p /\ u = m)
    BY <2>0, <2>2, <2>3, NextPair
  <2>6. SeenInv' /\ SiteInv'
    BY <1>a, <1>c, <2>0, <2>1, <2>3 DEF SeenInv, SiteInv
  <2>7. TreesInv'
    BY <1>a, <2>1, <2>3 DEF TreesInv
  <2>8. SoundInv'
    <3>1. SUFFICES ASSUME NEW q \in Made PROVE Root(parent', q) \in Zone(q)
      BY <1>d, <2>1 DEF SoundInv
    <3>2. CASE Root(parent, q) = r
      <4>1. r \in Zone(q) /\ r \in Zone(m) /\ m \in Zone(p)
        BY <1>e, <2>2, <2>3, <3>2, ZoneFacts DEF SoundInv, Zone
      <4>2. Zone(r) = Zone(q) /\ Zone(r) = Zone(m) /\ Zone(m) = Zone(p) /\ p \in Zone(p)
        BY <1>e, <2>3, <4>1, ZoneFacts DEF Zone
      <4>3. QED
        BY <2>4, <3>2, <4>2
    <3>3. CASE Root(parent, q) # r
      BY <2>4, <3>3 DEF SoundInv
    <3>4. QED
      BY <3>2, <3>3
  <2>9. \A t, u : Paired(t, u) => t \in Made /\ u \in Made
    BY DEF Paired
  <2>10. Root(parent, p) = p
    BY <2>3, RootOfParent DEF CallInv, TreesInv
  <2>11. JoinInv'
    <3>1. SUFFICES ASSUME NEW t \in Site, NEW u \in Site, (Paired(t, u))', input[t] = input[u]
                   PROVE  Root(parent', t) = Root(parent', u)
      BY <1>a DEF JoinInv
    <3>2. CASE Paired(t, u)
      <4>1. t \in Made /\ u \in Made /\ Root(parent, t) = Root(parent, u)
        BY <2>9, <3>1, <3>2 DEF JoinInv
      <4>2. QED
        BY <2>4, <4>1
    <3>3. CASE t = p /\ u = m
      BY <2>2, <2>3, <2>4, <2>10, <3>3
    <3>4. QED
      BY <2>5, <3>1, <3>2, <3>3
  <2>12. AttrInv'
    <3>1. SUFFICES ASSUME IsExtrema, NEW q \in Site
                   PROVE  /\ q \notin Made => attr'[q]
                          /\ q \in Made /\ parent'[q] = q =>
                               (attr'[q] <=> \A t, u \in Site :
                                   ((Paired(t, u))' /\ Root(parent', t) = q) => input[t] = input[u])
      BY <1>a, <1>d, <2>1 DEF AttrInv
    <3>2. \A w \in Site :
            /\ w \notin Made => attr[w]
            /\ w \in Made /\ parent[w] = w =>
                 (attr[w] <=> \A t, u \in Site :
                                (Paired(t, u) /\ Root(parent, t) = w) => input[t] = input[u])
      BY <3>1 DEF AttrInv
    <3>3. attr' = [attr EXCEPT ![p] = attr[p] /\ attr[r]]
      <4>1. CASE r # p
        BY <2>3, <3>1, <4>1 DEF merge_attr
      <4>2. CASE r = p
        <5>1. attr[p] \in BOOLEAN /\ attr \in [Site -> BOOLEAN]
          BY <1>b DEF TypeOK
        <5>2. [attr EXCEPT ![p] = attr[p]] = attr
          BY <5>1
        <5>3. (attr[p] /\ attr[p]) = attr[p]
          BY <5>1
        <5>4. QED
          BY <2>3, <4>2, <5>2, <5>3
      <4>3. QED
        BY <4>1, <4>2
    <3>4. attr'[p] = (attr[p] /\ attr[r]) /\ (q # p => attr'[q] = attr[q])
      BY <1>b, <3>3 DEF TypeOK
    <3>5. \A t, u \in Site :
            (Paired(t, u))' /\ input[t] # input[u]
              <=> Paired(t, u) /\ input[t] # input[u]
      BY <2>3, <2>5
    <3>6. CASE q = p
      <4>1. \A t \in Made : Root(parent', t) = p <=> Root(parent, t) = p \/ Root(parent, t) = r
        BY <2>4
      <4>2. attr[p] <=> \A t, u \in Site :
                          (Paired(t, u) /\ Root(parent, t) = p) => input[t] = input[u]
        BY <1>b, <2>3, <3>2
      <4>3. attr[r] <=> \A t, u \in Site :
                          (Paired(t, u) /\ Root(parent, t) = r) => input[t] = input[u]
        BY <1>e, <2>3, <3>2
      <4>4. attr'[p] <=> \A t, u \in Site :
                           ((Paired(t, u))' /\ Root(parent', t) = p) => input[t] = input[u]
        <5>1. attr'[p] <=> attr[p] /\ attr[r]
          BY <3>4
        <5>2. QED
          BY <2>9, <3>5, <4>1, <4>2, <4>3, <5>1
      <4>5. QED
        BY <2>3, <3>6, <4>4
    <3>7. CASE q # p
      <4>1. q \notin Made => attr'[q]
        BY <3>2, <3>4, <3>7
      <4>2. ASSUME q \in Made, parent'[q] = q
            PROVE  attr'[q] <=> \A t, u \in Site :
                     ((Paired(t, u))' /\ Root(parent', t) = q) => input[t] = input[u]
        <5>1. parent[q] = q /\ Root(parent', q) = q /\ Root(parent, q) = q
          <6>1. parent[q] = q
            BY <2>3, <4>2
          <6>2. PICK next : next = parent'
            OBVIOUS
          <6>3. Root(next, q) = q
            BY <2>3, <4>2, <6>2, RootOfParent DEF CallInv
          <6>4. Root(parent, q) = q
            BY <4>2, <6>1, RootOfParent DEF CallInv, TreesInv
          <6>5. QED
            BY <6>1, <6>2, <6>3, <6>4
        <5>2. q # r
          BY <2>4, <3>7, <4>2, <5>1
        <5>3. \A t \in Made : Root(parent', t) = q <=> Root(parent, t) = q
          BY <2>4, <3>7, <5>2
        <5>4. attr[q] <=> \A t, u \in Site :
                            (Paired(t, u) /\ Root(parent, t) = q) => input[t] = input[u]
          BY <3>2, <4>2, <5>1
        <5>5. attr'[q] <=> attr[q]
          BY <3>4, <3>7
        <5>6. QED
          BY <2>9, <3>5, <5>3, <5>4, <5>5
      <4>3. QED
        BY <4>1, <4>2
    <3>8. QED
      BY <3>6, <3>7
  <2>13. QED
    BY <1>a, <2>6, <2>7, <2>8, <2>11, <2>12
<1>5. CASE NoUnion
  <2> USE <1>5 DEF NoUnion
  <2>0. /\ pc = "neighbours" /\ pc' = pc /\ i' = i /\ k' = k + 1 /\ k <= Len(Offsets)
        /\ parent' = parent /\ deja_vu' = deja_vu /\ k \in Nat
        /\ attr' = IF IsExtrema THEN [attr EXCEPT ![p] = FALSE] ELSE attr
    BY DEF TypeOK
  <2>1. p' = p /\ Made' = Made /\ k \in 1..Len(Offsets)
    BY <2>0, NextPair
  <2>2. PICK m : m = Offsets[k]
    OBVIOUS
  <2>3. /\ Browsed(m) /\ ~ equiv(m, p)
        /\ m \in Made => input[m] # input[p]
        /\ IsExtrema => m \in Made
        /\ m \in Neighbours[p] /\ Rank(s, m) > i
    <3>1. Browsed(m) /\ ~ equiv(m, p)
      BY <2>2
    <3>2. m \in Neighbours[p] /\ Rank(s, m) > i
      BY <2>0, <2>1, <2>2, <3>1, BrowsedFacts
    <3>3. m \in Made => input[m] # input[p]
      BY <2>0, <2>1, <2>2, <3>1, <3>2, BrowsedFacts
    <3>4. IsExtrema => m \in Made
      BY <2>0, <2>1, <2>2, <3>1, BrowsedFacts
    <3>5. QED
      BY <3>1, <3>2, <3>3, <3>4
  <2>4. p \in Made
    <3>1. i > i - 1 /\ handles(p)
      BY <1>b, <2>0 DEF SiteInv
    <3>2. QED
      BY <1>b, <2>0, <3>1 DEF Made, Passed
  <2>5. \A t, u \in Site : (Paired(t, u))' <=> Paired(t, u) \/ (t = p /\ u = m /\ m \in Made)
    BY <2>0, <2>2, <2>3, <2>4, NextPair
  <2>6. SeenInv' /\ SiteInv'
    BY <1>a, <1>c, <2>0, <2>1 DEF SeenInv, SiteInv
  <2>7. TreesInv' /\ SoundInv'
    BY <1>a, <1>d, <2>0, <2>1 DEF TreesInv, SoundInv
  <2>8. JoinInv'
    BY <1>a, <2>0, <2>3, <2>5 DEF JoinInv
  <2>9. AttrInv'
    <3>1. SUFFICES ASSUME IsExtrema, NEW q \in Site
                   PROVE  /\ q \notin Made => attr'[q]
                          /\ q \in Made /\ parent[q] = q =>
                               (attr'[q] <=> \A t, u \in Site :
                                   ((Paired(t, u))' /\ Root(parent, t) = q) => input[t] = input[u])
      BY <1>a, <1>d, <2>0, <2>1 DEF AttrInv
    <3>2. /\ q \notin Made => attr[q]
          /\ q \in Made /\ parent[q] = q =>
                 (attr[q] <=> \A t, u \in Site :
                                (Paired(t, u) /\ Root(parent, t) = q) => input[t] = input[u])
      BY <3>1 DEF AttrInv
    <3>3. Root(parent, p) = p
      BY <2>0, <2>4, RootOfParent DEF CallInv, TreesInv, SiteInv
    <3>4. attr'[p] = FALSE /\ (q # p => attr'[q] = attr[q])
      BY <1>b, <2>0, <3>1 DEF TypeOK
    <3>5. CASE q = p
      <4>1. m \in Site /\ input[m] # input[q] /\ m \in Made
        BY <1>e, <2>3, <3>1, <3>5
      <4>2. (Paired(q, m))'
        BY <2>5, <3>5, <4>1
      <4>3. attr'[q] = FALSE /\ Root(parent, q) = q
        BY <3>3, <3>4, <3>5
      <4>4. ~ (\A t, u \in Site :
                 ((Paired(t, u))' /\ Root(parent, t) = q) => input[t] = input[u])
        BY <4>1, <4>2, <4>3
      <4>5. QED
        BY <2>4, <3>5, <4>3, <4>4
    <3>6. CASE q # p
      <4>1. \A t, u \in Site : Root(parent, t) = q => ((Paired(t, u))' <=> Paired(t, u))
        BY <2>5, <3>3, <3>6
      <4>2. QED
        BY <3>2, <3>4, <3>6, <4>1
    <3>7. QED
      BY <3>5, <3>6
  <2>10. QED
    BY <1>a, <2>6, <2>7, <2>8, <2>9
<1>6. CASE EndSite
  <2> USE <1>6 DEF EndSite
  <2>0. /\ pc = "neighbours" /\ ~ (k <= Len(Offsets)) /\ handles(p)
        /\ deja_vu' = [deja_vu EXCEPT ![p] = TRUE]
        /\ pc' \in {"make_set", "label"} /\ (pc' = "make_set" => i' = i - 1)
        /\ parent' = parent /\ attr' = attr /\ Made' = Made
    <3>1. Offsets \in Seq(Points) /\ k \in Nat
      BY <1>b, CallFacts, OffsetsFacts DEF TypeOK
    <3>2. k > Len(Offsets) /\ ~ (k <= Len(Offsets))
      BY <3>1
    <3>3. QED
      BY <1>c, <3>2 DEF PreviousSite, SiteInv
  <2>1. \A t, u \in Site : (Paired(t, u))' <=> Paired(t, u)
    <3>1. SUFFICES ASSUME NEW t \in Site, NEW u \in Site
                   PROVE  (Paired(t, u))' <=> Paired(t, u)
      OBVIOUS
    <3>2. (Paired(t, u))' <=> t \in Made /\ u \in Made /\ u \in Neighbours[t]
                              /\ Rank(s, u) > Rank(s, t)
      BY <1>a, <1>d, <2>0 DEF Paired
    <3>3. ASSUME t = p, u \in Neighbours[t], Rank(s, u) > Rank(s, t)
          PROVE  \E j \in 1..Len(Offsets) : j < k /\ Offsets[j] = u
      <4>1. PICK j \in 1..Len(Offsets) : Offsets[j] = u
        BY <1>b, <3>3, AllBrowsed
      <4>2. Len(Offsets) \in Nat /\ k \in Nat
        BY <1>b, CallFacts, OffsetsFacts DEF TypeOK
      <4>3. j < k
        BY <2>0, <4>1, <4>2
      <4>4. QED
        BY <4>1, <4>3
    <3>4. QED
      BY <2>0, <3>2, <3>3 DEF Paired
  <2>2. SeenInv'
    <3>1. SUFFICES ASSUME pc' = "make_set", NEW q \in Site
                   PROVE  deja_vu'[q] <=> canvas = "video_fastest" \/ (handles(q) /\ Rank(s, q) > i')
      BY <1>a, <1>c, <2>0 DEF SeenInv
    <3>2. Rank(s, q) > i - 1 <=> Rank(s, q) > i \/ q = p
      BY <1>b
    <3>3. deja_vu'[q] <=> q = p \/ deja_vu[q]
      BY <1>b, <2>0 DEF TypeOK
    <3>4. QED
      BY <2>0, <3>1, <3>2, <3>3 DEF SeenInv
  <2>3. SiteInv'
    BY <2>0 DEF SiteInv
  <2>4. TreesInv' /\ SoundInv' /\ JoinInv' /\ AttrInv'
    BY <2>0, <2>1, SameTrees
  <2>5. QED
    BY <1>a, <2>2, <2>3, <2>4
<1>7. CASE SkipLabel \/ NewLabel \/ Abort \/ TakeLabel \/ Returned
  <2>1. /\ pc \notin {"make_set", "neighbours"} /\ pc' \notin {"make_set", "neighbours"}
        /\ parent' = parent /\ attr' = attr
    BY <1>7 DEF SkipLabel, NewLabel, Abort, TakeLabel, Returned, NextSite, vars
  <2>2. Made' = Made
    BY <1>c, <2>1
  <2>3. \A t, u \in Site : (Paired(t, u))' <=> Paired(t, u)
    BY <1>a, <1>d, <2>1, <2>2 DEF Paired
  <2>4. TreesInv' /\ SoundInv' /\ JoinInv' /\ AttrInv'
    BY <2>1, <2>2, <2>3, SameTrees
  <2>5. QED
    BY <1>a, <2>1, <2>4 DEF SeenInv, SiteInv
<1>8. QED
  BY <1>1, <1>2, <1>3, <1>4, <1>5, <1>6, <1>7 DEF Next

LEMMA BuildStutter == BuildInv /\ UNCHANGED vars => BuildInv'
BY DEF BuildInv, vars, call, CallInv, LegalCall, IsExtrema, TypeOK, SeenInv, SiteInv, TreesInv,
       SoundInv, JoinInv, AttrInv, Made, Passed, Paired, Offsets, p, handles, Zone

LEMMA BuildInit == Init => BuildInv
<1> SUFFICES ASSUME Init PROVE BuildInv
  OBVIOUS
<1> USE DEF Init, Start
<1>1. CallInv
  BY DEF CallInv, IsSiteArray
<1>2. N \in Nat \ {0} /\ N \in 1..N /\ 0 \in 0..MaxLabel
  BY RegionsAssumption, LabelingAssumption
<1>3. TypeOK
  <2>1. accus \in Seq(SUBSET Site) /\ result \in Seq(SUBSET Site)
    <3>1. << {} >> \in Seq(SUBSET Site) /\ <<>> \in Seq(SUBSET Site)
      OBVIOUS
    <3>2. QED
      BY <3>1
  <2>2. QED
    BY <1>2, <2>1 DEF TypeOK, Unset
<1>4. \A q \in Site : Rank(s, q) \in 1..N /\ ~ (Rank(s, q) > N)
  <2>1. \A q \in Site : Rank(s, q) \in 1..N
    BY <1>1, <1>2, CallFacts
  <2>2. QED
    BY <1>2, <2>1
<1>5. Made = {}
  BY <1>4 DEF Made, Passed
<1>6. SeenInv /\ SiteInv
  BY <1>4 DEF SeenInv, SiteInv
<1>7. TreesInv /\ SoundInv /\ JoinInv /\ AttrInv
  BY <1>5 DEF TreesInv, Forest, SoundInv, JoinInv, Paired, AttrInv
<1>8. QED
  BY <1>1, <1>3, <1>6, <1>7 DEF BuildInv

\* The extrema are computed on sites sorted by value.
Beyond(q, r) == IF functor = "regional_minima" THEN input[q] >= input[r]
                                               ELSE input[q] <= input[r]

LEMMA SortedFacts ==
    ASSUME CallInv, IsExtrema, NEW j \in 1..N, NEW l \in 1..N, j <= l
    PROVE  Beyond(s[j], s[l])
<1> DEFINE Bad == {m \in j..N : ~ Beyond(s[j], s[m])}
<1>1. /\ N \in Nat /\ j \in 1..N
      /\ \A m \in 1..N : s[m] \in Site
      /\ \A q \in Site : input[q] \in Int
      /\ \A m \in 1..(N - 1) : Beyond(s[m], s[m + 1])
  <2>1. N \in Nat \ {0} /\ 1 \in 1..N
    BY RegionsAssumption
  <2>2. s \in [1..N -> Site] /\ \A q \in Site : input[q] \in Int
    BY LabelingAssumption DEF CallInv, IsSiteArray
  <2>3. \A m \in 1..(N - 1) : Beyond(s[m], s[m + 1])
    BY DEF CallInv, LegalCall, Beyond
  <2>4. QED
    BY <2>1, <2>2, <2>3
<1>2. SUFFICES ASSUME Bad # {} PROVE FALSE
  BY <1>1
<1>3. PICK m \in Bad : \A n \in Bad : m <= n
  <2>1. Bad \in SUBSET Nat
    BY <1>1
  <2> HIDE DEF Bad
  <2>2. QED
    BY <1>2, <2>1, LeastNat
<1>4. m # j
  BY <1>1, <1>3 DEF Beyond
<1>5. /\ m - 1 \in j..N /\ m - 1 \notin Bad /\ m - 1 \in 1..(N - 1) /\ (m - 1) + 1 = m
      /\ m \in 1..N /\ m - 1 \in 1..N
  BY <1>1, <1>3, <1>4
<1>6. Beyond(s[j], s[m - 1]) /\ Beyond(s[m - 1], s[m])
  BY <1>1, <1>5
<1>7. PICK a, b, c \in Int : a = input[s[j]] /\ b = input[s[m - 1]] /\ c = input[s[m]]
  BY <1>1, <1>5
<1>8. Beyond(s[j], s[m])
  <2>1. CASE functor = "regional_minima"
    BY <1>6, <1>7, <2>1 DEF Beyond
  <2>2. CASE functor # "regional_minima"
    BY <1>6, <1>7, <2>2 DEF Beyond
  <2>3. QED
    BY <2>1, <2>2
<1>9. QED
  BY <1>3, <1>8

\* The neighbours of another value browsed first are beyond p, ties included.
THEOREM NeighboursAreBeyond == Spec => []BrowsedFirstAreBeyond
<1>1. BuildInv /\ [Next]_vars => BuildInv'
  BY BuildStep, BuildStutter
<1>2. BuildInv => BrowsedFirstAreBeyond
  <2> SUFFICES ASSUME BuildInv, pc = "neighbours", IsExtrema,
                      NEW j \in 1..Len(Offsets), Browsed(Offsets[j]), ~ equiv(Offsets[j], p)
               PROVE  IF functor = "regional_minima" THEN input[Offsets[j]] < input[p]
                                                     ELSE input[Offsets[j]] > input[p]
    BY DEF BrowsedFirstAreBeyond
  <2>1. PICK m : m = Offsets[j]
    OBVIOUS
  <2>2. i \in 1..N /\ m \in Site /\ Rank(s, m) > i
    BY <2>1, BrowsedFacts DEF BuildInv, TypeOK
  <2>3. /\ p \in Site /\ Rank(s, m) \in 1..N /\ s[Rank(s, m)] = m
        /\ input[m] \in Int /\ input[p] \in Int
    BY <2>2, CallFacts DEF BuildInv
  <2>4. Beyond(p, m)
    BY <2>2, <2>3, SortedFacts DEF BuildInv, p
  <2>5. input[m] # input[p]
    BY <2>1 DEF equiv, IsExtrema
  <2>6. QED
    BY <2>1, <2>3, <2>4, <2>5 DEF Beyond
<1>3. QED
  BY <1>1, <1>2, BuildInit, PTL DEF Spec

\* In every state the links, labels and accumulators are of the right kind: no
\* label exceeds what its type can hold.
THEOREM LabelsFit == Spec => []TypeOK
<1>1. BuildInv /\ [Next]_vars => BuildInv'
  BY BuildStep, BuildStutter
<1>2. BuildInv => TypeOK
  BY DEF BuildInv
<1>3. QED
  BY <1>1, <1>2, BuildInit, PTL DEF Spec

\* Once the first pass is over, the sites that share a root are a zone, whose
\* root comes first in s, and the attribute of the root tells an extremum.
LEMMA BuiltZones ==
    ASSUME BuildInv, pc \notin {"make_set", "neighbours"}, NEW q \in Site, handles(q)
    PROVE  /\ \A r \in Site : r \in Zone(q) <=> handles(r) /\ Root(parent, r) = Root(parent, q)
           /\ Root(parent, q) \in Zone(q)
           /\ handles(Root(parent, q))
           /\ parent[Root(parent, q)] = Root(parent, q)
           /\ \A r \in Zone(q) : Rank(s, Root(parent, q)) <= Rank(s, r)
           /\ labels(Root(parent, q)) <=> Zone(q) \in Objects
<1> USE DEF BuildInv
<1>0. i \in 1..N
  BY DEF TypeOK
<1>1. \A r : r \in Made <=> r \in Site /\ handles(r)
  <2>1. \A r \in Site : Rank(s, r) \in 1..N /\ Rank(s, r) > 0
    BY <1>0, CallFacts
  <2>2. QED
    BY <2>1 DEF Made, Passed
<1>2. IsSiteArray(s) /\ Forest(s, parent, Made)
  BY DEF CallInv, TreesInv
<1>3. \A t, u \in Site : Paired(t, u) <=> t \in Made /\ u \in Made /\ u \in Neighbours[t]
                                        /\ Rank(s, u) > Rank(s, t)
  BY DEF Paired
<1>4. /\ \A t \in Site : Rank(s, t) \in 1..N
      /\ \A t, u \in Site : Rank(s, t) = Rank(s, u) => t = u
      /\ \A t \in Site : s[Rank(s, t)] = t /\ input[t] \in Int
  BY <1>0, CallFacts
<1>5. \A t \in Site : \A u \in Neighbours[t] : u \in Site /\ t \in Neighbours[u]
  BY RegionsAssumption DEF Neighbours
<1>6. ASSUME NEW t \in Made, NEW u \in Made, u \in Neighbours[t], input[t] = input[u]
      PROVE  Root(parent, t) = Root(parent, u)
  <2>1. t \in Site /\ u \in Site /\ t \in Neighbours[u]
    BY <1>1, <1>5, <1>6
  <2>2. Rank(s, u) > Rank(s, t) \/ Rank(s, t) > Rank(s, u) \/ t = u
    BY <1>4, <2>1
  <2>3. QED
    BY <1>3, <1>6, <2>1, <2>2 DEF JoinInv
<1>7. ASSUME NEW r \in Site, r \in Zone(q) PROVE handles(r) /\ Root(parent, r) = Root(parent, q)
  <2> DEFINE C == {t \in Made : Root(parent, t) = Root(parent, q)}
  <2>1. C \in Closed(input)
    <3>1. ASSUME NEW t \in Site, NEW u \in Neighbours[t], input[t] = input[u]
          PROVE  t \in C <=> u \in C
      <4>1. u \in Site /\ (handles(t) <=> handles(u))
        BY <1>5, <3>1 DEF handles
      <4>2. CASE handles(t)
        BY <1>1, <1>6, <3>1, <4>1, <4>2
      <4>3. CASE ~ handles(t)
        BY <1>1, <4>1, <4>3
      <4>4. QED
        BY <4>2, <4>3
    <3>2. C \in SiteSets
      BY <1>1 DEF SiteSets
    <3> HIDE DEF C
    <3>3. QED
      BY <3>1, <3>2 DEF Closed
  <2>2. q \in C
    BY <1>1
  <2>3. r \in C
    <3> HIDE DEF C
    <3>1. QED
      BY <1>7, <2>1, <2>2, ZoneFacts DEF Zone
  <2>4. QED
    BY <1>1, <2>3
<1>8. \A t \in Made : Root(parent, t) \in Zone(t) /\ Zone(Root(parent, t)) = Zone(t)
                      /\ t \in Zone(Root(parent, t))
  BY <1>1, ZoneFacts DEF SoundInv, Zone
<1>9. ASSUME NEW r \in Site, handles(r), Root(parent, r) = Root(parent, q) PROVE r \in Zone(q)
  BY <1>1, <1>8, <1>9
<1>10. PICK root : root = Root(parent, q)
  OBVIOUS
<1>11. /\ root \in Made /\ parent[root] = root /\ root \in Zone(q)
       /\ \A r \in Zone(q) : Rank(s, root) <= Rank(s, r)
  <2>1. \A t \in Made : /\ Root(parent, t) \in Made
                         /\ parent[Root(parent, t)] = Root(parent, t)
                         /\ Rank(s, Root(parent, t)) <= Rank(s, t)
    BY <1>2, RootFacts
  <2>2. Zone(q) \subseteq Site
    BY ZoneFacts DEF Zone
  <2>3. \A r \in Zone(q) : r \in Made /\ Root(parent, r) = root
    BY <1>1, <1>7, <1>10, <2>2
  <2>4. QED
    BY <1>1, <1>8, <1>10, <2>1, <2>3
<1>12. labels(root) <=> Zone(q) \in Objects
  <2>1. Zone(q) \in FlatZones(input) /\ \A t \in Zone(q) : handles(t)
    <3>1. Zone(q) \in FlatZones(input)
      BY DEF Zone, FlatZone, FlatZones
    <3>2. \A t \in Zone(q) : t \in Site
      BY ZoneFacts DEF Zone
    <3>3. QED
      BY <1>7, <3>1, <3>2
  <2>2. CASE ~ IsExtrema
    BY <2>1, <2>2 DEF labels, Objects, IsExtrema
  <2>3. CASE IsExtrema
    <3>1. attr[root] <=> \A t, u \in Site :
                           (Paired(t, u) /\ Root(parent, t) = root) => input[t] = input[u]
      BY <1>1, <1>11, <2>3 DEF AttrInv
    <3>2. \A t : t \in Made <=> t \in Site
      BY <1>1, <2>3 DEF handles, IsExtrema
    <3>3. attr[root] <=> \A t \in Zone(q) : \A u \in Neighbours[t] :
                            Rank(s, u) > Rank(s, t) => input[t] = input[u]
      <4>1. \A t : t \in Zone(q) <=> t \in Site /\ Root(parent, t) = root
        BY <1>1, <1>7, <1>9, <1>10, <3>2, ZoneFacts DEF Zone
      <4>2. QED
        BY <1>3, <1>5, <3>1, <3>2, <4>1
    <3>4. ASSUME NEW t \in Site, NEW u \in Site, Rank(s, u) > Rank(s, t)
          PROVE  Beyond(t, u)
      <4>1. Beyond(s[Rank(s, t)], s[Rank(s, u)])
        BY <1>4, <2>3, <3>4, SortedFacts
      <4>2. QED
        BY <1>4, <4>1
    <3>5. ASSUME NEW t \in Site, NEW u \in Site, ~ (Rank(s, u) > Rank(s, t))
          PROVE  Beyond(u, t)
      <4>1. Beyond(s[Rank(s, u)], s[Rank(s, t)])
        BY <1>4, <2>3, <3>5, SortedFacts
      <4>2. QED
        BY <1>4, <4>1
    <3>6. Zone(q) \subseteq Site
      BY ZoneFacts DEF Zone
    <3>7. CASE functor = "regional_minima"
      <4>1. \A t \in Zone(q) : \A u \in Neighbours[t] :
              (Rank(s, u) > Rank(s, t) => input[t] = input[u]) <=> input[t] <= input[u]
        <5>1. SUFFICES ASSUME NEW t \in Zone(q), NEW u \in Neighbours[t]
                       PROVE  (Rank(s, u) > Rank(s, t) => input[t] = input[u])
                                <=> input[t] <= input[u]
          OBVIOUS
        <5>2. t \in Site /\ u \in Site /\ input[t] \in Int /\ input[u] \in Int
          BY <1>4, <1>5, <3>6
        <5>3. CASE Rank(s, u) > Rank(s, t)
          BY <3>4, <3>7, <5>2, <5>3 DEF Beyond
        <5>4. CASE ~ (Rank(s, u) > Rank(s, t))
          BY <3>5, <3>7, <5>2, <5>4 DEF Beyond
        <5>5. QED
          BY <5>3, <5>4
      <4>2. attr[root] <=> IsMinimum(input, Zone(q))
        BY <3>3, <4>1 DEF IsMinimum
      <4>3. QED
        BY <2>1, <2>3, <3>7, <4>2 DEF labels, Objects
    <3>8. CASE functor = "regional_maxima"
      <4>1. \A t \in Zone(q) : \A u \in Neighbours[t] :
              (Rank(s, u) > Rank(s, t) => input[t] = input[u]) <=> input[t] >= input[u]
        <5>1. SUFFICES ASSUME NEW t \in Zone(q), NEW u \in Neighbours[t]
                       PROVE  (Rank(s, u) > Rank(s, t) => input[t] = input[u])
                                <=> input[t] >= input[u]
          OBVIOUS
        <5>2. t \in Site /\ u \in Site /\ input[t] \in Int /\ input[u] \in Int
          BY <1>4, <1>5, <3>6
        <5>3. CASE Rank(s, u) > Rank(s, t)
          BY <3>4, <3>8, <5>2, <5>3 DEF Beyond
        <5>4. CASE ~ (Rank(s, u) > Rank(s, t))
          BY <3>5, <3>8, <5>2, <5>4 DEF Beyond
        <5>5. QED
          BY <5>3, <5>4
      <4>2. attr[root] <=> IsMaximum(input, Zone(q))
        BY <3>3, <4>1 DEF IsMaximum
      <4>3. QED
        BY <2>1, <2>3, <3>8, <4>2 DEF labels, Objects
    <3>9. QED
      BY <2>3, <3>7, <3>8 DEF IsExtrema
  <2>4. QED
    BY <2>2, <2>3
<1>13. QED
  BY <1>1, <1>7, <1>9, <1>10, <1>11, <1>12

\* Whatever was merged in which order and compressed on the way, the trees of
\* the first pass are the zones, and each root comes first in s.
THEOREM TreesAreZones == Spec => []RootsAreZones
<1>1. BuildInv /\ [Next]_vars => BuildInv'
  BY BuildStep, BuildStutter
<1>2. BuildInv => RootsAreZones
  <2> SUFFICES ASSUME BuildInv, pc = "label", NEW q \in Site, handles(q)
               PROVE  LET root == Root(parent, q)
                          first == CHOOSE j \in 1..N : s[j] = root
                          Z == ZoneIn(Closed(input), q)
                      IN /\ {r \in Site : handles(r) /\ Root(parent, r) = root} = Z
                         /\ \A j \in 1..N : s[j] \in Z => first <= j
    BY DEF RootsAreZones
  <2>1. PICK root : root = Root(parent, q)
    OBVIOUS
  <2>2. Zone(q) = ZoneIn(Closed(input), q) /\ Zone(q) \subseteq Site
    BY ZoneFacts DEF Zone, FlatZone
  <2>3. /\ \A r \in Site : r \in Zone(q) <=> handles(r) /\ Root(parent, r) = root
        /\ \A r \in Zone(q) : Rank(s, root) <= Rank(s, r)
    BY <2>1, BuiltZones
  <2>4. {r \in Site : handles(r) /\ Root(parent, r) = root} = Zone(q)
    BY <2>2, <2>3
  <2>5. \A j \in 1..N : Rank(s, s[j]) = j
    BY RankFacts DEF BuildInv, CallInv
  <2>6. \A j \in 1..N : s[j] \in Zone(q) => Rank(s, root) <= j
    BY <2>3, <2>5
  <2>7. QED
    BY <2>1, <2>2, <2>4, <2>6 DEF Rank
<1>3. QED
  BY <1>1, <1>2, BuildInit, PTL DEF Spec

-----------------------------------------------------------------------------
(* The second pass.                                                         *)

LEMMA FirstIsRank ==
    ASSUME CallInv, NEW Z \in SUBSET Site, NEW r \in Z,
           \A t \in Z : Rank(s, r) <= Rank(s, t)
    PROVE  FirstOf(Z) = Rank(s, r)
<1> DEFINE IsFirst(j) == j \in 1..N /\ s[j] \in Z /\ \A l \in 1..(j - 1) : s[l] \notin Z
<1>0. /\ N \in Nat /\ Rank(s, r) \in 1..N /\ s[Rank(s, r)] = r
      /\ \A j \in 1..N : Rank(s, s[j]) = j
  BY RankFacts, RegionsAssumption DEF CallInv
<1>1. IsFirst(Rank(s, r))
  BY <1>0
<1>2. \A j : IsFirst(j) => j = Rank(s, r)
  <2>1. SUFFICES ASSUME NEW j, IsFirst(j) PROVE j = Rank(s, r)
    OBVIOUS
  <2>2. Rank(s, r) <= j
    BY <1>0, <2>1
  <2>3. ~ (Rank(s, r) \in 1..(j - 1))
    BY <1>0, <2>1
  <2>4. QED
    BY <1>0, <2>1, <2>2, <2>3
<1>3. FirstOf(Z) = CHOOSE j : IsFirst(j)
  BY DEF FirstOf
<1> HIDE DEF IsFirst
<1>4. QED
  BY <1>1, <1>2, <1>3

\* The site p is met first in its zone when it is a root, and an object is met
\* at place i only then.
LEMMA MetFacts ==
    ASSUME BuildInv, pc \notin {"make_set", "neighbours"}
    PROVE  /\ \A j \in Int : IsFiniteSet(Met(j)) /\ Cardinality(Met(j)) \in Nat
           /\ IsFiniteSet(Objects)
           /\ Met(N) = Objects
           /\ handles(p) /\ IsRoot(p) => FirstOf(Zone(p)) = i /\ (labels(p) <=> Zone(p) \in Objects)
           /\ Met(i) = IF handles(p) /\ IsRoot(p) /\ labels(p)
                         THEN Met(i - 1) \cup {Zone(p)} ELSE Met(i - 1)
           /\ handles(p) /\ IsRoot(p) => Zone(p) \notin Met(i - 1)
<1> USE DEF BuildInv
<1>0. /\ i \in 1..N /\ N \in Nat \ {0} /\ p \in Site /\ Rank(s, p) = i /\ Site = 1..N
      /\ \A q, r \in Site : Rank(s, q) = Rank(s, r) => q = r
      /\ \A q \in Site : Rank(s, q) \in 1..N
  BY CallFacts DEF TypeOK
<1>1. IsFiniteSet(Objects) /\ \A j \in Int : Met(j) \subseteq Objects
  <2>1. IsFiniteSet(SUBSET Site)
    <3>1. IsFiniteSet(Site)
      BY <1>0, FS_Interval
    <3>2. QED
      BY <3>1, FS_SUBSET
  <2>2. Objects \subseteq SUBSET Site
    BY DEF Objects, FlatZones, ZoneIn
  <2>3. QED
    BY <2>1, <2>2, FS_Subset DEF Met
<1>2. \A j \in Int : IsFiniteSet(Met(j)) /\ Cardinality(Met(j)) \in Nat
  BY <1>1, FS_Subset, FS_CardinalityType
<1>3. ASSUME NEW Y \in Objects
      PROVE  \E q \in Site : /\ Y = Zone(q) /\ handles(q)
                            /\ Root(parent, q) \in Site /\ FirstOf(Y) = Rank(s, Root(parent, q))
  <2>1. PICK q \in Site : Y = Zone(q)
    BY DEF Objects, FlatZones, Zone, FlatZone
  <2>2. q \in Y /\ Y \subseteq Site /\ \A t \in Y : handles(t)
    BY <2>1, ZoneFacts DEF Objects, Zone
  <2>3. Root(parent, q) \in Y /\ \A t \in Y : Rank(s, Root(parent, q)) <= Rank(s, t)
    BY <2>1, <2>2, BuiltZones
  <2>4. FirstOf(Y) = Rank(s, Root(parent, q))
    BY <2>2, <2>3, FirstIsRank
  <2>5. QED
    BY <2>1, <2>2, <2>3, <2>4
<1>4. \A Y \in Objects : FirstOf(Y) \in 1..N
  BY <1>0, <1>3
<1>5. Met(N) = Objects
  BY <1>0, <1>4 DEF Met
<1>6. ASSUME handles(p), IsRoot(p)
      PROVE  FirstOf(Zone(p)) = i /\ (labels(p) <=> Zone(p) \in Objects)
  <2>1. Root(parent, p) = p
    <3>1. p \in Made
      BY <1>0, <1>6 DEF Made, Passed
    <3>2. QED
      BY <1>6, <3>1, RootOfParent DEF CallInv, TreesInv, IsRoot
  <2>2. /\ p \in Zone(p) /\ Zone(p) \subseteq Site
        /\ \A t \in Zone(p) : Rank(s, p) <= Rank(s, t)
        /\ labels(p) <=> Zone(p) \in Objects
    BY <1>0, <1>6, <2>1, BuiltZones, ZoneFacts DEF Zone
  <2>3. FirstOf(Zone(p)) = Rank(s, p)
    BY <2>2, FirstIsRank
  <2>4. QED
    BY <1>0, <2>2, <2>3
<1>7. ASSUME NEW Y \in Objects, FirstOf(Y) = i
      PROVE  Y = Zone(p) /\ handles(p) /\ IsRoot(p) /\ labels(p)
  <2>1. PICK q \in Site : /\ Y = Zone(q) /\ handles(q)
                          /\ Root(parent, q) \in Site /\ FirstOf(Y) = Rank(s, Root(parent, q))
    BY <1>3
  <2>2. Root(parent, q) = p
    BY <1>0, <1>7, <2>1
  <2>3. /\ p \in Zone(q) /\ handles(p) /\ parent[p] = p /\ labels(p)
    BY <2>1, <2>2, BuiltZones
  <2>4. Zone(p) = Zone(q)
    BY <2>1, <2>3, ZoneFacts DEF Zone
  <2>5. QED
    BY <2>1, <2>3, <2>4 DEF IsRoot
<1>8. \A Y \in Objects : FirstOf(Y) <= i <=> FirstOf(Y) <= i - 1 \/ FirstOf(Y) = i
  BY SMTT(30), <1>0, <1>4
<1>9. Met(i) = IF handles(p) /\ IsRoot(p) /\ labels(p)
                 THEN Met(i - 1) \cup {Zone(p)} ELSE Met(i - 1)
  <2>1. CASE handles(p) /\ IsRoot(p) /\ labels(p)
    <3>1. Zone(p) \in Objects /\ FirstOf(Zone(p)) = i
      BY <1>6, <2>1
    <3>2. \A Y : Y \in Met(i) <=> Y \in Met(i - 1) \/ Y = Zone(p)
      BY <1>7, <1>8, <3>1 DEF Met
    <3>3. Met(i) = Met(i - 1) \cup {Zone(p)}
      BY <3>2
    <3>4. QED
      BY <2>1, <3>3
  <2>2. CASE ~ (handles(p) /\ IsRoot(p) /\ labels(p))
    <3>1. \A Y : Y \in Met(i) <=> Y \in Met(i - 1)
      BY <1>7, <1>8, <2>2 DEF Met
    <3>2. Met(i) = Met(i - 1)
      BY <3>1 DEF Met
    <3>3. QED
      BY <2>2, <3>2
  <2>3. QED
    BY <2>1, <2>2
<1>10. handles(p) /\ IsRoot(p) => Zone(p) \notin Met(i - 1)
  <2>1. ~ (i <= i - 1)
    BY <1>0
  <2>2. QED
    BY <1>6, <2>1 DEF Met
<1>11. QED
  BY <1>1, <1>2, <1>5, <1>6, <1>9, <1>10

LEMMA OutputInit == Init => OutputInv /\ AccusFollowOutput
<1> SUFFICES ASSUME Init PROVE OutputInv /\ AccusFollowOutput
  OBVIOUS
<1> USE DEF Init, Start
<1>1. CallInv /\ TypeOK /\ i \in 1..N
  BY BuildInit DEF BuildInv, TypeOK
<1>2. Dealt = 0 /\ \A q \in Site : Rank(s, q) \in 1..N /\ ~ (Rank(s, q) <= 0)
  <2>1. \A q \in Site : Rank(s, q) \in 1..N
    BY <1>1, CallFacts
  <2>2. QED
    BY <2>1 DEF Dealt
<1>3. Met(0) = {}
  <2>1. SUFFICES ASSUME NEW Y \in Objects PROVE ~ (FirstOf(Y) <= 0)
    BY DEF Met
  <2>2. PICK q \in Site : Y = Zone(q)
    BY DEF Objects, FlatZones, Zone, FlatZone
  <2>3. q \in Y /\ Y \subseteq Site
    BY <2>2, ZoneFacts DEF Zone
  <2> DEFINE ranks == {Rank(s, t) : t \in Y}
  <2>4. PICK j \in ranks : \A l \in ranks : j <= l
    <3>1. ranks \in SUBSET Nat /\ ranks # {}
      BY <1>2, <2>3
    <3> HIDE DEF ranks
    <3>2. QED
      BY <3>1, LeastNat
  <2>5. PICK t \in Y : \A u \in Y : Rank(s, t) <= Rank(s, u)
    BY <2>4
  <2>6. FirstOf(Y) = Rank(s, t)
    BY <1>1, <2>3, <2>5, FirstIsRank
  <2>7. QED
    BY <1>2, <2>3, <2>6
<1>4. OutputInv
  <2>1. pc = "make_set" /\ nlabels = 0 /\ \A q \in Site : output[q] = 0
    OBVIOUS
  <2>2. Cardinality(Met(Dealt)) = 0
    BY <1>2, <1>3, FS_EmptySet
  <2> HIDE DEF Init, Start
  <2>3. QED
    BY <1>2, <2>1, <2>2 DEF OutputInv
<1>5. AccusFollowOutput
  BY DEF AccusFollowOutput, CallsBack
<1>6. QED
  BY <1>4, <1>5

\* A step of the second pass that deals with p.
LEMMA NextSiteDeals ==
    ASSUME i \in 1..N, N \in Nat, pc = "label", NextSite
    PROVE  /\ Dealt = i - 1 /\ Dealt' = i /\ pc' # "aborted"
           /\ pc' = "done" => result' = IF canvas = "video_fastest" THEN accus' ELSE result
           /\ pc' # "done" => result' = result
BY DEF NextSite, Dealt

LEMMA OutputStep ==
    ASSUME BuildInv, OutputInv, Next
    PROVE  OutputInv'
<1>a. canvas' = canvas /\ functor' = functor /\ input' = input /\ s' = s
  BY CallStays
<1>b. /\ Objects' = Objects
      /\ \A Y : (FirstOf(Y))' = FirstOf(Y)
      /\ \A j : (Met(j))' = Met(j)
      /\ \A q : (Full(q))' = Full(q)
      /\ \A q : (Zone(q))' = Zone(q)
  BY <1>a DEF Objects, FirstOf, Met, Full, Zone, handles
<1>c. /\ i \in 1..N /\ N \in Nat /\ p \in Site /\ Rank(s, p) = i
      /\ \A q, r \in Site : Rank(s, q) = Rank(s, r) => q = r
      /\ \A q \in Site : Rank(s, q) \in 1..N
  BY CallFacts DEF BuildInv, TypeOK
<1>d. /\ \A q \in Site : output[q] = IF Rank(s, q) <= Dealt THEN Full(q) ELSE 0
      /\ nlabels = Cardinality(Met(Dealt))
      /\ \A q \in Site : output[q] <= nlabels
  BY DEF OutputInv
<1>e. /\ output \in [Site -> 0..MaxLabel] /\ nlabels \in Nat /\ \A q \in Site : output[q] \in Nat
  BY LabelingAssumption DEF BuildInv, TypeOK
<1>1. CASE SkipSite \/ MakeSet \/ IgnoreNeighbour \/ Union \/ NoUnion \/ EndSite
  <2>1. /\ output' = output /\ nlabels' = nlabels
        /\ pc \in {"make_set", "neighbours"} /\ pc' \in {"make_set", "neighbours", "label"}
        /\ pc' = "label" => i' = 1
    BY <1>1 DEF SkipSite, MakeSet, IgnoreNeighbour, Union, NoUnion, EndSite, PreviousSite
  <2>2. Dealt = 0 /\ Dealt' = 0
    BY <2>1 DEF Dealt
  <2>3. QED
    BY <1>a, <1>b, <1>d, <2>1, <2>2 DEF OutputInv
<1>2. ASSUME pc = "label", NextSite, output' = [output EXCEPT ![p] = output'[p]],
             output'[p] = Full(p), nlabels' = Cardinality(Met(i)), output'[p] <= nlabels',
             nlabels' \in Nat, nlabels <= nlabels'
      PROVE  OutputInv'
  <2>1. Dealt = i - 1 /\ Dealt' = i /\ pc' # "aborted"
    BY <1>2, <1>c, NextSiteDeals
  <2>2. \A q \in Site : q # p => output'[q] = output[q]
    BY <1>2, <1>e
  <2>3. \A q \in Site : Rank(s, q) <= i <=> Rank(s, q) <= i - 1 \/ q = p
    BY <1>c
  <2>4. \A q \in Site : output'[q] = IF Rank(s, q) <= i THEN Full(q) ELSE 0
    BY <1>2, <1>d, <2>1, <2>2, <2>3
  <2>5. \A q \in Site : output'[q] <= nlabels'
    <3>1. SUFFICES ASSUME NEW q \in Site, q # p PROVE output'[q] <= nlabels'
      BY <1>2
    <3>2. output'[q] = output[q] /\ output[q] <= nlabels /\ output[q] \in Nat
      BY <1>d, <1>e, <2>2, <3>1
    <3>3. QED
      BY <1>2, <1>e, <3>2
  <2>6. QED
    BY <1>2, <1>a, <1>b, <2>1, <2>4, <2>5 DEF OutputInv
<1>3. CASE SkipLabel
  <2> USE <1>3 DEF SkipLabel
  <2>1. pc = "label" /\ NextSite /\ output' = output /\ nlabels' = nlabels
    OBVIOUS
  <2>2. Dealt = i - 1
    BY <2>1 DEF Dealt
  <2>3. Met(i) = Met(i - 1)
    BY <2>1, MetFacts
  <2>4. Full(p) = 0
    <3>1. CASE ~ handles(p)
      <4>1. Zone(p) \notin Objects
        BY <1>c, <3>1, ZoneFacts DEF Zone, Objects
      <4>2. QED
        BY <4>1 DEF Full
    <3>2. CASE handles(p)
      <4>1. Zone(p) \notin Objects
        BY <2>1, <3>2, MetFacts
      <4>2. QED
        BY <4>1 DEF Full
    <3>3. QED
      BY <3>1, <3>2
  <2>5. output[p] = 0
    <3>1. ~ (i <= i - 1)
      BY <1>c
    <3>2. QED
      BY <1>c, <1>d, <2>2, <3>1
  <2>6. output' = [output EXCEPT ![p] = output'[p]]
    BY <1>c, <1>e, <2>1
  <2> HIDE DEF SkipLabel
  <2>7. output'[p] = Full(p) /\ output'[p] <= nlabels' /\ nlabels' \in Nat /\ nlabels <= nlabels'
        /\ nlabels' = Cardinality(Met(i))
    BY <1>c, <1>d, <1>e, <2>1, <2>2, <2>3, <2>4, <2>5
  <2>8. QED
    BY <1>2, <2>1, <2>6, <2>7
<1>4. CASE NewLabel
  <2> USE <1>4 DEF NewLabel
  <2>1. /\ pc = "label" /\ NextSite /\ nlabels' = nlabels + 1
        /\ handles(p) /\ IsRoot(p) /\ labels(p)
        /\ output' = [output EXCEPT ![p] = nlabels']
    OBVIOUS
  <2> HIDE DEF NewLabel
  <2>2. Dealt = i - 1 /\ i - 1 \in Int
    BY <1>c, <2>1 DEF Dealt
  <2>3. /\ Met(i) = Met(i - 1) \cup {Zone(p)} /\ Zone(p) \notin Met(i - 1)
        /\ IsFiniteSet(Met(i - 1)) /\ Zone(p) \in Objects /\ FirstOf(Zone(p)) = i
    BY <2>1, <2>2, MetFacts
  <2>4. nlabels' = Cardinality(Met(i))
    BY <1>d, <2>1, <2>2, <2>3, FS_AddElement
  <2>5. Full(p) = nlabels' /\ output'[p] = nlabels'
    <3>1. Full(p) = nlabels'
      BY <2>3, <2>4 DEF Full
    <3>2. output'[p] = nlabels'
      BY <1>c, <1>e, <2>1
    <3>3. QED
      BY <3>1, <3>2
  <2>6. output' = [output EXCEPT ![p] = output'[p]]
    BY <2>1, <2>5
  <2>7. output'[p] <= nlabels' /\ nlabels' \in Nat /\ nlabels <= nlabels'
    BY <1>e, <2>1, <2>5
  <2>8. QED
    BY <1>2, <2>1, <2>4, <2>5, <2>6, <2>7
<1>5. CASE TakeLabel
  <2> USE <1>5 DEF TakeLabel
  <2>1. /\ pc = "label" /\ NextSite /\ handles(p) /\ ~ IsRoot(p) /\ nlabels' = nlabels
        /\ output' = [output EXCEPT ![p] = output[parent[p]]]
    OBVIOUS
  <2> HIDE DEF TakeLabel
  <2>2. Dealt = i - 1 /\ Met(i) = Met(i - 1)
    BY <2>1, MetFacts DEF Dealt
  <2>3. PICK q : q = parent[p]
    OBVIOUS
  <2>4. q \in Site /\ Rank(s, q) <= i - 1 /\ q \in Zone(p)
    <3>1. p \in Made /\ Forest(s, parent, Made) /\ IsSiteArray(s)
      BY <1>c, <2>1 DEF BuildInv, TreesInv, CallInv, Made, Passed
    <3>2. q \in Made /\ q # p /\ Rank(s, q) < Rank(s, p)
      BY <2>1, <2>3, <3>1 DEF Forest, IsRoot
    <3>3. Root(parent, q) = Root(parent, p)
      BY <2>3, <3>1, RootOfParent
    <3>4. q \in Site /\ handles(q)
      BY <3>2 DEF Made
    <3>5. q \in Zone(p)
      BY <1>c, <2>1, <3>3, <3>4, BuiltZones
    <3>6. QED
      BY <1>c, <3>2, <3>4, <3>5
  <2>5. Zone(q) = Zone(p)
    BY <1>c, <2>4, ZoneFacts DEF Zone
  <2>6. output[q] = Full(p)
    BY <1>d, <2>2, <2>4, <2>5 DEF Full
  <2>7. output'[p] = output[q]
    BY <1>c, <1>e, <2>1, <2>3
  <2>8. output' = [output EXCEPT ![p] = output'[p]]
    BY <2>1, <2>3, <2>7
  <2>9. output'[p] = Full(p) /\ output'[p] <= nlabels' /\ nlabels' \in Nat /\ nlabels <= nlabels'
        /\ nlabels' = Cardinality(Met(i))
    BY <1>d, <1>e, <2>1, <2>2, <2>4, <2>6, <2>7
  <2>10. QED
    BY <1>2, <2>1, <2>8, <2>9
<1>6. CASE Abort
  <2>1. /\ pc = "label" /\ pc' = "aborted" /\ i' = i /\ output' = output /\ nlabels' = nlabels
        /\ parent' = parent /\ attr' = attr
        /\ handles(p) /\ IsRoot(p) /\ labels(p) /\ nlabels = MaxLabel
    BY <1>6 DEF Abort, Exhausted
  <2>2. Dealt' = Dealt
    BY <2>1 DEF Dealt
  <2>3. (handles(p) /\ IsRoot(p) /\ labels(p))'
    BY <1>a, <2>1 DEF handles, IsRoot, labels, IsExtrema, p
  <2>4. QED
    BY <1>a, <1>b, <1>d, <2>1, <2>2, <2>3 DEF OutputInv
<1>7. CASE Returned
  BY <1>7, <1>a, <1>b DEF Returned, vars, OutputInv, Dealt, handles, IsRoot, labels, IsExtrema, p
<1>8. QED
  BY <1>1, <1>3, <1>4, <1>5, <1>6, <1>7 DEF Next

LEMMA OutputStutter == OutputInv /\ UNCHANGED vars => OutputInv'
<1> SUFFICES ASSUME OutputInv, UNCHANGED vars PROVE OutputInv'
  OBVIOUS
<1>1. /\ canvas' = canvas /\ functor' = functor /\ input' = input /\ s' = s /\ pc' = pc /\ i' = i
      /\ output' = output /\ nlabels' = nlabels /\ parent' = parent /\ attr' = attr
  BY DEF vars, call
<1>2. /\ \A j : (Met(j))' = Met(j)
      /\ \A q : (Full(q))' = Full(q)
      /\ Dealt' = Dealt
  BY <1>1 DEF Objects, FirstOf, Met, Full, Zone, handles, Dealt
<1>3. (handles(p) /\ IsRoot(p) /\ labels(p))' <=> (handles(p) /\ IsRoot(p) /\ labels(p))
  BY <1>1 DEF handles, IsRoot, labels, IsExtrema, p
<1>4. QED
  BY <1>1, <1>2, <1>3 DEF OutputInv

LEMMA TakeFacts ==
    ASSUME NEW a \in Seq(SUBSET Site), NEW l \in Nat, l + 1 <= Len(a), p \in Site
    PROVE  /\ Len(Take(a, l)) = Len(a)
           /\ \A j \in 1..Len(a) : Take(a, l)[j] = IF j = l + 1 THEN a[j] \cup {p} ELSE a[j]
<1>1. l + 1 \in 1..Len(a) /\ a[l + 1] \in SUBSET Site
  <2>1. l + 1 \in 1..Len(a)
    OBVIOUS
  <2>2. QED
    BY <2>1
<1>2. a[l + 1] \cup {p} \in SUBSET Site
  BY <1>1
<1>3. Take(a, l) = [a EXCEPT ![l + 1] = a[l + 1] \cup {p}]
  BY DEF Take
<1>4. PICK n, e : n = l + 1 /\ e = a[l + 1] \cup {p}
  OBVIOUS
<1>5. /\ Len([a EXCEPT ![n] = e]) = Len(a)
      /\ \A j \in 1..Len(a) : [a EXCEPT ![n] = e][j] = IF j = n THEN e ELSE a[j]
  BY <1>1, <1>2, <1>4, ExceptSeq
<1>6. QED
  BY <1>3, <1>4, <1>5

LEMMA AccusStep ==
    ASSUME BuildInv, OutputInv, AccusFollowOutput, Next
    PROVE  AccusFollowOutput'
<1>a. canvas' = canvas /\ functor' = functor /\ input' = input /\ s' = s
  BY CallStays
<1>b. SUFFICES ASSUME CallsBack
               PROVE  /\ Len(accus') = nlabels' + 1
                      /\ \A l \in 1..nlabels' : accus'[l + 1] = {q \in Site : output'[q] = l}
                      /\ pc' = "done" => result' = accus'
  BY <1>a DEF AccusFollowOutput, CallsBack
<1>c. /\ canvas = "video_fastest" /\ Len(accus) = nlabels + 1
      /\ \A l \in 1..nlabels : accus[l + 1] = {q \in Site : output[q] = l}
      /\ pc = "done" => result = accus
  BY <1>b DEF AccusFollowOutput, CallsBack
<1>d. /\ i \in 1..N /\ N \in Nat /\ p \in Site /\ Rank(s, p) = i
  BY CallFacts DEF BuildInv, TypeOK
<1>e. /\ output \in [Site -> 0..MaxLabel] /\ nlabels \in Nat /\ accus \in Seq(SUBSET Site)
      /\ \A q \in Site : output[q] \in Nat /\ output[q] <= nlabels
  BY LabelingAssumption DEF BuildInv, TypeOK, OutputInv
<1>f. pc = "label" => output[p] = 0
  <2>1. pc = "label" => Dealt = i - 1 /\ ~ (Rank(s, p) <= Dealt)
    BY <1>d DEF Dealt
  <2>2. QED
    BY <1>d, <2>1 DEF OutputInv
<1>1. CASE SkipSite \/ MakeSet \/ IgnoreNeighbour \/ Union \/ NoUnion \/ EndSite \/ Abort
  <2>1. output' = output /\ nlabels' = nlabels /\ accus' = accus /\ pc' # "done"
    BY <1>1 DEF SkipSite, MakeSet, IgnoreNeighbour, Union, NoUnion, EndSite, PreviousSite, Abort
  <2>2. QED
    BY <1>c, <2>1
<1>2. CASE SkipLabel
  <2>1. /\ output' = output /\ nlabels' = nlabels /\ accus' = accus /\ pc = "label" /\ NextSite
    BY <1>2 DEF SkipLabel
  <2>2. pc' = "done" => result' = accus'
    BY <1>c, <1>d, <2>1, NextSiteDeals
  <2>3. QED
    BY <1>c, <2>1, <2>2
<1>3. CASE NewLabel
  <2>1. /\ pc = "label" /\ NextSite /\ nlabels' = nlabels + 1
        /\ output' = [output EXCEPT ![p] = nlabels + 1]
        /\ accus' = Take(Append(accus, {}), nlabels + 1)
    BY <1>3, <1>b DEF NewLabel, set_new_label
  <2>2. pc' = "done" => result' = accus'
    BY <1>c, <1>d, <2>1, NextSiteDeals
  <2>3. PICK a : a = Append(accus, {})
    OBVIOUS
  <2>4. /\ a \in Seq(SUBSET Site) /\ Len(a) = nlabels + 2
        /\ \A j \in 1..(nlabels + 1) : a[j] = accus[j]
        /\ a[nlabels + 2] = {}
    <3>1. {} \in SUBSET Site /\ Len(accus) \in Nat
      BY <1>e
    <3>2. /\ Append(accus, {}) \in Seq(SUBSET Site) /\ Len(Append(accus, {})) = Len(accus) + 1
          /\ \A j \in 1..Len(accus) : Append(accus, {})[j] = accus[j]
          /\ Append(accus, {})[Len(accus) + 1] = {}
      BY <1>e, <3>1
    <3>3. QED
      BY <1>c, <1>e, <2>3, <3>2
  <2>5. /\ Len(accus') = nlabels + 2
        /\ \A j \in 1..(nlabels + 2) : accus'[j] = IF j = nlabels + 2 THEN {p} ELSE accus[j]
    <3>1. PICK n : n = nlabels + 1
      OBVIOUS
    <3>2. n \in Nat /\ n + 1 = nlabels + 2 /\ n + 1 <= Len(a)
      BY <1>e, <2>4, <3>1
    <3>3. /\ Len(Take(a, n)) = Len(a)
          /\ \A j \in 1..Len(a) : Take(a, n)[j] = IF j = n + 1 THEN a[j] \cup {p} ELSE a[j]
      BY <1>d, <2>4, <3>2, TakeFacts
    <3>4. \A j \in 1..(nlabels + 2) : j \in 1..(nlabels + 1) \/ j = nlabels + 2
      BY <1>e
    <3>5. accus' = Take(a, n)
      BY <2>1, <2>3, <3>1
    <3>6. QED
      BY <2>4, <3>2, <3>3, <3>4, <3>5
  <2>6. output'[p] = nlabels + 1 /\ \A q \in Site : q # p => output'[q] = output[q]
    BY <1>d, <1>e, <2>1
  <2>7. ASSUME NEW l \in 1..(nlabels + 1) PROVE accus'[l + 1] = {q \in Site : output'[q] = l}
    <3>1. CASE l = nlabels + 1
      <4>1. \A q \in Site : output'[q] = l <=> q = p
        BY <1>e, <2>6, <3>1
      <4>2. l + 1 = nlabels + 2 /\ l + 1 \in 1..(nlabels + 2)
        BY <1>e, <3>1
      <4>3. accus'[l + 1] = {p}
        BY <2>5, <4>2
      <4>4. QED
        BY <1>d, <4>1, <4>3
    <3>2. CASE l # nlabels + 1
      <4>1. l \in 1..nlabels /\ l + 1 \in 1..(nlabels + 2) /\ l + 1 # nlabels + 2
        BY <1>e, <3>2
      <4>2. accus'[l + 1] = {q \in Site : output[q] = l}
        BY <1>c, <2>5, <4>1
      <4>3. \A q \in Site : output'[q] = l <=> output[q] = l
        BY <1>f, <2>1, <2>6, <3>2, <4>1
      <4>4. QED
        BY <4>2, <4>3
    <3>3. QED
      BY <3>1, <3>2
  <2>8. Len(accus') = nlabels' + 1
    BY <1>e, <2>1, <2>5
  <2>9. QED
    BY <2>1, <2>2, <2>7, <2>8
<1>4. CASE TakeLabel
  <2>1. /\ pc = "label" /\ NextSite /\ nlabels' = nlabels /\ handles(p)
        /\ output' = [output EXCEPT ![p] = output[parent[p]]]
        /\ accus' = Take(accus, output'[p])
    BY <1>4, <1>b DEF TakeLabel, set_label
  <2>2. pc' = "done" => result' = accus'
    BY <1>c, <1>d, <2>1, NextSiteDeals
  <2>3. parent[p] \in Site
    <3>1. p \in Made
      BY <1>d, <2>1 DEF Made, Passed
    <3>2. QED
      BY <3>1 DEF BuildInv, TreesInv, Forest
  <2>4. PICK n : n = output'[p]
    OBVIOUS
  <2>5. /\ n \in Nat /\ n <= nlabels /\ \A q \in Site : q # p => output'[q] = output[q]
    BY <1>d, <1>e, <2>1, <2>3, <2>4
  <2>6. /\ Len(accus') = Len(accus)
        /\ \A j \in 1..Len(accus) : accus'[j] = IF j = n + 1 THEN accus[j] \cup {p} ELSE accus[j]
    <3>1. n + 1 <= Len(accus)
      BY <1>c, <1>e, <2>5
    <3>2. /\ Len(Take(accus, n)) = Len(accus)
          /\ \A j \in 1..Len(accus) :
               Take(accus, n)[j] = IF j = n + 1 THEN accus[j] \cup {p} ELSE accus[j]
      BY <1>d, <1>e, <2>5, <3>1, TakeFacts
    <3>3. QED
      BY <2>1, <2>4, <3>2
  <2>7. ASSUME NEW l \in 1..nlabels PROVE accus'[l + 1] = {q \in Site : output'[q] = l}
    <3>1. l + 1 \in 1..Len(accus) /\ accus[l + 1] = {q \in Site : output[q] = l} /\ l # 0
      BY <1>c, <1>e
    <3>2. CASE l = n
      <4>1. accus'[l + 1] = {q \in Site : output[q] = l} \cup {p}
        BY <2>6, <3>1, <3>2
      <4>2. \A q \in Site : output'[q] = l <=> output[q] = l \/ q = p
        BY <2>4, <2>5, <3>2
      <4>3. QED
        BY <1>d, <4>1, <4>2
    <3>3. CASE l # n
      <4>0. l + 1 # n + 1
        BY <1>e, <2>5, <3>3
      <4>1. accus'[l + 1] = {q \in Site : output[q] = l}
        BY <2>6, <3>1, <4>0
      <4>2. \A q \in Site : output'[q] = l <=> output[q] = l
        BY <1>f, <2>1, <2>4, <2>5, <3>1, <3>3
      <4>3. QED
        BY <4>1, <4>2
    <3>4. QED
      BY <3>2, <3>3
  <2>8. QED
    BY <1>c, <2>1, <2>2, <2>6, <2>7
<1>5. CASE Returned
  BY <1>5, <1>c DEF Returned, vars
<1>6. QED
  BY <1>1, <1>2, <1>3, <1>4, <1>5 DEF Next

LEMMA InvariantHolds == Spec => []IInv
<1>1. IInv /\ [Next]_vars => IInv'
  <2>1. IInv /\ Next => IInv'
    BY BuildStep, OutputStep, AccusStep DEF IInv
  <2>2. IInv /\ UNCHANGED vars => IInv'
    BY BuildStutter, OutputStutter DEF IInv, AccusFollowOutput, CallsBack, vars, call
  <2>3. QED
    BY <2>1, <2>2
<1>2. Init => IInv
  BY BuildInit, OutputInit DEF IInv
<1>3. QED
  BY <1>1, <1>2, PTL DEF Spec

\* With the fast canvas, every accumulator has taken exactly the sites that have
\* its label, at any time, and finalize() gets all of them.
THEOREM AccumulatorsFollow == Spec => []AccusFollowOutput
<1>1. IInv => AccusFollowOutput
  BY DEF IInv
<1>2. QED
  BY <1>1, InvariantHolds, PTL

\* Full is the reference numbering.
LEMMA FullIsNumbered ==
    ASSUME NEW q \in Site
    PROVE  Numbered(Objects, s)[q] = Full(q)
<1>1. \A Z \in Objects : q \in Z => Z = Zone(q)
  <2>1. SUFFICES ASSUME NEW Z \in Objects, q \in Z PROVE Z = Zone(q)
    OBVIOUS
  <2>2. PICK t \in Site : Z = Zone(t)
    BY DEF Objects, FlatZones, Zone, FlatZone
  <2>3. QED
    BY <2>1, <2>2, ZoneFacts DEF Zone
<1>2. q \in Zone(q)
  BY ZoneFacts DEF Zone
<1>3. q \in UNION Objects <=> Zone(q) \in Objects
  BY <1>1, <1>2
<1>4. Zone(q) \in Objects => (CHOOSE Z \in Objects : q \in Z) = Zone(q)
  BY <1>1, <1>2
<1>5. Numbered(Objects, s)[q] =
        IF q \in UNION Objects THEN Cardinality(Met(FirstOf(CHOOSE Z \in Objects : q \in Z))) ELSE 0
  BY DEF Numbered, Met, FirstOf
<1>6. QED
  BY <1>3, <1>4, <1>5 DEF Full

\* The label image is the objects numbered in the order of s; when the labels
\* run out there were more objects, and those labelled have the right label.
THEOREM LabelsNumberObjects == Spec => []LabelsAreObjects
<1>1. IInv => LabelsAreObjects
  <2> SUFFICES ASSUME IInv PROVE LabelsAreObjects
    OBVIOUS
  <2> DEFINE full == Numbered(Objects, s)
  <2>0. /\ i \in 1..N /\ N \in Nat /\ \A q \in Site : Rank(s, q) \in 1..N
        /\ p \in Site /\ output \in [Site -> 0..MaxLabel]
    BY CallFacts DEF IInv, BuildInv, TypeOK
  <2>1. \A q \in Site : output[q] = IF Rank(s, q) <= Dealt THEN full[q] ELSE 0
    BY FullIsNumbered DEF IInv, OutputInv
  <2>2. pc = "done" => output = full /\ nlabels = Cardinality(Objects)
    <3>1. SUFFICES ASSUME pc = "done" PROVE output = full /\ nlabels = Cardinality(Objects)
      OBVIOUS
    <3>2. Dealt = N /\ Met(N) = Objects
      BY <3>1, MetFacts DEF Dealt, IInv
    <3>3. \A q \in Site : output[q] = full[q]
      BY <2>0, <2>1, <3>2
    <3>4. full = [q \in Site |-> full[q]]
      BY DEF Numbered
    <3> HIDE DEF full
    <3>5. output = full
      BY <2>0, <3>3, <3>4
    <3>6. QED
      BY <3>2, <3>5 DEF IInv, OutputInv
  <2>3. pc = "aborted" => /\ nlabels = MaxLabel /\ Cardinality(Objects) > MaxLabel
                          /\ \A q \in Site : output[q] \in {0, full[q]}
    <3>1. SUFFICES ASSUME pc = "aborted"
                   PROVE  nlabels = MaxLabel /\ Cardinality(Objects) > MaxLabel
      BY <2>1
    <3>2. nlabels = MaxLabel /\ handles(p) /\ IsRoot(p) /\ labels(p)
          /\ nlabels = Cardinality(Met(i - 1))
      BY <3>1 DEF IInv, OutputInv, Dealt
    <3>3. /\ IsFiniteSet(Objects) /\ Met(i - 1) \subseteq Objects
          /\ Zone(p) \in Objects /\ Zone(p) \notin Met(i - 1)
      BY <3>1, <3>2, MetFacts DEF IInv, Met
    <3>4. /\ Cardinality(Met(i - 1)) <= Cardinality(Objects)
          /\ Cardinality(Met(i - 1)) # Cardinality(Objects)
      BY <3>3, FS_Subset
    <3>5. Cardinality(Objects) \in Nat /\ MaxLabel \in Nat
      BY <3>3, FS_CardinalityType, LabelingAssumption
    <3>6. QED
      BY <3>2, <3>4, <3>5
  <2>4. QED
    BY <2>2, <2>3 DEF LabelsAreObjects
<1>2. QED
  BY <1>1, InvariantHolds, PTL
=============================================================================
