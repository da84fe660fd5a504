----------------------------- MODULE HeapProofs ------------------------------
(***************************************************************************)
(* Proofs about FibonacciHeap, for any number of heaps, any keys and any    *)
(* bound on the nodes: through every step of consolidate() no node is lost, *)
(* shared or visited twice, the trees stay binomial, and front() is the     *)
(* minimum.  With them the types of all the containers follow.              *)
(***************************************************************************)
EXTENDS ContainersProofs

-----------------------------------------------------------------------------
(* The Fibonacci heap.  First what its walks meet: List and Trees are the    *)
(* least sets closed under the links they follow.                           *)

\* up applies F from e, n times.
Iterates(up, F, e, n, S) ==
    up \in [0..n -> S] /\ up[0] = e /\ \A j \in 1..n : up[j] = F[up[j - 1]]

LEMMA IterationExists ==
    ASSUME NEW n \in Nat, NEW S, NEW e \in S, NEW F \in [S -> S]
    PROVE  \E up : Iterates(up, F, e, n, S)
<1> DEFINE Bad == {m \in 0..n : ~ \E up : Iterates(up, F, e, m, S)}
<1>1. SUFFICES ASSUME Bad # {} PROVE FALSE
  BY <1>1
<1>2. PICK m \in Bad : \A l \in Bad : m <= l
  <2>1. Bad \in SUBSET Nat
    OBVIOUS
  <2> HIDE DEF Bad
  <2> QED BY <1>1, <2>1, LeastNat
<1>3. m # 0
  <2>1. Iterates([j \in 0..0 |-> e], F, e, 0, S)
    BY DEF Iterates
  <2> QED BY <2>1
<1>4. m - 1 \in 0..n /\ m - 1 \notin Bad
  BY <1>2, <1>3
<1>5. PICK up : Iterates(up, F, e, m - 1, S)
  BY <1>4
<1> DEFINE next == [j \in 0..m |-> IF j = m THEN F[up[m - 1]] ELSE up[j]]
<1>6. m \in 1..n /\ up[m - 1] \in S
  BY <1>2, <1>3, <1>5 DEF Iterates
<1>7. next \in [0..m -> S] /\ next[0] = e
  BY <1>5, <1>6 DEF Iterates
<1>8. ASSUME NEW j \in 1..m PROVE next[j] = F[next[j - 1]]
  <2>1. j - 1 \in 0..m /\ j - 1 # m /\ next[j - 1] = up[j - 1]
    BY <1>6
  <2>2. CASE j = m
    BY <1>6, <2>1, <2>2
  <2>3. CASE j # m
    <3>1. j \in 1..(m - 1) /\ next[j] = up[j]
      BY <1>6, <2>3
    <3> QED BY <1>5, <2>1, <3>1 DEF Iterates
  <2> QED BY <2>2, <2>3
<1>9. Iterates(next, F, e, m, S)
  BY <1>7, <1>8 DEF Iterates
<1> QED BY <1>9

\* What never leaves a set of which e is a member stays in it.
LEMMA IterationStays ==
    ASSUME NEW n \in Nat, NEW S, NEW e \in S, NEW F, NEW up, Iterates(up, F, e, n, S),
           NEW Y, e \in Y, \A v \in S : v \in Y => F[v] \in Y
    PROVE  \A j \in 0..n : up[j] \in Y
<1> DEFINE Bad == {j \in 0..n : up[j] \notin Y}
<1>1. SUFFICES ASSUME Bad # {} PROVE FALSE
  BY <1>1
<1>2. PICK m \in Bad : \A l \in Bad : m <= l
  <2>1. Bad \in SUBSET Nat
    OBVIOUS
  <2> HIDE DEF Bad
  <2> QED BY <1>1, <2>1, LeastNat
<1>3. m # 0
  BY DEF Iterates
<1>4. m - 1 \in 0..n /\ m - 1 \notin Bad /\ m \in 1..n
  BY <1>2, <1>3
<1>5. up[m - 1] \in Y /\ up[m - 1] \in S /\ up[m] = F[up[m - 1]]
  BY <1>4 DEF Iterates
<1> QED BY <1>5

\* The links of nodes, in a set of them.
RightStays(nodes, S) == \A m \in S : nodes[m].right # 0 => nodes[m].right \in S

\* L is what is met from n by the links to the right.
IsList(nodes, L, n) ==
    /\ L \subseteq DOMAIN nodes
    /\ n = 0 => L = {}
    /\ n # 0 => n \in L
    /\ RightStays(nodes, L)
    /\ \A S \in SUBSET DOMAIN nodes : n \in S /\ RightStays(nodes, S) => L \subseteq S

LinksTyped(nodes) ==
    /\ DOMAIN nodes \subseteq 1..MaxNodes
    /\ \A m \in DOMAIN nodes : nodes[m].right \in DOMAIN nodes \cup {0}

LEMMA ListIs ==
    LinksTyped(node) => \A n \in DOMAIN node \cup {0} : IsList(node, H!List(n), n)
<1> SUFFICES ASSUME LinksTyped(node), NEW n \in DOMAIN node \cup {0}
             PROVE  IsList(node, H!List(n), n)
  OBVIOUS
<1> DEFINE M == MaxNodes
           D == DOMAIN node
           S == D \cup {0}
           F == [m \in S |-> IF m = 0 THEN 0 ELSE node[m].right]
<1>0. M \in Nat /\ 0 \notin D /\ D \subseteq 1..M
  BY HeapAssumption DEF LinksTyped
<1>1. F \in [S -> S]
  BY DEF LinksTyped
<1>2. PICK up : Iterates(up, F, n, M, S)
  <2> HIDE DEF F, S
  <2>1. n \in S
    BY DEF S
  <2> QED BY <1>0, <1>1, <2>1, IterationExists
<1> DEFINE Walk(g) == g = [k \in 0..M |-> IF k = 0 THEN n
                             ELSE LET m == g[k - 1] IN IF m = H!null THEN H!null ELSE node[m].right]
           at == CHOOSE g : Walk(g)
           L == {at[k] : k \in 0..M} \ {0}
<1>3. Walk(up)
  <2>1. up = [k \in 0..M |-> up[k]] /\ up[0] = n
    BY <1>2 DEF Iterates
  <2>2. ASSUME NEW k \in 0..M, k # 0
        PROVE  up[k] = IF up[k - 1] = 0 THEN 0 ELSE node[up[k - 1]].right
    <3>1. k \in 1..M /\ k - 1 \in 0..M
      BY <1>0, <2>2
    <3>2. up[k - 1] \in S /\ up[k] = F[up[k - 1]]
      BY <1>2, <3>1 DEF Iterates
    <3> QED BY <3>2
  <2> QED BY <2>1, <2>2 DEF H!null
<1>4. Walk(at)
  BY <1>3
<1>5. H!List(n) = L
  BY DEF H!List, H!null
<1> HIDE DEF at
<1>6. Iterates(at, F, n, M, S)
  <2>1. \A k \in 0..M : at[k] = IF k = 0 THEN n ELSE IF at[k - 1] = 0 THEN 0 ELSE node[at[k - 1]].right
    BY <1>4 DEF H!null
  <2> DEFINE Bad == {k \in 0..M : at[k] # up[k]}
  <2>2. Bad = {}
    <3>1. SUFFICES ASSUME Bad # {} PROVE FALSE
      OBVIOUS
    <3>2. PICK m \in Bad : \A l \in Bad : m <= l
      <4>1. Bad \in SUBSET Nat
        OBVIOUS
      <4> HIDE DEF Bad
      <4> QED BY <3>1, <4>1, LeastNat
    <3>3. m # 0 /\ m \in 0..M
      BY <2>1, <1>2 DEF Iterates
    <3>4. m - 1 \in 0..M /\ m - 1 \notin Bad /\ m \in 1..M
      BY <1>0, <3>2, <3>3
    <3>5. at[m - 1] = up[m - 1] /\ up[m - 1] \in S /\ up[m] = F[up[m - 1]]
      BY <3>4, <1>2 DEF Iterates
    <3>6. at[m] = IF at[m - 1] = 0 THEN 0 ELSE node[at[m - 1]].right
      BY <2>1, <3>3
    <3> QED BY <3>5, <3>6
  <2>3. at \in [0..M -> S]
    <3>1. at = [k \in 0..M |-> at[k]]
      BY <1>4
    <3>2. \A k \in 0..M : at[k] \in S
      BY <2>2, <1>2 DEF Iterates
    <3> HIDE DEF S
    <3> QED BY <3>1, <3>2
  <2>4. at[0] = n
    BY <1>0, <2>1
  <2>5. ASSUME NEW j \in 1..M PROVE at[j] = F[at[j - 1]]
    <3>1. j \in 0..M /\ j - 1 \in 0..M
      BY <1>0
    <3>2. at[j] = up[j] /\ at[j - 1] = up[j - 1]
      BY <2>2, <3>1
    <3> QED BY <3>2, <1>2 DEF Iterates
  <2> HIDE DEF S, F
  <2> QED BY <2>3, <2>4, <2>5 DEF Iterates
<1>7. L \subseteq D
  BY <1>6 DEF Iterates
<1>8. n # 0 => n \in L
  BY <1>0, <1>6 DEF Iterates
<1>9. ASSUME NEW Y \in SUBSET D, n \in Y, RightStays(node, Y) PROVE L \subseteq Y
  <2> DEFINE V == Y \cup {0}
  <2>1. \A v \in S : v \in V => F[v] \in V
    BY <1>9 DEF RightStays
  <2>2. n \in V /\ n \in S
    BY <1>9
  <2>3. V = Y \cup {0}
    OBVIOUS
  <2> HIDE DEF F, S, V, M, D
  <2>4. \A j \in 0..M : at[j] \in V
    BY <1>0, <1>6, <2>1, <2>2, IterationStays
  <2> QED BY <2>3, <2>4
<1>10. n = 0 => L = {}
  <2>1. ASSUME n = 0 PROVE L = {}
    <3>1. \A v \in S : v \in {0} => F[v] \in {0}
      OBVIOUS
    <3>2. n \in {0} /\ n \in S
      BY <2>1
    <3> HIDE DEF F, S
    <3>3. \A j \in 0..M : at[j] \in {0}
      BY <1>0, <1>6, <3>1, <3>2, IterationStays
    <3> QED BY <3>3
  <2> QED BY <2>1
<1>11. RightStays(node, L)
  <2> SUFFICES ASSUME NEW k \in 0..M, at[k] # 0, node[at[k]].right # 0
               PROVE  node[at[k]].right \in L
    BY DEF RightStays
  <2>1. ASSUME NEW j \in 1..M, at[j - 1] # 0 PROVE at[j] = node[at[j - 1]].right
    <3>1. at[j - 1] \in S /\ at[j] = F[at[j - 1]]
      <4>1. j - 1 \in 0..M
        BY <1>0
      <4> HIDE DEF F, S
      <4> QED BY <1>6, <4>1 DEF Iterates
    <3> QED BY <2>1, <3>1
  <2>2. CASE k < M
    <3>1. k + 1 \in 1..M /\ k + 1 \in 0..M /\ (k + 1) - 1 = k
      BY <1>0, <2>2
    <3> QED BY <2>1, <3>1
  <2>3. CASE k = M
    <3>1. \A j \in 0..M : at[j] # 0
      <4> DEFINE Bad == {j \in 0..M : at[M - j] = 0}
      <4>1. SUFFICES ASSUME Bad # {} PROVE FALSE
        <5>1. \A j \in 0..M : M - j \in 0..M /\ M - (M - j) = j
          BY <1>0
        <5> QED BY <4>1, <5>1
      <4>2. PICK m \in Bad : \A l \in Bad : m <= l
        <5>1. Bad \in SUBSET Nat
          OBVIOUS
        <5> HIDE DEF Bad
        <5> QED BY <4>1, <5>1, LeastNat
      <4>3. m # 0
        BY <1>0, <2>3
      <4>4. m - 1 \in 0..M /\ m - 1 \notin Bad /\ M - (m - 1) \in 1..M
            /\ (M - (m - 1)) - 1 = M - m
        BY <1>0, <4>2, <4>3
      <4>5. at[M - (m - 1)] = F[at[M - m]] /\ at[M - m] = 0
        BY <1>6, <4>4 DEF Iterates
      <4> QED BY <4>4, <4>5
    <3>2. at \in [0..M -> D]
      <4>1. at = [j \in 0..M |-> at[j]] /\ \A j \in 0..M : at[j] \in D
        BY <1>6, <3>1 DEF Iterates
      <4> QED BY <4>1
    <3>3. IsFiniteSet(0..M) /\ Cardinality(0..M) = M + 1
      BY <1>0, FS_Interval
    <3>4. IsFiniteSet(D) /\ Cardinality(D) <= M
      <4>1. IsFiniteSet(1..M) /\ Cardinality(1..M) = M
        BY <1>0, FS_Interval
      <4> HIDE DEF M
      <4> QED BY <1>0, <4>1, FS_Subset
    <3>5. PICK i1 \in 0..M, i2 \in 0..M : i1 # i2 /\ at[i1] = at[i2]
      <4>1. Cardinality(D) < Cardinality(0..M)
        <5>1. Cardinality(D) \in Nat
          BY <3>4, FS_CardinalityType
        <5> HIDE DEF D
        <5> QED BY <1>0, <3>3, <3>4, <5>1
      <4> HIDE DEF D
      <4> QED BY <3>2, <3>3, <3>4, <4>1, FS_PigeonHole
    <3>6. PICK i \in 0..M, j \in 0..M : i < j /\ at[i] = at[j]
      <4>1. i1 < i2 \/ i2 < i1
        BY <1>0, <3>5
      <4> QED BY <3>5, <4>1
    <3> DEFINE C == {at[l] : l \in 0..(j - 1)}
    <3>7. C \in SUBSET D /\ n \in C
      BY <1>0, <1>6, <3>1, <3>2, <3>6 DEF Iterates
    <3>8. RightStays(node, C)
      <4> SUFFICES ASSUME NEW l \in 0..(j - 1) PROVE node[at[l]].right \in C
        BY DEF RightStays
      <4>1. l + 1 \in 1..M /\ (l + 1) - 1 = l /\ l \in 0..M
        BY <1>0, <3>6
      <4>2. at[l + 1] = node[at[l]].right
        BY <2>1, <3>1, <4>1
      <4>3. CASE l + 1 = j
        <5>1. i \in 0..(j - 1)
          BY <3>6
        <5> QED BY <3>6, <4>2, <4>3, <5>1
      <4>4. CASE l + 1 # j
        <5>1. l + 1 \in 0..(j - 1)
          BY <3>6, <4>4
        <5> QED BY <4>2, <5>1
      <4> QED BY <4>3, <4>4
    <3>9. L \subseteq C
      <4> HIDE DEF C, L
      <4> QED BY <1>9, <3>7, <3>8
    <3>10. C \subseteq L
      BY <1>0, <3>1, <3>6
    <3>11. at[k] \in L
      OBVIOUS
    <3> HIDE DEF C, L
    <3> QED BY <3>8, <3>9, <3>10, <3>11 DEF RightStays
  <2> QED BY <1>0, <2>2, <2>3
<1> HIDE DEF L
<1> QED BY <1>5, <1>7, <1>8, <1>9, <1>10, <1>11 DEF IsList

LEMMA ListUnique ==
    ASSUME NEW nodes, NEW n, NEW L, NEW K, IsList(nodes, L, n), IsList(nodes, K, n)
    PROVE  L = K
<1>1. CASE n = 0
  BY <1>1 DEF IsList
<1>2. CASE n # 0
  BY <1>2 DEF IsList
<1> QED BY <1>1, <1>2

\* V is what is met from R by the links from a node to its kids.
KidsStay(kids, S) == \A n \in S : kids[n] \subseteq S

AreTrees(kids, V, R) ==
    /\ R \subseteq V /\ V \subseteq DOMAIN kids
    /\ KidsStay(kids, V)
    /\ \A S \in SUBSET DOMAIN kids : R \subseteq S /\ KidsStay(kids, S) => V \subseteq S

ChildrenTyped(nodes) == \A m \in DOMAIN nodes : nodes[m].child \in DOMAIN nodes \cup {0}

Kids == [n \in DOMAIN node |-> H!List(node[n].child)]

LEMMA TreesAre ==
    LinksTyped(node) /\ ChildrenTyped(node) =>
       \A R \in SUBSET DOMAIN node : AreTrees(Kids, H!Trees(R), R)
<1> SUFFICES ASSUME LinksTyped(node), ChildrenTyped(node), NEW R \in SUBSET DOMAIN node
             PROVE  AreTrees(Kids, H!Trees(R), R)
  OBVIOUS
<1> DEFINE M == MaxNodes
           D == DOMAIN node
           S == SUBSET D
           F == [Y \in S |-> Y \cup UNION {Kids[n] : n \in Y}]
<1>0. M \in Nat /\ 0 \notin D /\ D \subseteq 1..M
  BY HeapAssumption DEF LinksTyped
<1>1. Kids \in [D -> SUBSET D]
  <2>1. \A n \in D : H!List(node[n].child) \in SUBSET D
    BY ListIs DEF ChildrenTyped, IsList
  <2> QED BY <2>1 DEF Kids
<1>2. F \in [S -> S]
  <2>1. ASSUME NEW Y \in S PROVE Y \cup UNION {Kids[n] : n \in Y} \in S
    BY <1>1
  <2> QED BY <2>1
<1>3. PICK up : Iterates(up, F, R, M, S)
  <2> HIDE DEF F, S
  <2>1. R \in S
    BY DEF S
  <2> QED BY <1>0, <1>2, <2>1, IterationExists
<1> DEFINE Walk(g) == g = [k \in 0..M |-> IF k = 0 THEN R
                             ELSE LET f == g[k - 1] IN f \cup UNION {H!List(node[n].child) : n \in f}]
           at == CHOOSE g : Walk(g)
<1>4. Walk(up)
  <2>1. up = [k \in 0..M |-> up[k]] /\ up[0] = R
    BY <1>3 DEF Iterates
  <2>2. ASSUME NEW k \in 0..M, k # 0
        PROVE  up[k] = up[k - 1] \cup UNION {H!List(node[n].child) : n \in up[k - 1]}
    <3>1. k \in 1..M /\ k - 1 \in 0..M
      BY <1>0, <2>2
    <3>2. up[k - 1] \in S /\ up[k] = F[up[k - 1]]
      <4> HIDE DEF F, S
      <4> QED BY <1>3, <3>1 DEF Iterates
    <3>3. up[k] = up[k - 1] \cup UNION {Kids[n] : n \in up[k - 1]}
      BY <3>2
    <3>4. \A n \in up[k - 1] : Kids[n] = H!List(node[n].child)
      BY <3>2 DEF Kids
    <3> QED BY <3>3, <3>4
  <2> QED BY <2>1, <2>2
<1>5. Walk(at)
  BY <1>4
<1>6. H!Trees(R) = at[M]
  BY DEF H!Trees
<1> HIDE DEF at
<1>7. /\ at[0] = R
      /\ \A k \in 0..M : at[k] \in S
      /\ \A k \in 1..M : at[k] = at[k - 1] \cup UNION {Kids[n] : n \in at[k - 1]}
  <2>1. \A k \in 0..M : at[k] = IF k = 0 THEN R ELSE at[k - 1] \cup UNION {H!List(node[n].child) : n \in at[k - 1]}
    BY <1>5
  <2>2. at[0] = R
    <3>1. 0 \in 0..M
      BY <1>0
    <3> QED BY <2>1, <3>1
  <2> DEFINE Bad == {k \in 0..M : at[k] \notin S}
  <2>3. Bad = {}
    <3>1. SUFFICES ASSUME Bad # {} PROVE FALSE
      OBVIOUS
    <3>2. PICK m \in Bad : \A l \in Bad : m <= l
      <4>1. Bad \in SUBSET Nat
        OBVIOUS
      <4> HIDE DEF Bad
      <4> QED BY <3>1, <4>1, LeastNat
    <3>3. m # 0 /\ m \in 0..M
      BY <2>2
    <3>4. m - 1 \in 0..M /\ m - 1 \notin Bad
      BY <1>0, <3>2, <3>3
    <3>5. at[m - 1] \in S
      BY <3>4
    <3>6. at[m] = at[m - 1] \cup UNION {H!List(node[n].child) : n \in at[m - 1]}
      BY <2>1, <3>3
    <3>7. \A n \in at[m - 1] : H!List(node[n].child) \subseteq D
      BY <1>1, <3>5 DEF Kids
    <3> QED BY <3>5, <3>6, <3>7
  <2>4. \A k \in 0..M : at[k] \in S
    BY <2>3
  <2>5. ASSUME NEW k \in 1..M PROVE at[k] = at[k - 1] \cup UNION {Kids[n] : n \in at[k - 1]}
    <3>1. k \in 0..M /\ k # 0 /\ k - 1 \in 0..M
      BY <1>0
    <3>2. at[k] = at[k - 1] \cup UNION {H!List(node[n].child) : n \in at[k - 1]}
      BY <2>1, <3>1
    <3>3. at[k - 1] \in S
      BY <2>4, <3>1
    <3>4. \A n \in at[k - 1] : Kids[n] = H!List(node[n].child)
      BY <3>3 DEF Kids
    <3> QED BY <3>2, <3>4
  <2> QED BY <2>2, <2>4, <2>5
<1> HIDE DEF F, Walk
<1>8. \A k \in 0..M : R \subseteq at[k]
  <2> DEFINE Bad == {k \in 0..M : ~ (R \subseteq at[k])}
  <2>1. SUFFICES ASSUME Bad # {} PROVE FALSE
    BY <2>1
  <2>2. PICK m \in Bad : \A l \in Bad : m <= l
    <3>1. Bad \in SUBSET Nat
      OBVIOUS
    <3> HIDE DEF Bad
    <3> QED BY <2>1, <3>1, LeastNat
  <2>3. m # 0
    BY <1>7
  <2>4. m - 1 \in 0..M /\ m - 1 \notin Bad /\ m \in 1..M
    BY <1>0, <2>2, <2>3
  <2>5. R \subseteq at[m - 1] /\ at[m - 1] \subseteq at[m]
    BY <1>7, <2>4
  <2> QED BY <2>5
<1>9. ASSUME NEW Y \in SUBSET D, R \subseteq Y, KidsStay(Kids, Y)
      PROVE  \A k \in 0..M : at[k] \subseteq Y
  <2> DEFINE Bad == {k \in 0..M : ~ (at[k] \subseteq Y)}
  <2>1. SUFFICES ASSUME Bad # {} PROVE FALSE
    BY <2>1
  <2>2. PICK m \in Bad : \A l \in Bad : m <= l
    <3>1. Bad \in SUBSET Nat
      OBVIOUS
    <3> HIDE DEF Bad
    <3> QED BY <2>1, <3>1, LeastNat
  <2>3. m # 0
    BY <1>7, <1>9
  <2>4. m - 1 \in 0..M /\ m - 1 \notin Bad /\ m \in 1..M
    BY <1>0, <2>2, <2>3
  <2>5. at[m - 1] \subseteq Y /\ at[m] = at[m - 1] \cup UNION {Kids[n] : n \in at[m - 1]}
    BY <1>7, <2>4
  <2>6. \A n \in at[m - 1] : Kids[n] \subseteq Y
    BY <1>9, <2>5 DEF KidsStay
  <2>7. at[m] \subseteq Y
    BY <2>5, <2>6
  <2> QED BY <2>7
\* Once a level adds nothing, none does.
<1>10. ASSUME NEW k \in 0..M, KidsStay(Kids, at[k]) PROVE KidsStay(Kids, at[M])
  <2>1. at[k] \in SUBSET D /\ R \subseteq at[k]
    BY <1>7, <1>8
  <2>2. \A j \in 0..M : at[j] \subseteq at[k]
    BY <1>9, <1>10, <2>1
  <2> DEFINE Bad == {j \in 0..M : k <= j /\ at[j] # at[k]}
  <2>3. Bad = {}
    <3>1. SUFFICES ASSUME Bad # {} PROVE FALSE
      OBVIOUS
    <3>2. PICK m \in Bad : \A l \in Bad : m <= l
      <4>1. Bad \in SUBSET Nat
        OBVIOUS
      <4> HIDE DEF Bad
      <4> QED BY <3>1, <4>1, LeastNat
    <3>3. m # k /\ m \in 1..M /\ m - 1 \in 0..M /\ k <= m - 1 /\ m - 1 \notin Bad
      BY <1>0, <3>2
    <3>4. at[m - 1] = at[k] /\ at[m - 1] \subseteq at[m] /\ at[m] \subseteq at[k]
      BY <1>7, <2>2, <3>3
    <3> QED BY <3>2, <3>4
  <2>4. at[M] = at[k]
    BY <1>0, <2>3
  <2> QED BY <1>10, <2>4
<1>11. KidsStay(Kids, at[M])
  <2>1. CASE R = {}
    <3>1. KidsStay(Kids, at[0])
      BY <1>7, <2>1 DEF KidsStay
    <3> QED BY <1>0, <1>10, <3>1
  <2>2. CASE R # {}
    <3>1. SUFFICES ASSUME \A k \in 0..M : ~ KidsStay(Kids, at[k]) PROVE FALSE
      BY <1>10
    <3>2. IsFiniteSet(D) /\ Cardinality(D) <= M /\ Cardinality(D) \in Nat
      <4>1. IsFiniteSet(1..M) /\ Cardinality(1..M) = M
        BY <1>0, FS_Interval
      <4> HIDE DEF M, D
      <4> QED BY <1>0, <4>1, FS_Subset, FS_CardinalityType
    <3>3. \A k \in 0..M : IsFiniteSet(at[k]) /\ Cardinality(at[k]) \in Nat /\ Cardinality(at[k]) <= Cardinality(D)
      <4> SUFFICES ASSUME NEW k \in 0..M
                   PROVE  IsFiniteSet(at[k]) /\ Cardinality(at[k]) \in Nat /\ Cardinality(at[k]) <= Cardinality(D)
        OBVIOUS
      <4>1. at[k] \in SUBSET D
        BY <1>7
      <4> HIDE DEF D
      <4> QED BY <3>2, <4>1, FS_Subset, FS_CardinalityType
    <3> DEFINE Bad == {k \in 0..M : ~ (Cardinality(at[k]) >= k + 1)}
    <3>4. Bad = {}
      <4>1. SUFFICES ASSUME Bad # {} PROVE FALSE
        OBVIOUS
      <4>2. PICK m \in Bad : \A l \in Bad : m <= l
        <5>1. Bad \in SUBSET Nat
          OBVIOUS
        <5> HIDE DEF Bad
        <5> QED BY <4>1, <5>1, LeastNat
      <4>3. m # 0
        <5>1. 0 \in 0..M /\ at[0] = R
          BY <1>0, <1>7
        <5>2. Cardinality(R) # 0 /\ Cardinality(R) \in Nat
          BY <2>2, <3>3, <5>1, FS_EmptySet
        <5> QED BY <4>2, <5>1, <5>2
      <4>4. m - 1 \in 0..M /\ m - 1 \notin Bad /\ m \in 1..M
        BY <1>0, <4>2, <4>3
      <4>5. at[m - 1] \subseteq at[m] /\ at[m] = at[m - 1] \cup UNION {Kids[n] : n \in at[m - 1]}
        BY <1>7, <4>4
      <4>6. at[m - 1] # at[m]
        BY <3>1, <4>4, <4>5 DEF KidsStay
      <4>7. Cardinality(at[m - 1]) <= Cardinality(at[m]) /\ Cardinality(at[m - 1]) # Cardinality(at[m])
        <5>1. at[m - 1] \in SUBSET at[m] /\ IsFiniteSet(at[m])
          BY <3>3, <4>4, <4>5
        <5> QED BY <4>6, <5>1, FS_Subset
      <4>8. Cardinality(at[m - 1]) >= (m - 1) + 1 /\ Cardinality(at[m - 1]) \in Nat /\ Cardinality(at[m]) \in Nat
        BY <3>3, <4>4
      <4> QED BY <4>2, <4>4, <4>7, <4>8
    <3>5. Cardinality(at[M]) >= M + 1 /\ Cardinality(at[M]) <= Cardinality(D) /\ Cardinality(at[M]) \in Nat
      BY <1>0, <3>3, <3>4
    <3> QED BY <1>0, <3>2, <3>5
  <2> QED BY <2>1, <2>2
<1>12. M \in 0..M
  BY <1>0
<1>13. DOMAIN Kids = D
  BY DEF Kids
<1> HIDE DEF M, D
<1>14. at[M] \subseteq D /\ R \subseteq at[M]
  BY <1>7, <1>8, <1>12
<1>15. \A Y \in SUBSET D : R \subseteq Y /\ KidsStay(Kids, Y) => at[M] \subseteq Y
  BY <1>9, <1>12
<1> QED BY <1>6, <1>11, <1>13, <1>14, <1>15 DEF AreTrees

-----------------------------------------------------------------------------
(* Rings of nodes, and what the changes of links make of them.              *)

Ring(nodes, S) ==
    /\ S # {} /\ S \subseteq DOMAIN nodes
    /\ \A m \in S : /\ nodes[m].right \in S /\ nodes[nodes[m].right].left = m
                    /\ nodes[m].left \in S /\ nodes[nodes[m].left].right = m
    /\ \A C \in SUBSET S : C # {} /\ RightStays(nodes, C) => C = S

SameLinks(nodes, nodes2, S) ==
    \A m \in S : nodes2[m].right = nodes[m].right /\ nodes2[m].left = nodes[m].left

LEMMA RingFrame ==
    ASSUME NEW nodes, NEW nodes2, NEW S, Ring(nodes, S), S \subseteq DOMAIN nodes2,
           SameLinks(nodes, nodes2, S)
    PROVE  Ring(nodes2, S)
<1>1. \A m \in S : /\ nodes2[m].right \in S /\ nodes2[nodes2[m].right].left = m
                   /\ nodes2[m].left \in S /\ nodes2[nodes2[m].left].right = m
  BY DEF Ring, SameLinks
<1>2. ASSUME NEW C \in SUBSET S, C # {}, RightStays(nodes2, C) PROVE C = S
  <2>1. RightStays(nodes, C)
    BY <1>2 DEF RightStays, SameLinks
  <2> QED BY <1>2, <2>1 DEF Ring
<1> QED BY <1>1, <1>2 DEF Ring

LEMMA RingIsList ==
    ASSUME NEW nodes, NEW S, Ring(nodes, S), NEW n \in S, 0 \notin DOMAIN nodes
    PROVE  IsList(nodes, S, n)
<1>1. RightStays(nodes, S) /\ n # 0
  BY DEF Ring, RightStays
<1>2. ASSUME NEW Y \in SUBSET DOMAIN nodes, n \in Y, RightStays(nodes, Y) PROVE S \subseteq Y
  <2>1. RightStays(nodes, S \cap Y)
    BY <1>1, <1>2 DEF RightStays
  <2>2. S \cap Y = S
    BY <1>2, <2>1 DEF Ring
  <2> QED BY <2>2
<1> QED BY <1>1, <1>2 DEF IsList, Ring

\* Two rings exchange what follows p in one and q in the other.
LEMMA RingsJoin ==
    ASSUME NEW nodes, NEW nodes2, NEW A, NEW B, Ring(nodes, A), Ring(nodes, B), A \cap B = {},
           0 \notin DOMAIN nodes, DOMAIN nodes2 = DOMAIN nodes,
           NEW p \in A, NEW q \in B,
           \A m \in A \cup B :
              /\ nodes2[m].right = IF m = p THEN nodes[q].right
                                   ELSE IF m = q THEN nodes[p].right ELSE nodes[m].right
              /\ nodes2[m].left = IF m = nodes[q].right THEN p
                                  ELSE IF m = nodes[p].right THEN q ELSE nodes[m].left
    PROVE  Ring(nodes2, A \cup B)
<1>0. p \notin B /\ q \notin A /\ nodes[p].right \in A /\ nodes[q].right \in B
  BY DEF Ring
<1>1. ASSUME NEW m \in A \cup B
      PROVE  /\ nodes2[m].right \in A \cup B /\ nodes2[nodes2[m].right].left = m
             /\ nodes2[m].left \in A \cup B /\ nodes2[nodes2[m].left].right = m
  <2>1. \A S \in {A, B} : \A e \in S :
           /\ nodes[e].right \in S /\ nodes[nodes[e].right].left = e
           /\ nodes[e].left \in S /\ nodes[nodes[e].left].right = e
    BY DEF Ring
  <2>2. CASE m \in A
    BY <1>0, <2>1, <2>2
  <2>3. CASE m \in B
    BY <1>0, <2>1, <2>3
  <2> QED BY <2>2, <2>3
<1>2. ASSUME NEW C \in SUBSET (A \cup B), C # {}, RightStays(nodes2, C) PROVE C = A \cup B
  <2>0. \A m \in C : nodes2[m].right \in C
    BY <1>1, <1>2 DEF RightStays, Ring
  <2>1. C \cap A # {} /\ p \notin C => FALSE
    <3>1. ASSUME C \cap A # {}, p \notin C PROVE RightStays(nodes, C \cap A)
      <4>1. \A m \in C \cap A : nodes2[m].right = nodes[m].right
        BY <1>0, <3>1
      <4>2. \A m \in C \cap A : nodes[m].right \in A
        BY DEF Ring
      <4> QED BY <2>0, <4>1, <4>2 DEF RightStays
    <3>2. C \cap A # {} /\ p \notin C => C \cap A = A
      BY <3>1 DEF Ring
    <3> QED BY <3>2
  <2>2. C \cap B # {} /\ q \notin C => FALSE
    <3>1. ASSUME C \cap B # {}, q \notin C PROVE RightStays(nodes, C \cap B)
      <4>1. \A m \in C \cap B : nodes2[m].right = nodes[m].right
        BY <1>0, <3>1
      <4>2. \A m \in C \cap B : nodes[m].right \in B
        BY DEF Ring
      <4> QED BY <2>0, <4>1, <4>2 DEF RightStays
    <3>2. C \cap B # {} /\ q \notin C => C \cap B = B
      BY <3>1 DEF Ring
    <3> QED BY <3>2
  <2>3. (p \in C => nodes[q].right \in C) /\ (q \in C => nodes[p].right \in C)
    BY <1>0, <2>0
  <2>6. p \in C /\ q \in C
    BY <1>0, <1>2, <2>1, <2>2, <2>3
  <2>7. \A m \in A : m \in C => nodes[m].right \in C /\ nodes[m].right \in A
    BY <1>0, <2>0, <2>3, <2>6 DEF Ring
  <2>8. \A m \in B : m \in C => nodes[m].right \in C /\ nodes[m].right \in B
    BY <1>0, <2>0, <2>3, <2>6 DEF Ring
  <2>4. RightStays(nodes, C \cap A) /\ RightStays(nodes, C \cap B)
    BY <2>7, <2>8 DEF RightStays
  <2>5. C \cap A = A /\ C \cap B = B
    BY <2>4, <2>6 DEF Ring
  <2> QED BY <2>5
<1> QED BY <1>1, <1>2 DEF Ring

\* A node leaves a ring.
Loses(nodes, nodes2, A, n) ==
    /\ A \ {n} \subseteq DOMAIN nodes2
    /\ \A m \in A \ {n} :
          /\ nodes2[m].right = IF m = nodes[n].left THEN nodes[n].right ELSE nodes[m].right
          /\ nodes2[m].left = IF m = nodes[n].right THEN nodes[n].left ELSE nodes[m].left

LEMMA RingLoses ==
    ASSUME NEW nodes, NEW nodes2, NEW A, Ring(nodes, A), 0 \notin DOMAIN nodes,
           NEW n \in A, nodes[n].right # n, Loses(nodes, nodes2, A, n)
    PROVE  Ring(nodes2, A \ {n}) /\ nodes[n].right \in A \ {n}
<1>0. /\ A \ {n} \subseteq DOMAIN nodes2
      /\ \A m \in A \ {n} :
            /\ nodes2[m].right = IF m = nodes[n].left THEN nodes[n].right ELSE nodes[m].right
            /\ nodes2[m].left = IF m = nodes[n].right THEN nodes[n].left ELSE nodes[m].left
  BY DEF Loses
<1>1. /\ nodes[n].right \in A \ {n} /\ nodes[n].left \in A \ {n}
      /\ \A e \in A : /\ nodes[e].right \in A /\ nodes[nodes[e].right].left = e
                      /\ nodes[e].left \in A /\ nodes[nodes[e].left].right = e
  BY DEF Ring
<1>2. ASSUME NEW m \in A \ {n}
      PROVE  /\ nodes2[m].right \in A \ {n} /\ nodes2[nodes2[m].right].left = m
             /\ nodes2[m].left \in A \ {n} /\ nodes2[nodes2[m].left].right = m
  BY <1>0, <1>1
<1>3. ASSUME NEW C \in SUBSET (A \ {n}), C # {}, RightStays(nodes2, C) PROVE C = A \ {n}
  <2>0. \A m \in C : nodes2[m].right \in C
    BY <1>2, <1>3 DEF RightStays, Ring
  <2>1. CASE nodes[n].left \in C
    <3>1. RightStays(nodes, C \cup {n})
      BY <1>0, <1>1, <2>0, <2>1 DEF RightStays
    <3>2. C \cup {n} = A
      BY <3>1 DEF Ring
    <3> QED BY <3>2
  <2>2. CASE nodes[n].left \notin C
    <3>1. RightStays(nodes, C)
      BY <1>0, <1>1, <2>0, <2>2 DEF RightStays
    <3>2. C = A
      BY <1>3, <3>1 DEF Ring
    <3> QED BY <3>2
  <2> QED BY <2>1, <2>2
<1> QED BY <1>0, <1>1, <1>2, <1>3 DEF Ring

\* A ring is opened before m.
Threaded(nodes, R) ==
    \A n \in R :
       /\ nodes[n].right \in R \cup {0} /\ nodes[n].left \in R \cup {0}
       /\ nodes[n].right # 0 => nodes[nodes[n].right].left = n
       /\ nodes[n].left # 0 => nodes[nodes[n].left].right = n

Opens(nodes, nodes2, A, m) ==
    /\ DOMAIN nodes2 = DOMAIN nodes
    /\ \A n \in A :
          /\ nodes2[n].right = IF n = nodes[m].left THEN 0 ELSE nodes[n].right
          /\ nodes2[n].left = IF n = m THEN 0 ELSE nodes[n].left

LEMMA RingOpens ==
    ASSUME NEW nodes, NEW nodes2, NEW A, Ring(nodes, A), 0 \notin DOMAIN nodes,
           NEW m \in A, Opens(nodes, nodes2, A, m)
    PROVE  IsList(nodes2, A, m) /\ Threaded(nodes2, A) /\ nodes2[m].left = 0
<1>0. /\ DOMAIN nodes2 = DOMAIN nodes
      /\ \A n \in A :
            /\ nodes2[n].right = IF n = nodes[m].left THEN 0 ELSE nodes[n].right
            /\ nodes2[n].left = IF n = m THEN 0 ELSE nodes[n].left
  BY DEF Opens
<1>1. /\ m # 0 /\ A \subseteq DOMAIN nodes /\ 0 \notin A
      /\ \A e \in A : /\ nodes[e].right \in A /\ nodes[nodes[e].right].left = e
                      /\ nodes[e].left \in A /\ nodes[nodes[e].left].right = e
  BY DEF Ring
<1>2. Threaded(nodes2, A)
  BY <1>0, <1>1 DEF Threaded
<1>3. RightStays(nodes2, A)
  BY <1>0, <1>1 DEF RightStays
<1>4. ASSUME NEW S \in SUBSET DOMAIN nodes2, m \in S, RightStays(nodes2, S) PROVE A \subseteq S
  <2>1. RightStays(nodes, S \cap A)
    <3> SUFFICES ASSUME NEW n \in S \cap A PROVE nodes[n].right \in S \cap A
      BY DEF RightStays
    <3>1. CASE n = nodes[m].left
      BY <1>0, <1>1, <1>4, <3>1
    <3>2. CASE n # nodes[m].left
      BY <1>0, <1>1, <1>4, <3>2 DEF RightStays
    <3> QED BY <3>1, <3>2
  <2>2. S \cap A = A
    BY <1>4, <2>1 DEF Ring
  <2> QED BY <2>2
<1> QED BY <1>0, <1>1, <1>2, <1>3, <1>4 DEF IsList

-----------------------------------------------------------------------------
(* The trees: kids[n] is the ring of the children of n.                     *)

Node == [left : Nat, right : Nat, parent : Nat, child : Nat, degree : Nat, key : Key]

AreNodes(nodes) == DOMAIN nodes \subseteq 1..MaxNodes /\ nodes \in [DOMAIN nodes -> Node]

HasKids(nodes, kids, n) ==
    IF nodes[n].child = 0 THEN kids[n] = {}
    ELSE nodes[n].child \in kids[n] /\ Ring(nodes, kids[n])

\* A node of degree d has one child of each lesser degree.
Heaped(nodes, kids, n) ==
    /\ \A k \in kids[n] : /\ nodes[k].parent = n /\ nodes[n].key <= nodes[k].key
                          /\ nodes[k].degree < nodes[n].degree
    /\ \A k, l \in kids[n] : nodes[k].degree = nodes[l].degree => k = l
    /\ \A j \in 0..(nodes[n].degree - 1) : \E k \in kids[n] : nodes[k].degree = j

Shape(nodes, kids) ==
    /\ AreNodes(nodes)
    /\ kids \in [DOMAIN nodes -> SUBSET DOMAIN nodes]
    /\ \A n \in DOMAIN nodes : HasKids(nodes, kids, n)
    /\ \A n \in DOMAIN nodes : Heaped(nodes, kids, n)

\* V is the trees whose roots are R.
Grove(kids, R, V) ==
    /\ R \subseteq V /\ V \subseteq DOMAIN kids
    /\ KidsStay(kids, V)
    /\ \A n \in V \ R : \E p \in V : n \in kids[p]
    /\ \A p \in V : kids[p] \cap R = {}

LEMMA NodesFinite ==
    ASSUME NEW nodes, AreNodes(nodes)
    PROVE  IsFiniteSet(DOMAIN nodes) /\ 0 \notin DOMAIN nodes /\ MaxNodes \in Nat
<1>1. IsFiniteSet(1..MaxNodes) /\ MaxNodes \in Nat
  BY HeapAssumption, FS_Interval
<1>2. DOMAIN nodes \in SUBSET (1..MaxNodes)
  BY DEF AreNodes
<1>3. IsFiniteSet(DOMAIN nodes)
  BY <1>1, <1>2, FS_Subset
<1> QED BY <1>1, <1>2, <1>3

LEMMA HighestDegree ==
    ASSUME NEW nodes, AreNodes(nodes), NEW B \in SUBSET DOMAIN nodes, B # {}
    PROVE  \E m \in B : \A n \in B : nodes[n].degree <= nodes[m].degree
<1> DEFINE S == {nodes[n].degree : n \in B}
           deg == [n \in B |-> nodes[n].degree]
<1>1. IsFiniteSet(B)
  BY NodesFinite, FS_Subset
<1>2. deg \in Surjection(B, S)
  BY DEF Surjection
<1>3. IsFiniteSet(S)
  <2> HIDE DEF deg, S
  <2> QED BY <1>1, <1>2, FS_Surjection
<1>4. S \in SUBSET Int /\ S # {}
  BY DEF AreNodes, Node
<1>5. PICK j \in S : \A l \in S : j >= l
  <2> HIDE DEF S
  <2> QED BY <1>3, <1>4, GreatestOfFinite
<1>6. PICK m \in B : j = nodes[m].degree
  OBVIOUS
<1>7. ASSUME NEW n \in B PROVE nodes[n].degree <= nodes[m].degree
  <2>1. nodes[n].degree \in S /\ nodes[n].degree \in Nat /\ nodes[m].degree \in Nat
    BY DEF AreNodes, Node
  <2> QED BY <1>5, <1>6, <2>1
<1> QED BY <1>7

LEMMA GroveIsTrees ==
    ASSUME NEW nodes, NEW kids, Shape(nodes, kids), NEW R, NEW V, Grove(kids, R, V)
    PROVE  AreTrees(kids, V, R)
<1>1. ASSUME NEW S \in SUBSET DOMAIN kids, R \subseteq S, KidsStay(kids, S) PROVE V \subseteq S
  <2>1. SUFFICES ASSUME V \ S # {} PROVE FALSE
    OBVIOUS
  <2>2. V \ S \in SUBSET DOMAIN nodes
    BY DEF Grove, Shape
  <2>3. PICK m \in V \ S : \A n \in V \ S : nodes[n].degree <= nodes[m].degree
    BY <2>1, <2>2, HighestDegree DEF Shape
  <2>4. PICK p \in V : m \in kids[p]
    BY <1>1, <2>3 DEF Grove
  <2>5. p \notin S
    BY <1>1, <2>3, <2>4 DEF KidsStay
  <2>6. nodes[m].degree < nodes[p].degree /\ nodes[p].degree \in Nat /\ nodes[m].degree \in Nat
    BY <2>4, <2>2, <2>5 DEF Shape, Heaped, AreNodes, Node
  <2> QED BY <2>3, <2>5, <2>6
<1> QED BY <1>1 DEF AreTrees, Grove

\* The least root is the least of all.
LEMMA LeastOfGrove ==
    ASSUME NEW nodes, NEW kids, Shape(nodes, kids), NEW R, NEW V, Grove(kids, R, V),
           NEW m \in R, \A n \in R : nodes[m].key <= nodes[n].key
    PROVE  \A n \in V : nodes[m].key <= nodes[n].key
<1> DEFINE B == {n \in V : ~ (nodes[m].key <= nodes[n].key)}
<1>1. SUFFICES ASSUME B # {} PROVE FALSE
  OBVIOUS
<1>2. B \in SUBSET DOMAIN nodes /\ m \in DOMAIN nodes
  BY DEF Grove, Shape
<1>3. PICK e \in B : \A n \in B : nodes[n].degree <= nodes[e].degree
  <2> HIDE DEF B
  <2> QED BY <1>1, <1>2, HighestDegree DEF Shape
<1>4. PICK p \in V : e \in kids[p]
  BY <1>3 DEF Grove
<1>5. p \in DOMAIN nodes /\ e \in DOMAIN nodes
  BY <1>2 DEF Grove, Shape
<1>6. /\ nodes[e].degree < nodes[p].degree /\ nodes[p].key <= nodes[e].key
      /\ nodes[p].degree \in Nat /\ nodes[e].degree \in Nat
      /\ nodes[p].key \in Int /\ nodes[e].key \in Int /\ nodes[m].key \in Int
  BY <1>2, <1>4, <1>5, HeapAssumption DEF Shape, Heaped, AreNodes, Node
<1>7. p \notin B
  BY <1>3, <1>6
<1> QED BY <1>3, <1>6, <1>7

\* A node of degree d has 2^d nodes in its tree.
LEMMA PowerOfTwo ==
    /\ 2 ^ 0 = 1
    /\ \A j \in Nat : 2 ^ j \in Nat /\ 2 ^ (j + 1) = 2 ^ j + 2 ^ j
<1>1. \A j \in Nat : IsFiniteSet(1..j) /\ Cardinality(1..j) = j
  BY FS_Interval
<1>2. \A j \in Nat : IsFiniteSet(SUBSET (1..j)) /\ Cardinality(SUBSET (1..j)) = 2 ^ j
  BY <1>1, FS_SUBSET
<1>3. ASSUME NEW j \in Nat PROVE 2 ^ j \in Nat
  BY <1>2, FS_CardinalityType
<1>4. ASSUME NEW j \in Nat PROVE 2 ^ (j + 1) = 2 ^ j + 2 ^ j
  <2> DEFINE A == SUBSET (1..j)
             B == {s \cup {j + 1} : s \in A}
             put == [s \in A |-> s \cup {j + 1}]
  <2>1. SUBSET (1..(j + 1)) = A \cup B
    <3>1. ASSUME NEW s \in SUBSET (1..(j + 1)) PROVE s \in A \cup B
      <4>1. CASE j + 1 \in s
        <5>1. s \ {j + 1} \in A /\ (s \ {j + 1}) \cup {j + 1} = s
          BY <4>1
        <5> QED BY <5>1
      <4>2. CASE j + 1 \notin s
        <5>1. s \in A
          BY <4>2
        <5> QED BY <5>1
      <4> QED BY <4>1, <4>2
    <3>2. \A i \in 1..j : i \in 1..(j + 1)
      OBVIOUS
    <3>4. j + 1 \in 1..(j + 1)
      OBVIOUS
    <3>5. \A s \in A : s \subseteq 1..(j + 1) /\ s \cup {j + 1} \subseteq 1..(j + 1)
      BY <3>2, <3>4
    <3>6. ASSUME NEW e \in A \cup B PROVE e \in SUBSET (1..(j + 1))
      BY <3>5
    <3> HIDE DEF A, B
    <3> QED BY <3>1, <3>6
  <2>2. A \cap B = {}
    <3>1. \A s \in A : j + 1 \notin s
      OBVIOUS
    <3> QED BY <3>1
  <2>3. put \in Bijection(A, B)
    <3>1. \A s \in A : j + 1 \notin s
      OBVIOUS
    <3>2. put \in Surjection(A, B)
      BY DEF Surjection
    <3>3. \A s, t \in A : put[s] = put[t] => s = t
      BY <3>1
    <3>4. put \in [A -> B] /\ DOMAIN put = A
      OBVIOUS
    <3> HIDE DEF put, A, B
    <3>5. put \in Injection(A, B)
      BY <3>3, <3>4 DEF Injection, IsInjective
    <3> QED BY <3>2, <3>5 DEF Bijection
  <2>4. IsFiniteSet(A) /\ Cardinality(A) = 2 ^ j /\ 2 ^ j \in Nat
    BY <1>2, <1>3
  <2>5. IsFiniteSet(B) /\ Cardinality(B) = 2 ^ j
    <3> HIDE DEF A, B, put
    <3> QED BY <2>3, <2>4, FS_Bijection DEF ExistsBijection
  <2>6. Cardinality(A \cup B) = 2 ^ j + 2 ^ j
    <3> HIDE DEF A, B
    <3>1. Cardinality(A \cap B) = 0
      BY <2>2, FS_EmptySet
    <3>2. Cardinality(A \cup B) = Cardinality(A) + Cardinality(B) - Cardinality(A \cap B)
      BY <2>4, <2>5, FS_Union
    <3> QED BY <2>4, <2>5, <3>1, <3>2
  <2>7. Cardinality(SUBSET (1..(j + 1))) = 2 ^ (j + 1)
    BY <1>2
  <2> QED BY <2>1, <2>6, <2>7
<1>5. 2 ^ 0 = 1
  OBVIOUS
<1> QED BY <1>3, <1>4, <1>5

LEMMA BelowOne ==
    ASSUME NEW nodes, NEW kids, Shape(nodes, kids), NEW n \in DOMAIN nodes,
           NEW V, AreTrees(kids, V, {n})
    PROVE  /\ \A e \in V : e # n => \E p \in V : e \in kids[p]
           /\ \A e \in V : nodes[e].degree <= nodes[n].degree
<1>1. \A e \in V : e # n => \E p \in V : e \in kids[p]
  <2> DEFINE S == {e \in V : e = n \/ \E p \in V : e \in kids[p]}
  <2>1. S \in SUBSET DOMAIN kids /\ {n} \subseteq S /\ KidsStay(kids, S)
    BY DEF AreTrees, KidsStay
  <2> HIDE DEF S
  <2>2. V \subseteq S
    BY <2>1 DEF AreTrees
  <2> QED BY <2>2 DEF S
<1>2. \A e \in V : nodes[e].degree <= nodes[n].degree
  <2> DEFINE S == {e \in DOMAIN nodes : nodes[e].degree <= nodes[n].degree}
  <2>1. \A e \in DOMAIN nodes : nodes[e].degree \in Nat
    BY DEF Shape, AreNodes, Node
  <2>2. S \in SUBSET DOMAIN kids /\ {n} \subseteq S
    BY <2>1 DEF Shape
  <2>3. KidsStay(kids, S)
    <3> SUFFICES ASSUME NEW e \in S, NEW k \in kids[e] PROVE k \in S
      BY DEF KidsStay
    <3>1. k \in DOMAIN nodes /\ nodes[k].degree < nodes[e].degree
      BY DEF Shape, Heaped
    <3> QED BY <2>1, <3>1
  <2> HIDE DEF S
  <2>4. V \subseteq S
    BY <2>2, <2>3 DEF AreTrees
  <2> QED BY <2>4 DEF S
<1> QED BY <1>1, <1>2

\* V is the tree of root k.
IsTree(kids, V, k) == AreTrees(kids, V, {k})

LEMMA TreesApart ==
    ASSUME NEW nodes, NEW kids, Shape(nodes, kids), NEW n \in DOMAIN nodes,
           NEW k \in kids[n], NEW l \in kids[n], k # l,
           NEW V, IsTree(kids, V, k), NEW Y, IsTree(kids, Y, l)
    PROVE  V \cap Y = {}
<1> USE DEF IsTree
<1>0. k \in DOMAIN nodes /\ l \in DOMAIN nodes /\ DOMAIN kids = DOMAIN nodes
      /\ V \subseteq DOMAIN nodes /\ Y \subseteq DOMAIN nodes
      /\ nodes[k].degree < nodes[n].degree /\ nodes[l].degree < nodes[n].degree
      /\ \A e \in DOMAIN nodes : nodes[e].degree \in Nat
  BY DEF Shape, AreTrees, Heaped, AreNodes, Node
<1>1. n \notin V /\ n \notin Y
  BY <1>0, BelowOne
<1>2. SUFFICES ASSUME V \cap Y # {} PROVE FALSE
  OBVIOUS
<1>3. PICK e \in V \cap Y : \A i \in V \cap Y : nodes[i].degree <= nodes[e].degree
  <2>1. V \cap Y \in SUBSET DOMAIN nodes
    BY <1>0
  <2> QED BY <1>2, <2>1, HighestDegree DEF Shape
<1>4. \A p, q \in DOMAIN nodes : e \in kids[p] /\ e \in kids[q] => p = q
  BY DEF Shape, Heaped
<1>5. e # k
  <2>1. ASSUME e = k PROVE FALSE
    <3>1. PICK p \in Y : e \in kids[p]
      BY <1>0, <1>3, <2>1, BelowOne
    <3> QED BY <1>0, <1>1, <1>4, <2>1, <3>1
  <2> QED BY <2>1
<1>6. e # l
  <2>1. ASSUME e = l PROVE FALSE
    <3>1. PICK p \in V : e \in kids[p]
      BY <1>0, <1>3, <2>1, BelowOne
    <3> QED BY <1>0, <1>1, <1>4, <2>1, <3>1
  <2> QED BY <2>1
<1>7. PICK p \in V : e \in kids[p]
  BY <1>0, <1>3, <1>5, BelowOne
<1>8. PICK q \in Y : e \in kids[q]
  BY <1>0, <1>3, <1>6, BelowOne
<1>9. p = q /\ p \in V \cap Y /\ nodes[e].degree < nodes[p].degree
  BY <1>0, <1>4, <1>7, <1>8 DEF Shape, Heaped
<1> QED BY <1>0, <1>3, <1>9

LEMMA ChildrenCount ==
    ASSUME NEW nodes, NEW kids, Shape(nodes, kids), NEW n \in DOMAIN nodes
    PROVE  Cardinality(kids[n]) = nodes[n].degree
<1> DEFINE K == kids[n]
           J == 0..(nodes[n].degree - 1)
           deg == [k \in K |-> nodes[k].degree]
<1>1. /\ nodes[n].degree \in Nat
      /\ \A k \in K : nodes[k].degree \in J
      /\ \A k, l \in K : nodes[k].degree = nodes[l].degree => k = l
      /\ \A j \in J : \E k \in K : nodes[k].degree = j
      /\ K \in SUBSET DOMAIN nodes
  BY DEF Shape, Heaped, AreNodes, Node
<1>2. DOMAIN deg = K /\ deg \in [K -> J] /\ \A k \in K : deg[k] = nodes[k].degree
  BY <1>1
<1>3. IsFiniteSet(K)
  BY <1>1, NodesFinite, FS_Subset DEF Shape
<1>4. IsFiniteSet(J) /\ Cardinality(J) = nodes[n].degree
  <2> DEFINE last == nodes[n].degree - 1
  <2>1. 0 \in Int /\ last \in Int /\ last + 1 = nodes[n].degree /\ last >= -1
    BY <1>1
  <2> HIDE DEF last
  <2>2. IsFiniteSet(0..last) /\ Cardinality(0..last) = IF 0 > last THEN 0 ELSE last - 0 + 1
    BY <2>1, FS_Interval
  <2>3. Cardinality(0..last) = last + 1
    BY <2>1, <2>2
  <2> QED BY <2>1, <2>2, <2>3 DEF last
<1> HIDE DEF deg, K, J
<1>5. deg \in Surjection(K, J) /\ deg \in Injection(K, J)
  <2>1. \A j \in J : \E k \in K : deg[k] = j
    <3> SUFFICES ASSUME NEW j \in J PROVE \E k \in K : deg[k] = j
      OBVIOUS
    <3>1. PICK k \in K : nodes[k].degree = j
      BY <1>1
    <3> QED BY <1>2, <3>1
  <2>2. \A k, l \in K : deg[k] = deg[l] => k = l
    <3> SUFFICES ASSUME NEW k \in K, NEW l \in K, deg[k] = deg[l] PROVE k = l
      OBVIOUS
    <3>1. nodes[k].degree = nodes[l].degree
      BY <1>2
    <3> QED BY <1>1, <3>1
  <2>3. deg \in [K -> J] /\ DOMAIN deg = K
    BY <1>2
  <2>4. deg \in Surjection(K, J)
    BY <2>1, <2>3 DEF Surjection
  <2>5. deg \in Injection(K, J)
    BY <2>2, <2>3 DEF Injection, IsInjective
  <2> QED BY <2>4, <2>5
<1>6. Cardinality(J) = Cardinality(K)
  BY <1>3, <1>5, FS_Surjection
<1> QED BY <1>4, <1>6 DEF K

LEMMA TreeCounts ==
    ASSUME NEW nodes, NEW kids, Shape(nodes, kids),
           NEW sub, \A n \in DOMAIN nodes : AreTrees(kids, sub[n], {n})
    PROVE  \A n \in DOMAIN nodes : Cardinality(sub[n]) = 2 ^ nodes[n].degree
<1> DEFINE Good(n) == Cardinality(sub[n]) = 2 ^ nodes[n].degree
           Bad == {n \in DOMAIN nodes : ~ Good(n)}
           degs == {nodes[n].degree : n \in Bad}
<1>1. SUFFICES ASSUME Bad # {} PROVE FALSE
  OBVIOUS
<1>2. \A n \in DOMAIN nodes : nodes[n].degree \in Nat /\ kids[n] \subseteq DOMAIN nodes
  BY DEF Shape, AreNodes, Node
<1>3. PICK least \in degs : \A j \in degs : least <= j
  <2>1. degs \in SUBSET Nat /\ degs # {}
    BY <1>1, <1>2
  <2> HIDE DEF degs
  <2> QED BY <2>1, LeastNat
<1>4. PICK n \in Bad : nodes[n].degree = least
  OBVIOUS
<1> HIDE DEF Good
<1>5. ASSUME NEW k \in DOMAIN nodes, nodes[k].degree < nodes[n].degree PROVE Good(k)
  <2>1. ~ Good(k) => nodes[k].degree \in degs
    OBVIOUS
  <2>2. nodes[n].degree \in Nat /\ nodes[k].degree \in Nat
    BY <1>2
  <2> HIDE DEF degs
  <2> QED BY <1>3, <1>4, <1>5, <2>1, <2>2
<1>6. n \in DOMAIN nodes /\ ~ Good(n)
  OBVIOUS
<1> HIDE DEF Bad, degs
<1> DEFINE d0 == nodes[n].degree
           Some(j) == {k \in kids[n] : nodes[k].degree < j}
           Y(j) == UNION {sub[k] : k \in Some(j)}
           Wrong == {j \in 0..d0 : ~ (IsFiniteSet(Y(j)) /\ Cardinality(Y(j)) = 2 ^ j - 1)}
<1>7. \A k \in DOMAIN nodes : /\ sub[k] \in SUBSET DOMAIN nodes /\ IsFiniteSet(sub[k])
                              /\ k \in sub[k]
  <2> SUFFICES ASSUME NEW k \in DOMAIN nodes
               PROVE  sub[k] \in SUBSET DOMAIN nodes /\ IsFiniteSet(sub[k]) /\ k \in sub[k]
    OBVIOUS
  <2>1. sub[k] \in SUBSET DOMAIN nodes /\ k \in sub[k]
    BY DEF AreTrees, Shape
  <2> QED BY <2>1, NodesFinite, FS_Subset DEF Shape
<1>8. d0 \in Nat
  BY <1>2, <1>6
<1>9. Wrong = {}
  <2>1. SUFFICES ASSUME Wrong # {} PROVE FALSE
    OBVIOUS
  <2>2. PICK j \in Wrong : \A i \in Wrong : j <= i
    <3>1. Wrong \in SUBSET Nat
      BY <1>8
    <3> HIDE DEF Wrong
    <3> QED BY <2>1, <3>1, LeastNat
  <2>3. j # 0
    <3>1. Some(0) = {}
      BY <1>2, <1>6
    <3>2. Y(0) = {}
      BY <3>1
    <3>3. 2 ^ 0 - 1 = 0
      BY PowerOfTwo
    <3>4. 0 \notin Wrong
      BY <3>2, <3>3, FS_EmptySet
    <3> QED BY <3>4
  <2>4. j - 1 \in 0..d0 /\ j - 1 \notin Wrong /\ j \in 1..d0 /\ j - 1 \in 0..(d0 - 1) /\ j - 1 \in Nat
    BY <1>8, <2>2, <2>3
  <2>5. IsFiniteSet(Y(j - 1)) /\ Cardinality(Y(j - 1)) = 2 ^ (j - 1) - 1
    BY <2>4
  <2>6. PICK k \in kids[n] : nodes[k].degree = j - 1
    BY <1>6, <2>4 DEF Shape, Heaped
  <2>7. k \in DOMAIN nodes
    BY <1>2, <1>6
  <2>8. Some(j) = Some(j - 1) \cup {k}
    <3>1. \A l \in kids[n] : nodes[l].degree < j <=> nodes[l].degree < j - 1 \/ nodes[l].degree = j - 1
      BY <1>2, <1>6, <2>4
    <3>2. \A l \in kids[n] : nodes[l].degree = j - 1 => l = k
      BY <1>6, <2>6 DEF Shape, Heaped
    <3> QED BY <2>6, <3>1, <3>2
  <2>9. Y(j) = Y(j - 1) \cup sub[k]
    BY <2>8
  <2>10. Y(j - 1) \cap sub[k] = {}
    <3>1. ASSUME NEW l \in Some(j - 1) PROVE sub[l] \cap sub[k] = {}
      <4>1. l \in kids[n] /\ l # k /\ l \in DOMAIN nodes
        BY <1>2, <1>6, <2>4, <2>6
      <4>2. IsTree(kids, sub[l], l) /\ IsTree(kids, sub[k], k)
        BY <2>7, <4>1 DEF IsTree
      <4>3. /\ Shape(nodes, kids) /\ n \in DOMAIN nodes
            /\ l \in kids[n] /\ k \in kids[n] /\ l # k
        BY <1>6, <2>6, <4>1
      <4> HIDE DEF Some, Y, Wrong, d0
      <4> QED BY <4>2, <4>3, TreesApart
    <3> QED BY <3>1
  <2>11. Cardinality(sub[k]) = 2 ^ (j - 1)
    <3>1. nodes[k].degree < nodes[n].degree
      BY <2>4, <2>6, <1>8
    <3> QED BY <1>5, <2>6, <2>7, <3>1 DEF Good
  <2>12. 2 ^ (j - 1) \in Nat /\ 2 ^ j = 2 ^ (j - 1) + 2 ^ (j - 1)
    <3>1. (j - 1) + 1 = j
      BY <2>4
    <3> QED BY <2>4, <3>1, PowerOfTwo
  <2> HIDE DEF Y
  <2>13. IsFiniteSet(Y(j)) /\ Cardinality(Y(j)) = Cardinality(Y(j - 1)) + Cardinality(sub[k])
    <3>1. Cardinality(Y(j - 1) \cap sub[k]) = 0
      BY <2>10, FS_EmptySet
    <3>2. IsFiniteSet(sub[k])
      BY <1>7, <2>7
    <3>3. /\ IsFiniteSet(Y(j - 1) \cup sub[k])
          /\ Cardinality(Y(j - 1) \cup sub[k]) =
               Cardinality(Y(j - 1)) + Cardinality(sub[k]) - Cardinality(Y(j - 1) \cap sub[k])
      BY <2>5, <3>2, FS_Union
    <3> QED BY <2>5, <2>9, <2>11, <2>12, <3>1, <3>3
  <2>14. Cardinality(Y(j)) = 2 ^ j - 1
    BY <2>5, <2>11, <2>12, <2>13
  <2> QED BY <2>2, <2>13, <2>14
<1>10. IsFiniteSet(Y(d0)) /\ Cardinality(Y(d0)) = 2 ^ d0 - 1
  <2>1. d0 \in 0..d0
    BY <1>8
  <2> QED BY <1>9, <2>1
<1>11. Some(d0) = kids[n]
  BY <1>6 DEF Shape, Heaped
<1>12. sub[n] = {n} \cup Y(d0)
  <2> DEFINE S == {n} \cup Y(d0)
  <2>1. S \in SUBSET DOMAIN kids /\ {n} \subseteq S
    <3>1. \A k \in kids[n] : sub[k] \subseteq DOMAIN nodes
      BY <1>2, <1>6, <1>7
    <3> QED BY <1>6, <1>11, <3>1 DEF Shape
  <2>2. KidsStay(kids, S)
    <3> SUFFICES ASSUME NEW e \in S PROVE kids[e] \subseteq S
      BY DEF KidsStay
    <3>1. CASE e = n
      <4>1. \A k \in kids[n] : k \in sub[k]
        BY <1>2, <1>6, <1>7
      <4> QED BY <1>11, <3>1, <4>1
    <3>2. CASE e \in Y(d0)
      <4>1. PICK k \in kids[n] : e \in sub[k]
        BY <3>2
      <4>2. kids[e] \subseteq sub[k]
        BY <1>2, <1>6, <4>1 DEF AreTrees, KidsStay
      <4>3. k \in Some(d0)
        BY <1>11
      <4>4. sub[k] \subseteq Y(d0)
        BY <4>3
      <4> QED BY <4>2, <4>4
    <3> QED BY <3>1, <3>2
  <2>3. sub[n] \subseteq S
    <3> HIDE DEF S
    <3> QED BY <1>6, <2>1, <2>2 DEF AreTrees
  <2>4. S \subseteq sub[n]
    <3>1. n \in sub[n]
      BY <1>6, <1>7
    <3>2. ASSUME NEW k \in kids[n] PROVE sub[k] \subseteq sub[n]
      <4>1. k \in sub[n] /\ KidsStay(kids, sub[n]) /\ sub[n] \in SUBSET DOMAIN kids
        BY <1>6, <3>1 DEF AreTrees, KidsStay
      <4>2. k \in DOMAIN nodes
        BY <1>2, <1>6
      <4> QED BY <4>1, <4>2 DEF AreTrees
    <3> QED BY <3>1, <3>2
  <2> QED BY <2>3, <2>4
<1>13. n \notin Y(d0)
  <2> SUFFICES ASSUME NEW k \in kids[n], n \in sub[k] PROVE FALSE
    OBVIOUS
  <2>1. k \in DOMAIN nodes /\ nodes[k].degree < nodes[n].degree
    BY <1>2, <1>6 DEF Shape, Heaped
  <2>2. nodes[n].degree <= nodes[k].degree
    BY <2>1, BelowOne
  <2> QED BY <1>2, <1>6, <2>1, <2>2
<1>14. Cardinality(sub[n]) = 2 ^ d0
  <2>1. 2 ^ d0 \in Nat
    BY <1>8, PowerOfTwo
  <2>2. Cardinality(Y(d0) \cup {n}) = Cardinality(Y(d0)) + 1
    <3> HIDE DEF Y, d0
    <3> QED BY <1>10, <1>13, FS_AddElement
  <2>3. sub[n] = Y(d0) \cup {n}
    BY <1>12
  <2> HIDE DEF Y, d0
  <2> QED BY <1>10, <2>1, <2>2, <2>3
<1> QED BY <1>6, <1>14 DEF Good

-----------------------------------------------------------------------------
(* The inductive invariant.  roots[h] and trees[h] are the nodes of h, yet   *)
(* is what consolidate() has still to visit.                                *)

Placed == {a[k] : k \in DOMAIN a}

RootsRing(nodes, min, R) ==
    /\ min = 0 => R = {}
    /\ min # 0 => /\ min \in R /\ Ring(nodes, R)
                  /\ \A m \in R : nodes[m].parent = 0 /\ nodes[min].key <= nodes[m].key

HeapOwns(nodes, kids, roots, trees) ==
    /\ Shape(nodes, kids)
    /\ roots \in [Heap -> SUBSET DOMAIN nodes] /\ trees \in [Heap -> SUBSET DOMAIN nodes]
    /\ \A h \in Heap : Grove(kids, roots[h], trees[h])
    /\ \A g, h \in Heap : g # h => trees[g] \cap trees[h] = {}
    /\ \A n \in DOMAIN nodes : \E h \in Heap : n \in trees[h]

HeapCounts(trees) ==
    /\ heap \in [Heap -> [min_root : Nat, num_nodes : Nat]]
    /\ bag \in [Heap -> [Key -> Nat]]
    /\ \A h \in Heap :
         /\ heap[h].num_nodes = Cardinality(trees[h])
         /\ \A v \in Key : bag[h][v] = Cardinality({n \in trees[h] : node[n].key = v})

Visiting(R, yet) ==
    /\ IsList(node, yet, w) /\ yet \cap Placed = {}
    /\ Threaded(node, R)
    /\ w # 0 => node[w].left \notin yet
    /\ pc = "visit" => w # 0 /\ R = yet \cup Placed
    /\ pc = "link" => R = yet \cup Placed \cup {x} /\ x \notin yet \cup Placed /\ node[x].degree = d

Rebuilding(R) ==
    /\ w = 0 /\ DOMAIN a # {}
    /\ RootsRing(node, heap[this].min_root, R \ Placed)
    /\ \A m \in Placed : node[m].right \in DOMAIN node \cup {0} /\ node[m].left \in DOMAIN node \cup {0}

HeapStage(roots, yet) ==
    /\ pc \in {"rest", "visit", "link", "rebuild"}
    /\ \A h \in Heap : heap[h].min_root \in DOMAIN node \cup {0}
    /\ \A h \in Heap : h # this => RootsRing(node, heap[h].min_root, roots[h])
    /\ pc = "rest" => this = 0 /\ w = 0 /\ DOMAIN a = {}
    /\ pc # "rest" => this \in Heap
    /\ DOMAIN a \subseteq Nat
    /\ \A k \in DOMAIN a : a[k] \in roots[this] /\ node[a[k]].degree = k
    /\ pc \in {"visit", "link"} => Visiting(roots[this], yet)
    /\ pc = "rebuild" => Rebuilding(roots[this])

HeapSound(kids, roots, trees, yet) ==
    /\ HeapOwns(node, kids, roots, trees)
    /\ HeapCounts(trees)
    /\ HeapStage(roots, yet)

HeapInv == \E kids, roots, trees, yet : HeapSound(kids, roots, trees, yet)

LEMMA HeapCardinality == \A S : H!Cardinality(S) = Cardinality(S)
  BY DEF H!Cardinality, Cardinality

\* A node is a root or a child, in both cases in the place that it should.
LEMMA EachHasItsPlace ==
    ASSUME NEW kids, NEW roots, NEW trees, NEW yet, HeapSound(kids, roots, trees, yet),
           NEW n \in DOMAIN node
    PROVE  \/ \E p \in DOMAIN node : n \in kids[p] /\ Ring(node, kids[p])
           \/ \E h \in Heap : n \in roots[h]
<1>1. PICK h \in Heap : n \in trees[h]
  BY DEF HeapSound, HeapOwns
<1>2. CASE n \notin roots[h]
  <2>1. PICK p \in trees[h] : n \in kids[p]
    BY <1>1, <1>2 DEF HeapSound, HeapOwns, Grove
  <2>2. p \in DOMAIN node
    BY DEF HeapSound, HeapOwns
  <2>3. Ring(node, kids[p])
    BY <2>1, <2>2 DEF HeapSound, HeapOwns, Shape, HasKids
  <2> QED BY <2>1, <2>2, <2>3
<1> QED BY <1>2

LEMMA LinksFollow ==
    ASSUME NEW kids, NEW roots, NEW trees, NEW yet, HeapSound(kids, roots, trees, yet)
    PROVE  /\ LinksTyped(node) /\ ChildrenTyped(node) /\ 0 \notin DOMAIN node
           /\ \A n \in DOMAIN node : node[n].left \in DOMAIN node \cup {0}
<1>1. AreNodes(node) /\ DOMAIN node \subseteq 1..MaxNodes /\ 0 \notin DOMAIN node
  BY NodesFinite DEF HeapSound, HeapOwns, Shape, AreNodes
<1>2. ASSUME NEW n \in DOMAIN node
      PROVE  node[n].right \in DOMAIN node \cup {0} /\ node[n].left \in DOMAIN node \cup {0}
  <2>1. CASE \E p \in DOMAIN node : n \in kids[p] /\ Ring(node, kids[p])
    BY <2>1 DEF Ring
  <2>2. ASSUME NEW h \in Heap, n \in roots[h]
        PROVE  node[n].right \in DOMAIN node \cup {0} /\ node[n].left \in DOMAIN node \cup {0}
    <3>0. roots[h] \subseteq DOMAIN node
      BY DEF HeapSound, HeapOwns
    <3>1. CASE h # this
      BY <2>2, <3>1 DEF HeapSound, HeapStage, RootsRing, Ring
    <3>2. CASE h = this /\ pc \in {"visit", "link"}
      BY <2>2, <3>0, <3>2 DEF HeapSound, HeapStage, Visiting, Threaded
    <3>3. CASE h = this /\ pc = "rebuild"
      <4>1. CASE n \in Placed
        BY <3>3, <4>1 DEF HeapSound, HeapStage, Rebuilding
      <4>2. CASE n \notin Placed
        BY <2>2, <3>3, <4>2 DEF HeapSound, HeapStage, Rebuilding, RootsRing, Ring
      <4> QED BY <4>1, <4>2
    <3>4. h = this => pc # "rest"
      BY HeapAssumption DEF HeapSound, HeapStage, H!null
    <3> QED BY <3>1, <3>2, <3>3, <3>4 DEF HeapSound, HeapStage
  <2> QED BY <2>1, <2>2, EachHasItsPlace
<1>3. ChildrenTyped(node)
  BY DEF HeapSound, HeapOwns, Shape, HasKids, ChildrenTyped
<1> QED BY <1>1, <1>2, <1>3 DEF LinksTyped

LEMMA KidsFollow ==
    ASSUME NEW kids, NEW roots, NEW trees, NEW yet, HeapSound(kids, roots, trees, yet)
    PROVE  /\ Kids = kids
           /\ \A n \in DOMAIN node : node[n].child # 0 => H!List(node[n].child) = kids[n]
           /\ \A R \in SUBSET DOMAIN node : \A V : AreTrees(kids, V, R) => H!Trees(R) = V
           /\ \A R \in SUBSET DOMAIN node : AreTrees(kids, H!Trees(R), R)
           /\ \A h \in Heap : H!Trees(roots[h]) = trees[h]
<1>1. ASSUME NEW n \in DOMAIN node PROVE H!List(node[n].child) = kids[n]
  <2>1. IsList(node, H!List(node[n].child), node[n].child)
    BY LinksFollow, ListIs DEF ChildrenTyped
  <2>2. CASE node[n].child = 0
    BY <2>1, <2>2 DEF IsList, HeapSound, HeapOwns, Shape, HasKids
  <2>3. CASE node[n].child # 0
    <3>1. node[n].child \in kids[n] /\ Ring(node, kids[n])
      BY <2>3 DEF HeapSound, HeapOwns, Shape, HasKids
    <3>2. IsList(node, kids[n], node[n].child)
      BY <3>1, LinksFollow, RingIsList
    <3> QED BY <2>1, <3>2, ListUnique
  <2> QED BY <2>2, <2>3
<1>2. Kids = kids
  <2>1. kids = [n \in DOMAIN node |-> kids[n]]
    BY DEF HeapSound, HeapOwns, Shape
  <2> QED BY <1>1, <2>1 DEF Kids
<1>3. \A R \in SUBSET DOMAIN node : AreTrees(kids, H!Trees(R), R)
  BY <1>2, LinksFollow, TreesAre
<1>4. ASSUME NEW R \in SUBSET DOMAIN node, NEW V, AreTrees(kids, V, R) PROVE H!Trees(R) = V
  <2>1. AreTrees(kids, H!Trees(R), R)
    BY <1>3
  <2> QED BY <1>4, <2>1 DEF AreTrees
<1>5. ASSUME NEW h \in Heap PROVE H!Trees(roots[h]) = trees[h]
  <2>1. Shape(node, kids) /\ Grove(kids, roots[h], trees[h]) /\ roots[h] \in SUBSET DOMAIN node
    BY DEF HeapSound, HeapOwns
  <2>2. AreTrees(kids, trees[h], roots[h])
    BY <2>1, GroveIsTrees
  <2> QED BY <1>4, <2>1, <2>2
<1> QED BY <1>1, <1>2, <1>3, <1>4, <1>5

LEMMA RootsFollow ==
    ASSUME NEW kids, NEW roots, NEW trees, NEW yet, HeapSound(kids, roots, trees, yet),
           NEW h \in Heap
    PROVE  H!Roots(h) = roots[h]
<1>0. H!Placed = Placed
  BY DEF H!Placed, Placed
<1>1. ASSUME NEW n, n \in DOMAIN node \cup {0} PROVE IsList(node, H!List(n), n)
  BY <1>1, LinksFollow, ListIs
<1>2. ASSUME NEW R, NEW n, RootsRing(node, n, R) PROVE H!List(n) = R
  <2>1. CASE n = 0
    <3>1. IsList(node, H!List(n), n)
      BY <1>1, <2>1
    <3> QED BY <1>2, <2>1, <3>1 DEF RootsRing, IsList
  <2>2. CASE n # 0
    <3>1. n \in R /\ Ring(node, R)
      BY <1>2, <2>2 DEF RootsRing
    <3>2. IsList(node, R, n)
      BY <3>1, LinksFollow, RingIsList
    <3>3. n \in DOMAIN node
      BY <3>1 DEF Ring
    <3>4. IsList(node, H!List(n), n)
      BY <1>1, <3>3
    <3> QED BY <3>2, <3>4, ListUnique
  <2> QED BY <2>1, <2>2
<1>3. CASE h # this
  <2>1. RootsRing(node, heap[h].min_root, roots[h])
    BY <1>3 DEF HeapSound, HeapStage
  <2>2. H!List(heap[h].min_root) = roots[h]
    BY <1>2, <2>1
  <2> QED BY <1>3, <2>2 DEF H!Roots
<1>4. CASE h = this
  <2>1. pc \in {"visit", "link", "rebuild"}
    BY <1>4, HeapAssumption DEF HeapSound, HeapStage, H!null
  <2>2. pc \in {"visit", "link"} => H!List(w) = yet
    <3> SUFFICES ASSUME pc \in {"visit", "link"} PROVE H!List(w) = yet
      OBVIOUS
    <3>1. IsList(node, yet, w)
      BY DEF HeapSound, HeapStage, Visiting
    <3>2. w \in DOMAIN node \cup {0}
      BY <3>1 DEF IsList
    <3>3. IsList(node, H!List(w), w)
      BY <1>1, <3>2
    <3> QED BY <3>1, <3>3, ListUnique
  <2>3. CASE pc = "visit"
    <3>1. H!Roots(h) = H!List(w) \cup H!Placed
      BY Zenon, <1>4, <2>3 DEF H!Roots
    <3>2. roots[h] = yet \cup Placed
      BY <1>4, <2>3 DEF HeapSound, HeapStage, Visiting
    <3> QED BY <1>0, <2>2, <2>3, <3>1, <3>2
  <2>4. CASE pc = "link"
    <3>1. H!Roots(h) = H!List(w) \cup H!Placed \cup {x}
      BY Zenon, <1>4, <2>4 DEF H!Roots
    <3>2. roots[h] = yet \cup Placed \cup {x}
      BY <1>4, <2>4 DEF HeapSound, HeapStage, Visiting
    <3> QED BY <1>0, <2>2, <2>4, <3>1, <3>2
  <2>5. CASE pc = "rebuild"
    <3>1. H!Roots(h) = H!List(heap[h].min_root) \cup H!Placed
      BY Zenon, <1>4, <2>5 DEF H!Roots
    <3>2. RootsRing(node, heap[h].min_root, roots[h] \ Placed) /\ Placed \subseteq roots[h]
      BY <1>4, <2>5 DEF HeapSound, HeapStage, Rebuilding, Placed
    <3>3. H!List(heap[h].min_root) = roots[h] \ Placed
      BY <1>2, <3>2
    <3> QED BY <1>0, <3>1, <3>2, <3>3
  <2> QED BY <2>1, <2>3, <2>4, <2>5
<1> QED BY <1>3, <1>4

LEMMA HeapTyped == HeapInv => H!TypeOK
<1> SUFFICES ASSUME HeapInv PROVE H!TypeOK
  OBVIOUS
<1>1. PICK kids, roots, trees, yet : HeapSound(kids, roots, trees, yet)
  BY DEF HeapInv
<1>2. DOMAIN node \subseteq 1..MaxNodes /\ node \in [DOMAIN node -> Node]
  BY <1>1 DEF HeapSound, HeapOwns, Shape, AreNodes
<1>3. \A n \in DOMAIN node :
         /\ {node[n].left, node[n].right, node[n].child} \subseteq DOMAIN node \cup {0}
         /\ node[n].degree \in Nat /\ node[n].key \in Key
  BY <1>1, <1>2, LinksFollow DEF LinksTyped, ChildrenTyped, Node
<1>4. \A h \in Heap : heap[h].min_root \in DOMAIN node \cup {0} /\ heap[h].num_nodes \in Nat
  BY <1>1 DEF HeapSound, HeapStage, HeapCounts
<1>5. pc \in {"rest", "visit", "link", "rebuild"} /\ this \in Heap \cup {0}
  BY <1>1 DEF HeapSound, HeapStage
<1>6. bag \in [Heap -> [Key -> Nat]]
  BY <1>1 DEF HeapSound, HeapCounts
<1> QED BY <1>2, <1>3, <1>4, <1>5, <1>6 DEF H!TypeOK, H!null

LEMMA HoldsBagFollows == HeapInv => H!HoldsBag
<1> SUFFICES ASSUME HeapInv PROVE H!HoldsBag
  OBVIOUS
<1>1. PICK kids, roots, trees, yet : HeapSound(kids, roots, trees, yet)
  BY DEF HeapInv
<1> DEFINE all == [h \in Heap |-> H!Trees(H!Roots(h))]
<1>2. \A h \in Heap : all[h] = trees[h]
  BY <1>1, KidsFollow, RootsFollow
<1> HIDE DEF all
<1>3. ASSUME NEW h \in Heap
      PROVE  /\ heap[h].num_nodes = H!Cardinality(all[h])
             /\ \A v \in Key : bag[h][v] = H!Cardinality({n \in all[h] : node[n].key = v})
             /\ \A g \in Heap : g # h => all[g] \cap all[h] = {}
  <2>1. /\ heap[h].num_nodes = Cardinality(trees[h])
        /\ \A v \in Key : bag[h][v] = Cardinality({n \in trees[h] : node[n].key = v})
    BY <1>1 DEF HeapSound, HeapCounts
  <2>2. \A g \in Heap : g # h => trees[g] \cap trees[h] = {}
    BY <1>1 DEF HeapSound, HeapOwns
  <2>3. heap[h].num_nodes = H!Cardinality(all[h])
    BY <1>2, <2>1, HeapCardinality
  <2>4. ASSUME NEW v \in Key PROVE bag[h][v] = H!Cardinality({n \in all[h] : node[n].key = v})
    <3>1. {n \in all[h] : node[n].key = v} = {n \in trees[h] : node[n].key = v}
      BY <1>2
    <3> QED BY <2>1, <3>1, HeapCardinality
  <2> QED BY <1>2, <2>2, <2>3, <2>4
<1>4. /\ H!List(w) \cap H!Placed = {}
      /\ pc = "link" => x \notin H!List(w) \cup H!Placed
  <2>0. H!Placed = Placed
    BY DEF H!Placed, Placed
  <2>1. CASE pc \in {"visit", "link"}
    <3>1. Visiting(roots[this], yet)
      BY <1>1, <2>1 DEF HeapSound, HeapStage
    <3>2. IsList(node, yet, w) /\ w \in DOMAIN node \cup {0}
      BY <3>1 DEF Visiting, IsList
    <3>3. IsList(node, H!List(w), w)
      BY <1>1, <3>2, LinksFollow, ListIs
    <3>4. H!List(w) = yet
      BY <3>2, <3>3, ListUnique
    <3> QED BY <2>0, <3>1, <3>4 DEF Visiting
  <2>2. CASE pc \notin {"visit", "link"}
    <3>1. w = 0
      BY <1>1, <2>2 DEF HeapSound, HeapStage, Rebuilding
    <3>2. IsList(node, H!List(w), w)
      BY <1>1, <3>1, LinksFollow, ListIs
    <3>3. H!List(w) = {}
      BY <3>1, <3>2 DEF IsList
    <3> QED BY <2>2, <3>3
  <2> QED BY <2>1, <2>2
<1> QED BY <1>3, <1>4 DEF H!HoldsBag, all

LEMMA BinomialFollows == HeapInv => H!Binomial
<1> SUFFICES ASSUME HeapInv, pc = "rest", NEW n \in DOMAIN node
             PROVE  LET r == node[n] IN
                    /\ node[r.right].left = n /\ node[r.left].right = n
                    /\ H!Cardinality(H!Trees({n})) = 2 ^ r.degree
                    /\ r.child # H!null =>
                         /\ H!Cardinality(H!List(r.child)) = r.degree
                         /\ \A c \in H!List(r.child) : node[c].parent = n /\ r.key <= node[c].key
                    /\ \A h \in Heap : n \in H!List(heap[h].min_root) => r.parent = H!null
  BY DEF H!Binomial
<1>1. PICK kids, roots, trees, yet : HeapSound(kids, roots, trees, yet)
  BY DEF HeapInv
<1>2. Shape(node, kids)
  BY <1>1 DEF HeapSound, HeapOwns
<1>3. \A h \in Heap : h # this
  BY <1>1, HeapAssumption DEF HeapSound, HeapStage, H!null
<1>4. node[node[n].right].left = n /\ node[node[n].left].right = n
  <2>1. CASE \E p \in DOMAIN node : n \in kids[p] /\ Ring(node, kids[p])
    BY <2>1 DEF Ring
  <2>2. ASSUME NEW h \in Heap, n \in roots[h]
        PROVE  node[node[n].right].left = n /\ node[node[n].left].right = n
    BY <1>1, <1>3, <2>2 DEF HeapSound, HeapStage, RootsRing, Ring
  <2> QED BY <1>1, <2>1, <2>2, EachHasItsPlace
<1>5. Cardinality(H!Trees({n})) = 2 ^ node[n].degree
  <2> DEFINE sub == [m \in DOMAIN node |-> H!Trees({m})]
  <2>1. \A m \in DOMAIN node : AreTrees(kids, sub[m], {m})
    BY <1>1, KidsFollow
  <2>2. sub[n] = H!Trees({n})
    OBVIOUS
  <2> HIDE DEF sub
  <2> QED BY <1>2, <2>1, <2>2, TreeCounts
<1>6. ASSUME node[n].child # 0
      PROVE  /\ Cardinality(H!List(node[n].child)) = node[n].degree
             /\ \A c \in H!List(node[n].child) : node[c].parent = n /\ node[n].key <= node[c].key
  <2>1. H!List(node[n].child) = kids[n]
    BY <1>1, <1>6, KidsFollow
  <2> QED BY <1>2, <2>1, ChildrenCount DEF Shape, Heaped
<1>7. ASSUME NEW h \in Heap, n \in H!List(heap[h].min_root) PROVE node[n].parent = 0
  <2>1. H!List(heap[h].min_root) = roots[h]
    BY <1>1, <1>3, RootsFollow DEF H!Roots
  <2> QED BY <1>1, <1>3, <1>7, <2>1 DEF HeapSound, HeapStage, RootsRing
<1> QED BY <1>4, <1>5, <1>6, <1>7, HeapCardinality DEF H!null

LEMMA FrontFollows ==
    ASSUME NEW kids, NEW roots, NEW trees, NEW yet, HeapSound(kids, roots, trees, yet),
           pc = "rest", NEW h \in Heap, heap[h].min_root # 0
    PROVE  \A n \in trees[h] : node[heap[h].min_root].key <= node[n].key
<1>1. /\ Shape(node, kids) /\ Grove(kids, roots[h], trees[h])
      /\ RootsRing(node, heap[h].min_root, roots[h])
  BY HeapAssumption DEF HeapSound, HeapOwns, HeapStage, H!null
<1>2. /\ heap[h].min_root \in roots[h]
      /\ \A m \in roots[h] : node[heap[h].min_root].key <= node[m].key
  BY <1>1 DEF RootsRing
<1> QED BY <1>1, <1>2, LeastOfGrove

LEMMA InBag ==
    ASSUME NEW kids, NEW roots, NEW trees, NEW yet, HeapSound(kids, roots, trees, yet),
           NEW h \in Heap, NEW v \in Key
    PROVE  bag[h][v] > 0 <=> \E n \in trees[h] : node[n].key = v
<1> DEFINE S == {n \in trees[h] : node[n].key = v}
<1>1. S \in SUBSET DOMAIN node /\ bag[h][v] = Cardinality(S) /\ AreNodes(node)
  BY DEF HeapSound, HeapOwns, HeapCounts, Shape
<1>2. IsFiniteSet(S)
  <2> HIDE DEF S
  <2> QED BY <1>1, NodesFinite, FS_Subset
<1>3. Cardinality(S) \in Nat /\ (Cardinality(S) = 0 <=> S = {})
  BY <1>2, FS_CardinalityType, FS_EmptySet
<1> QED BY <1>1, <1>3

LEMMA FrontIsMinimumFollows == HeapInv => H!FrontIsMinimum
<1> SUFFICES ASSUME HeapInv, pc = "rest", NEW h \in Heap, heap[h].min_root # 0,
                    NEW v \in Key, bag[h][v] > 0
             PROVE  node[heap[h].min_root].key <= v
  BY DEF H!FrontIsMinimum, H!null
<1>1. PICK kids, roots, trees, yet : HeapSound(kids, roots, trees, yet)
  BY DEF HeapInv
<1>2. PICK n \in trees[h] : node[n].key = v
  BY <1>1, InBag
<1> QED BY <1>1, <1>2, FrontFollows

-----------------------------------------------------------------------------
(* What each change of the lists does.                                      *)

\* nodes2 is nodes but for the links of some nodes, and the parents of some.
SameTrees(nodes, nodes2) ==
    /\ DOMAIN nodes2 = DOMAIN nodes
    /\ \A m \in DOMAIN nodes : /\ nodes2[m].child = nodes[m].child
                               /\ nodes2[m].degree = nodes[m].degree
                               /\ nodes2[m].key = nodes[m].key

IsInserted(nodes, nodes2, n, min, R) ==
    /\ AreNodes(nodes2) /\ SameTrees(nodes, nodes2)
    /\ \A m \in DOMAIN nodes : m # n => nodes2[m].parent = nodes[m].parent
    /\ \A m \in DOMAIN nodes : m \notin R \cup {n} =>
          nodes2[m].right = nodes[m].right /\ nodes2[m].left = nodes[m].left
    /\ RootsRing(nodes2, H!NewMin(nodes, n, min), R \cup {n})

LEMMA InsertedIs ==
    ASSUME NEW nodes, AreNodes(nodes), NEW n \in DOMAIN nodes, NEW min, NEW R,
           RootsRing(nodes, min, R), n \notin R,
           NEW nodes2, nodes2 = H!Inserted(nodes, n, min)
    PROVE  IsInserted(nodes, nodes2, n, min, R)
<1>0. /\ nodes \in [DOMAIN nodes -> Node] /\ 0 \notin DOMAIN nodes /\ DOMAIN nodes \subseteq Nat
      /\ \A m \in DOMAIN nodes : nodes[m].key \in Int
  <2>1. \A m \in DOMAIN nodes : nodes[m].key \in Int
    BY HeapAssumption DEF AreNodes, Node
  <2> QED BY <2>1, NodesFinite DEF AreNodes
<1>1. CASE min = 0
  <2>1. nodes2 = [nodes EXCEPT ![n].left = n, ![n].right = n, ![n].parent = 0]
    BY <1>1 DEF H!Inserted, H!null
  <2>2. /\ DOMAIN nodes2 = DOMAIN nodes /\ nodes2 \in [DOMAIN nodes -> Node]
        /\ nodes2[n].left = n /\ nodes2[n].right = n /\ nodes2[n].parent = 0
        /\ \A m \in DOMAIN nodes : m # n => nodes2[m] = nodes[m]
    <3>1. DOMAIN nodes2 = DOMAIN nodes /\ \A m \in DOMAIN nodes : m # n => nodes2[m] = nodes[m]
      BY <1>0, <2>1
    <3>2. nodes2[n] = [nodes[n] EXCEPT !.left = n, !.right = n, !.parent = 0]
      BY <1>0, <2>1
    <3>3. nodes2[n] \in Node /\ nodes2[n].left = n /\ nodes2[n].right = n /\ nodes2[n].parent = 0
      <4>1. PICK r, q : r = nodes[n] /\ q = nodes2[n]
        OBVIOUS
      <4>2. r \in Node /\ n \in Nat
        BY <1>0, <4>1
      <4>3. q = [r EXCEPT !.left = n, !.right = n, !.parent = 0]
        BY <3>2, <4>1
      <4>4. q \in Node /\ q.left = n /\ q.right = n /\ q.parent = 0
        BY <4>2, <4>3 DEF Node
      <4> QED BY <4>1, <4>4
    <3>4. nodes2 \in [DOMAIN nodes -> Node]
      <4>1. \A m \in DOMAIN nodes : nodes2[m] \in Node
        BY <1>0, <3>1, <3>3
      <4>2. nodes2 = [m \in DOMAIN nodes |-> nodes2[m]]
        BY <1>0, <2>1, <3>1
      <4> QED BY <4>1, <4>2
    <3> QED BY <3>1, <3>3, <3>4
  <2>3. SameTrees(nodes, nodes2)
    BY <1>0, <2>1 DEF Node, SameTrees
  <2>4. Ring(nodes2, {n})
    <3>1. \A C \in SUBSET {n} : C # {} => C = {n}
      OBVIOUS
    <3> QED BY <2>2, <3>1 DEF Ring
  <2>5. RootsRing(nodes2, n, {n})
    <3>1. nodes2[n].key \in Int
      BY <1>0, <2>3 DEF SameTrees
    <3> QED BY <1>0, <2>2, <2>4, <3>1 DEF RootsRing
  <2>6. R = {} /\ H!NewMin(nodes, n, min) = n
    BY <1>1 DEF RootsRing, H!NewMin, H!null
  <2>7. AreNodes(nodes2)
    BY <2>2 DEF AreNodes
  <2> QED BY <2>2, <2>3, <2>5, <2>6, <2>7 DEF IsInserted
<1>2. CASE min # 0
  <2> DEFINE next == nodes[min].right
             alone == [nodes EXCEPT ![n].left = n, ![n].right = n]
  <2>0. /\ min \in R /\ Ring(nodes, R) /\ R \subseteq DOMAIN nodes /\ next \in R /\ min # n /\ next # n
        /\ \A m \in R : nodes[m].parent = 0 /\ nodes[min].key <= nodes[m].key
    BY <1>2 DEF RootsRing, Ring
  <2>1. nodes2 = [nodes EXCEPT ![n].right = next, ![n].left = min, ![n].parent = 0,
                               ![next].left = n, ![min].right = n]
    BY <1>2 DEF H!Inserted, H!null
  <2> HIDE DEF next
  <2>2. /\ DOMAIN nodes2 = DOMAIN nodes /\ nodes2 \in [DOMAIN nodes -> Node]
        /\ nodes2[n].parent = 0
        /\ \A m \in DOMAIN nodes : m # n => nodes2[m].parent = nodes[m].parent
        /\ \A m \in DOMAIN nodes :
              /\ nodes2[m].right = IF m = min THEN n ELSE IF m = n THEN next ELSE nodes[m].right
              /\ nodes2[m].left = IF m = n THEN min ELSE IF m = next THEN n ELSE nodes[m].left
    <3> DEFINE here == [nodes EXCEPT ![n].right = next, ![n].left = min, ![n].parent = 0]
    <3>1. nodes2 = [here EXCEPT ![next].left = n, ![min].right = n]
      BY <2>1
    <3>2. /\ here \in [DOMAIN nodes -> Node]
          /\ here[n].right = next /\ here[n].left = min /\ here[n].parent = 0
          /\ \A m \in DOMAIN nodes : m # n => here[m] = nodes[m]
      BY <1>0, <2>0 DEF Node
    <3> HIDE DEF here
    <3>3. nodes2 \in [DOMAIN nodes -> Node]
      BY <1>0, <2>0, <3>1, <3>2 DEF Node
    <3>4. \A m \in DOMAIN nodes :
             /\ nodes2[m].right = IF m = min THEN n ELSE here[m].right
             /\ nodes2[m].left = IF m = next THEN n ELSE here[m].left
             /\ nodes2[m].parent = here[m].parent
      BY <1>0, <2>0, <3>1, <3>2 DEF Node
    <3> QED BY <2>0, <3>2, <3>3, <3>4
  <2>3. SameTrees(nodes, nodes2)
    BY <1>0, <2>0, <2>1 DEF Node, SameTrees
  <2>4. /\ DOMAIN alone = DOMAIN nodes
        /\ alone[n].left = n /\ alone[n].right = n
        /\ \A m \in DOMAIN nodes : m # n => alone[m] = nodes[m]
    BY <1>0 DEF Node
  <2> HIDE DEF alone
  <2>5. Ring(alone, R) /\ Ring(alone, {n})
    <3>1. SameLinks(nodes, alone, R)
      BY <2>0, <2>4 DEF SameLinks
    <3>2. \A C \in SUBSET {n} : C # {} => C = {n}
      OBVIOUS
    <3>3. Ring(alone, {n})
      BY <2>4, <3>2 DEF Ring
    <3> QED BY <2>0, <2>4, <3>1, <3>3, RingFrame
  <2>6. Ring(nodes2, R \cup {n})
    <3>1. \A m \in R \cup {n} :
              /\ nodes2[m].right = IF m = min THEN alone[n].right
                                   ELSE IF m = n THEN alone[min].right ELSE alone[m].right
              /\ nodes2[m].left = IF m = alone[n].right THEN min
                                  ELSE IF m = alone[min].right THEN n ELSE alone[m].left
      <4>1. alone[min].right = next
        BY <2>0, <2>4 DEF next
      <4> QED BY <2>0, <2>2, <2>4, <4>1
    <3>2. R \cap {n} = {} /\ 0 \notin DOMAIN alone /\ DOMAIN nodes2 = DOMAIN alone
          /\ n \in {n}
      BY <1>0, <2>2, <2>4
    <3> QED BY <2>0, <2>5, <3>1, <3>2, RingsJoin
  <2>7. RootsRing(nodes2, H!NewMin(nodes, n, min), R \cup {n})
    <3>1. H!NewMin(nodes, n, min) = IF nodes[n].key < nodes[min].key THEN n ELSE min
      BY <1>2 DEF H!NewMin, H!null
    <3>2. \A m \in R \cup {n} : /\ nodes2[m].parent = 0 /\ nodes2[m].key = nodes[m].key
                                /\ nodes[m].key \in Int
      BY <1>0, <2>0, <2>2, <2>3 DEF SameTrees
    <3>3. CASE nodes[n].key < nodes[min].key
      <4>1. \A m \in R \cup {n} : nodes[n].key <= nodes[m].key
        BY <2>0, <3>2, <3>3
      <4> QED BY <1>0, <2>6, <3>1, <3>2, <3>3, <4>1 DEF RootsRing
    <3>4. CASE ~ (nodes[n].key < nodes[min].key)
      <4>1. \A m \in R \cup {n} : nodes[min].key <= nodes[m].key
        BY <2>0, <3>2, <3>4
      <4> QED BY <1>2, <2>0, <2>6, <3>1, <3>2, <3>4, <4>1 DEF RootsRing
    <3> QED BY <3>3, <3>4
  <2>8. AreNodes(nodes2)
    BY <2>2 DEF AreNodes
  <2> QED BY <2>0, <2>2, <2>3, <2>7, <2>8 DEF next, IsInserted
<1> QED BY <1>1, <1>2

\* The trees stay as they are when only roots are linked anew.
LEMMA ShapeKept ==
    ASSUME NEW nodes, NEW kids, Shape(nodes, kids), NEW nodes2, AreNodes(nodes2),
           SameTrees(nodes, nodes2),
           \A p \in DOMAIN nodes : \A k \in kids[p] :
              /\ nodes2[k].right = nodes[k].right /\ nodes2[k].left = nodes[k].left
              /\ nodes2[k].parent = nodes[k].parent
    PROVE  Shape(nodes2, kids)
<1>1. ASSUME NEW n \in DOMAIN nodes PROVE HasKids(nodes2, kids, n)
  <2>1. Ring(nodes, kids[n]) => Ring(nodes2, kids[n])
    <3>1. SameLinks(nodes, nodes2, kids[n]) /\ kids[n] \subseteq DOMAIN nodes2
      BY DEF SameLinks, SameTrees, Shape
    <3> QED BY <3>1, RingFrame
  <2> QED BY <2>1 DEF Shape, HasKids, SameTrees
<1>2. ASSUME NEW n \in DOMAIN nodes PROVE Heaped(nodes2, kids, n)
  <2>1. kids[n] \subseteq DOMAIN nodes
    BY DEF Shape
  <2> QED BY <2>1 DEF Shape, Heaped, SameTrees
<1> QED BY <1>1, <1>2 DEF Shape, SameTrees

LEMMA RootsRingFrame ==
    ASSUME NEW nodes, NEW nodes2, NEW min, NEW R, RootsRing(nodes, min, R), R \subseteq DOMAIN nodes2,
           \A m \in R : /\ nodes2[m].right = nodes[m].right /\ nodes2[m].left = nodes[m].left
                        /\ nodes2[m].parent = nodes[m].parent /\ nodes2[m].key = nodes[m].key
    PROVE  RootsRing(nodes2, min, R)
<1>1. CASE min = 0
  BY <1>1 DEF RootsRing
<1>2. CASE min # 0
  <2>1. Ring(nodes, R)
    BY <1>2 DEF RootsRing
  <2>2. SameLinks(nodes, nodes2, R)
    BY DEF SameLinks
  <2>3. Ring(nodes2, R)
    BY <2>1, <2>2, RingFrame
  <2> QED BY <1>2, <2>3 DEF RootsRing
<1> QED BY <1>1, <1>2

\* What an assignment to one field of one node does.
SetsLeft(nodes, nodes2, e, u) ==
    /\ AreNodes(nodes2) /\ DOMAIN nodes2 = DOMAIN nodes
    /\ \A m \in DOMAIN nodes :
         /\ nodes2[m].left = IF m = e THEN u ELSE nodes[m].left
         /\ nodes2[m].right = nodes[m].right /\ nodes2[m].parent = nodes[m].parent
         /\ nodes2[m].child = nodes[m].child /\ nodes2[m].degree = nodes[m].degree
         /\ nodes2[m].key = nodes[m].key

LEMMA LeftSet ==
    ASSUME NEW nodes, AreNodes(nodes), NEW e \in DOMAIN nodes, NEW u \in Nat,
           NEW nodes2, nodes2 = [nodes EXCEPT ![e].left = u]
    PROVE  SetsLeft(nodes, nodes2, e, u)
<1>1. PICK r, q : r = nodes[e] /\ q = [r EXCEPT !.left = u]
  OBVIOUS
<1>2. r \in Node
  BY <1>1 DEF AreNodes
<1>3. /\ q \in Node /\ q.left = u
      /\ q.right = r.right
      /\ q.parent = r.parent
      /\ q.child = r.child
      /\ q.degree = r.degree
      /\ q.key = r.key
  BY <1>1, <1>2 DEF Node
<1>4. /\ DOMAIN nodes2 = DOMAIN nodes /\ nodes2[e] = q
      /\ \A m \in DOMAIN nodes : m # e => nodes2[m] = nodes[m]
  BY <1>1
<1>5. \A m \in DOMAIN nodes : nodes2[m] \in Node
  BY <1>3, <1>4 DEF AreNodes
<1>6. nodes2 = [m \in DOMAIN nodes |-> nodes2[m]]
  BY <1>4
<1>7. AreNodes(nodes2)
  BY <1>4, <1>5, <1>6 DEF AreNodes
<1> QED BY <1>1, <1>3, <1>4, <1>7 DEF SetsLeft

SetsRight(nodes, nodes2, e, u) ==
    /\ AreNodes(nodes2) /\ DOMAIN nodes2 = DOMAIN nodes
    /\ \A m \in DOMAIN nodes :
         /\ nodes2[m].right = IF m = e THEN u ELSE nodes[m].right
         /\ nodes2[m].left = nodes[m].left /\ nodes2[m].parent = nodes[m].parent
         /\ nodes2[m].child = nodes[m].child /\ nodes2[m].degree = nodes[m].degree
         /\ nodes2[m].key = nodes[m].key

LEMMA RightSet ==
    ASSUME NEW nodes, AreNodes(nodes), NEW e \in DOMAIN nodes, NEW u \in Nat,
           NEW nodes2, nodes2 = [nodes EXCEPT ![e].right = u]
    PROVE  SetsRight(nodes, nodes2, e, u)
<1>1. PICK r, q : r = nodes[e] /\ q = [r EXCEPT !.right = u]
  OBVIOUS
<1>2. r \in Node
  BY <1>1 DEF AreNodes
<1>3. /\ q \in Node /\ q.right = u
      /\ q.left = r.left
      /\ q.parent = r.parent
      /\ q.child = r.child
      /\ q.degree = r.degree
      /\ q.key = r.key
  BY <1>1, <1>2 DEF Node
<1>4. /\ DOMAIN nodes2 = DOMAIN nodes /\ nodes2[e] = q
      /\ \A m \in DOMAIN nodes : m # e => nodes2[m] = nodes[m]
  BY <1>1
<1>5. \A m \in DOMAIN nodes : nodes2[m] \in Node
  BY <1>3, <1>4 DEF AreNodes
<1>6. nodes2 = [m \in DOMAIN nodes |-> nodes2[m]]
  BY <1>4
<1>7. AreNodes(nodes2)
  BY <1>4, <1>5, <1>6 DEF AreNodes
<1> QED BY <1>1, <1>3, <1>4, <1>7 DEF SetsRight

SetsParent(nodes, nodes2, e, u) ==
    /\ AreNodes(nodes2) /\ DOMAIN nodes2 = DOMAIN nodes
    /\ \A m \in DOMAIN nodes :
         /\ nodes2[m].parent = IF m = e THEN u ELSE nodes[m].parent
         /\ nodes2[m].left = nodes[m].left /\ nodes2[m].right = nodes[m].right
         /\ nodes2[m].child = nodes[m].child /\ nodes2[m].degree = nodes[m].degree
         /\ nodes2[m].key = nodes[m].key

LEMMA ParentSet ==
    ASSUME NEW nodes, AreNodes(nodes), NEW e \in DOMAIN nodes, NEW u \in Nat,
           NEW nodes2, nodes2 = [nodes EXCEPT ![e].parent = u]
    PROVE  SetsParent(nodes, nodes2, e, u)
<1>1. PICK r, q : r = nodes[e] /\ q = [r EXCEPT !.parent = u]
  OBVIOUS
<1>2. r \in Node
  BY <1>1 DEF AreNodes
<1>3. /\ q \in Node /\ q.parent = u
      /\ q.left = r.left
      /\ q.right = r.right
      /\ q.child = r.child
      /\ q.degree = r.degree
      /\ q.key = r.key
  BY <1>1, <1>2 DEF Node
<1>4. /\ DOMAIN nodes2 = DOMAIN nodes /\ nodes2[e] = q
      /\ \A m \in DOMAIN nodes : m # e => nodes2[m] = nodes[m]
  BY <1>1
<1>5. \A m \in DOMAIN nodes : nodes2[m] \in Node
  BY <1>3, <1>4 DEF AreNodes
<1>6. nodes2 = [m \in DOMAIN nodes |-> nodes2[m]]
  BY <1>4
<1>7. AreNodes(nodes2)
  BY <1>4, <1>5, <1>6 DEF AreNodes
<1> QED BY <1>1, <1>3, <1>4, <1>7 DEF SetsParent

SetsChild(nodes, nodes2, e, u) ==
    /\ AreNodes(nodes2) /\ DOMAIN nodes2 = DOMAIN nodes
    /\ \A m \in DOMAIN nodes :
         /\ nodes2[m].child = IF m = e THEN u ELSE nodes[m].child
         /\ nodes2[m].left = nodes[m].left /\ nodes2[m].right = nodes[m].right
         /\ nodes2[m].parent = nodes[m].parent /\ nodes2[m].degree = nodes[m].degree
         /\ nodes2[m].key = nodes[m].key

LEMMA ChildSet ==
    ASSUME NEW nodes, AreNodes(nodes), NEW e \in DOMAIN nodes, NEW u \in Nat,
           NEW nodes2, nodes2 = [nodes EXCEPT ![e].child = u]
    PROVE  SetsChild(nodes, nodes2, e, u)
<1>1. PICK r, q : r = nodes[e] /\ q = [r EXCEPT !.child = u]
  OBVIOUS
<1>2. r \in Node
  BY <1>1 DEF AreNodes
<1>3. /\ q \in Node /\ q.child = u
      /\ q.left = r.left
      /\ q.right = r.right
      /\ q.parent = r.parent
      /\ q.degree = r.degree
      /\ q.key = r.key
  BY <1>1, <1>2 DEF Node
<1>4. /\ DOMAIN nodes2 = DOMAIN nodes /\ nodes2[e] = q
      /\ \A m \in DOMAIN nodes : m # e => nodes2[m] = nodes[m]
  BY <1>1
<1>5. \A m \in DOMAIN nodes : nodes2[m] \in Node
  BY <1>3, <1>4 DEF AreNodes
<1>6. nodes2 = [m \in DOMAIN nodes |-> nodes2[m]]
  BY <1>4
<1>7. AreNodes(nodes2)
  BY <1>4, <1>5, <1>6 DEF AreNodes
<1> QED BY <1>1, <1>3, <1>4, <1>7 DEF SetsChild

SetsDegree(nodes, nodes2, e, u) ==
    /\ AreNodes(nodes2) /\ DOMAIN nodes2 = DOMAIN nodes
    /\ \A m \in DOMAIN nodes :
         /\ nodes2[m].degree = IF m = e THEN u ELSE nodes[m].degree
         /\ nodes2[m].left = nodes[m].left /\ nodes2[m].right = nodes[m].right
         /\ nodes2[m].parent = nodes[m].parent /\ nodes2[m].child = nodes[m].child
         /\ nodes2[m].key = nodes[m].key

LEMMA DegreeSet ==
    ASSUME NEW nodes, AreNodes(nodes), NEW e \in DOMAIN nodes, NEW u \in Nat,
           NEW nodes2, nodes2 = [nodes EXCEPT ![e].degree = u]
    PROVE  SetsDegree(nodes, nodes2, e, u)
<1>1. PICK r, q : r = nodes[e] /\ q = [r EXCEPT !.degree = u]
  OBVIOUS
<1>2. r \in Node
  BY <1>1 DEF AreNodes
<1>3. /\ q \in Node /\ q.degree = u
      /\ q.left = r.left
      /\ q.right = r.right
      /\ q.parent = r.parent
      /\ q.child = r.child
      /\ q.key = r.key
  BY <1>1, <1>2 DEF Node
<1>4. /\ DOMAIN nodes2 = DOMAIN nodes /\ nodes2[e] = q
      /\ \A m \in DOMAIN nodes : m # e => nodes2[m] = nodes[m]
  BY <1>1
<1>5. \A m \in DOMAIN nodes : nodes2[m] \in Node
  BY <1>3, <1>4 DEF AreNodes
<1>6. nodes2 = [m \in DOMAIN nodes |-> nodes2[m]]
  BY <1>4
<1>7. AreNodes(nodes2)
  BY <1>4, <1>5, <1>6 DEF AreNodes
<1> QED BY <1>1, <1>3, <1>4, <1>7 DEF SetsDegree

\* Only nodes of S are linked anew.
Relinked(nodes, nodes2, S) ==
    /\ AreNodes(nodes2) /\ SameTrees(nodes, nodes2)
    /\ \A m \in DOMAIN nodes : nodes2[m].parent = nodes[m].parent
    /\ \A m \in DOMAIN nodes : m \notin S =>
          nodes2[m].right = nodes[m].right /\ nodes2[m].left = nodes[m].left

LEMMA JoinedIs ==
    ASSUME NEW nodes, AreNodes(nodes), NEW A, NEW B, Ring(nodes, A), Ring(nodes, B), A \cap B = {},
           NEW p \in A, NEW q \in B, NEW nodes2, nodes2 = H!Joined(nodes, p, q)
    PROVE  Relinked(nodes, nodes2, A \cup B) /\ Ring(nodes2, A \cup B)
<1> DEFINE next1 == nodes[p].right
           next2 == nodes[q].right
           here == [nodes EXCEPT ![p].right = next2, ![next2].left = p]
<1>0. /\ nodes \in [DOMAIN nodes -> Node] /\ 0 \notin DOMAIN nodes /\ DOMAIN nodes \subseteq Nat
      /\ A \subseteq DOMAIN nodes /\ B \subseteq DOMAIN nodes /\ next1 \in A /\ next2 \in B
  BY NodesFinite DEF AreNodes, Ring
<1>1. nodes2 = [here EXCEPT ![q].right = next1, ![next1].left = q]
  BY DEF H!Joined
<1> HIDE DEF next1, next2
<1>2. /\ AreNodes(here) /\ DOMAIN here = DOMAIN nodes
      /\ \A m \in DOMAIN nodes :
            /\ here[m].right = IF m = p THEN next2 ELSE nodes[m].right
            /\ here[m].left = IF m = next2 THEN p ELSE nodes[m].left
            /\ here[m].parent = nodes[m].parent /\ here[m].child = nodes[m].child
            /\ here[m].degree = nodes[m].degree /\ here[m].key = nodes[m].key
  <2> DEFINE half == [nodes EXCEPT ![p].right = next2]
  <2>1. here = [half EXCEPT ![next2].left = p] /\ half = [nodes EXCEPT ![p].right = next2]
    OBVIOUS
  <2>4. AreNodes(nodes) /\ p \in DOMAIN nodes /\ next2 \in DOMAIN nodes /\ next2 \in Nat /\ p \in Nat
    BY <1>0
  <2> HIDE DEF half, here
  <2>2. SetsRight(nodes, half, p, next2)
    BY <2>1, <2>4, RightSet
  <2>5. AreNodes(half) /\ next2 \in DOMAIN half
    BY <2>2, <2>4 DEF SetsRight
  <2>3. SetsLeft(half, here, next2, p)
    BY <2>1, <2>4, <2>5, LeftSet
  <2> QED BY <2>2, <2>3, <2>4 DEF SetsLeft, SetsRight
<1> HIDE DEF here
<1>3. /\ AreNodes(nodes2) /\ DOMAIN nodes2 = DOMAIN nodes
      /\ \A m \in DOMAIN nodes :
            /\ nodes2[m].right = IF m = q THEN next1 ELSE here[m].right
            /\ nodes2[m].left = IF m = next1 THEN q ELSE here[m].left
            /\ nodes2[m].parent = here[m].parent /\ nodes2[m].child = here[m].child
            /\ nodes2[m].degree = here[m].degree /\ nodes2[m].key = here[m].key
  <2> DEFINE half == [here EXCEPT ![q].right = next1]
  <2>1. nodes2 = [half EXCEPT ![next1].left = q] /\ half = [here EXCEPT ![q].right = next1]
    BY <1>1
  <2>4. AreNodes(here) /\ q \in DOMAIN here /\ next1 \in DOMAIN here /\ next1 \in Nat /\ q \in Nat
    BY <1>0, <1>2
  <2> HIDE DEF half
  <2>2. SetsRight(here, half, q, next1)
    BY <2>1, <2>4, RightSet
  <2>5. AreNodes(half) /\ next1 \in DOMAIN half
    BY <2>2, <2>4 DEF SetsRight
  <2>3. SetsLeft(half, nodes2, next1, q)
    BY <2>1, <2>4, <2>5, LeftSet
  <2> QED BY <1>2, <2>2, <2>3, <2>4 DEF SetsLeft, SetsRight
<1>4. DOMAIN nodes2 = DOMAIN nodes
  BY <1>3
<1>5. SameTrees(nodes, nodes2)
  BY <1>2, <1>3, <1>4 DEF SameTrees
<1>6. AreNodes(nodes2)
  BY <1>3
<1>7. \A m \in A \cup B :
         /\ nodes2[m].right = IF m = p THEN next2 ELSE IF m = q THEN next1 ELSE nodes[m].right
         /\ nodes2[m].left = IF m = next2 THEN p ELSE IF m = next1 THEN q ELSE nodes[m].left
  <2>1. p # q /\ next1 # next2
    BY <1>0
  <2> QED BY <1>0, <1>2, <1>3, <2>1
<1>8. Ring(nodes2, A \cup B)
  BY <1>0, <1>4, <1>7, RingsJoin DEF next1, next2
<1>9. \A m \in DOMAIN nodes : /\ nodes2[m].parent = nodes[m].parent
                              /\ m \notin A \cup B => /\ nodes2[m].right = nodes[m].right
                                                      /\ nodes2[m].left = nodes[m].left
  BY <1>0, <1>2, <1>3
<1> QED BY <1>5, <1>6, <1>8, <1>9 DEF Relinked

LEMMA CutIs ==
    ASSUME NEW nodes, AreNodes(nodes), NEW A, Ring(nodes, A), NEW n \in A, nodes[n].right # n,
           NEW nodes2, nodes2 = [nodes EXCEPT ![nodes[n].right].left = nodes[n].left,
                                              ![nodes[n].left].right = nodes[n].right]
    PROVE  Relinked(nodes, nodes2, A) /\ Ring(nodes2, A \ {n}) /\ nodes[n].right \in A \ {n}
<1> DEFINE r == nodes[n].right
           l == nodes[n].left
<1>0. /\ nodes \in [DOMAIN nodes -> Node] /\ 0 \notin DOMAIN nodes /\ DOMAIN nodes \subseteq Nat
      /\ A \subseteq DOMAIN nodes /\ r \in A /\ l \in A
  BY NodesFinite DEF AreNodes, Ring
<1>1. nodes2 = [nodes EXCEPT ![r].left = l, ![l].right = r]
  OBVIOUS
<1> HIDE DEF r, l
<1>2. /\ AreNodes(nodes2) /\ DOMAIN nodes2 = DOMAIN nodes
      /\ \A m \in DOMAIN nodes :
            /\ nodes2[m].right = IF m = l THEN r ELSE nodes[m].right
            /\ nodes2[m].left = IF m = r THEN l ELSE nodes[m].left
            /\ nodes2[m].parent = nodes[m].parent /\ nodes2[m].child = nodes[m].child
            /\ nodes2[m].degree = nodes[m].degree /\ nodes2[m].key = nodes[m].key
  <2> DEFINE half == [nodes EXCEPT ![r].left = l]
  <2>1. nodes2 = [half EXCEPT ![l].right = r] /\ half = [nodes EXCEPT ![r].left = l]
    BY <1>1
  <2>4. AreNodes(nodes) /\ r \in DOMAIN nodes /\ l \in DOMAIN nodes /\ l \in Nat /\ r \in Nat
    BY <1>0
  <2> HIDE DEF half
  <2>2. SetsLeft(nodes, half, r, l)
    BY <2>1, <2>4, LeftSet
  <2>5. AreNodes(half) /\ l \in DOMAIN half
    BY <2>2, <2>4 DEF SetsLeft
  <2>3. SetsRight(half, nodes2, l, r)
    BY <2>1, <2>4, <2>5, RightSet
  <2>6. AreNodes(nodes2) /\ DOMAIN nodes2 = DOMAIN nodes
    BY <2>2, <2>3 DEF SetsLeft, SetsRight
  <2>7. ASSUME NEW m \in DOMAIN nodes
        PROVE  /\ nodes2[m].right = IF m = l THEN r ELSE nodes[m].right
               /\ nodes2[m].left = IF m = r THEN l ELSE nodes[m].left
               /\ nodes2[m].parent = nodes[m].parent /\ nodes2[m].child = nodes[m].child
               /\ nodes2[m].degree = nodes[m].degree /\ nodes2[m].key = nodes[m].key
    <3>1. m \in DOMAIN half /\ half[m].left = IF m = r THEN l ELSE nodes[m].left
      BY Zenon, <2>2 DEF SetsLeft
    <3>2. /\ half[m].right = nodes[m].right /\ half[m].parent = nodes[m].parent
          /\ half[m].child = nodes[m].child /\ half[m].degree = nodes[m].degree
          /\ half[m].key = nodes[m].key
      BY Zenon, <2>2 DEF SetsLeft
    <3>3. /\ nodes2[m].right = IF m = l THEN r ELSE half[m].right
          /\ nodes2[m].left = half[m].left
          /\ nodes2[m].parent = half[m].parent /\ nodes2[m].child = half[m].child
          /\ nodes2[m].degree = half[m].degree /\ nodes2[m].key = half[m].key
      BY Zenon, <2>3, <3>1 DEF SetsRight
    <3> QED BY Zenon, <3>1, <3>2, <3>3
  <2> QED BY <2>6, <2>7
<1>3. DOMAIN nodes2 = DOMAIN nodes
  BY <1>2
<1>4. Ring(nodes2, A \ {n}) /\ nodes[n].right \in A \ {n}
  <2>1. A \ {n} \subseteq DOMAIN nodes2
    BY <1>0, <1>3
  <2>2. Loses(nodes, nodes2, A, n)
    BY <1>0, <1>2, <2>1 DEF r, l, Loses
  <2> QED BY <1>0, <2>2, RingLoses
<1>5. AreNodes(nodes2) /\ SameTrees(nodes, nodes2)
  BY <1>2 DEF SameTrees
<1>6. \A m \in DOMAIN nodes : /\ nodes2[m].parent = nodes[m].parent
                              /\ m \notin A => /\ nodes2[m].right = nodes[m].right
                                               /\ nodes2[m].left = nodes[m].left
  <2> SUFFICES ASSUME NEW m \in DOMAIN nodes
               PROVE  /\ nodes2[m].parent = nodes[m].parent
                      /\ m \notin A => /\ nodes2[m].right = nodes[m].right
                                       /\ nodes2[m].left = nodes[m].left
    OBVIOUS
  <2>1. /\ nodes2[m].right = IF m = l THEN r ELSE nodes[m].right
        /\ nodes2[m].left = IF m = r THEN l ELSE nodes[m].left
        /\ nodes2[m].parent = nodes[m].parent
    BY Zenon, <1>2
  <2>2. m \notin A => m # l /\ m # r
    BY Zenon, <1>0
  <2> QED BY Zenon, <2>1, <2>2
<1> QED BY <1>4, <1>5, <1>6 DEF Relinked

LEMMA HasKidsFrame ==
    ASSUME NEW nodes, NEW nodes2, NEW kids, NEW kids2, NEW n, HasKids(nodes, kids, n),
           kids2[n] = kids[n], nodes2[n].child = nodes[n].child, kids[n] \subseteq DOMAIN nodes2,
           SameLinks(nodes, nodes2, kids[n])
    PROVE  HasKids(nodes2, kids2, n)
<1>1. Ring(nodes, kids[n]) => Ring(nodes2, kids[n])
  BY RingFrame
<1> QED BY <1>1 DEF HasKids

LEMMA HeapedFrame ==
    ASSUME NEW nodes, NEW nodes2, NEW kids, NEW kids2, NEW n, Heaped(nodes, kids, n),
           kids2[n] = kids[n], nodes2[n].degree = nodes[n].degree, nodes2[n].key = nodes[n].key,
           \A k \in kids[n] : /\ nodes2[k].parent = nodes[k].parent
                              /\ nodes2[k].degree = nodes[k].degree
                              /\ nodes2[k].key = nodes[k].key
    PROVE  Heaped(nodes2, kids2, n)
  BY DEF Heaped

\* A part of the nodes that holds the kids of its nodes.
LEMMA ShapeRestricted ==
    ASSUME NEW nodes, NEW kids, Shape(nodes, kids), NEW S \in SUBSET DOMAIN nodes, KidsStay(kids, S),
           NEW nodes2, nodes2 = [m \in S |-> nodes[m]], NEW kids2, kids2 = [m \in S |-> kids[m]]
    PROVE  Shape(nodes2, kids2)
<1>1. /\ DOMAIN nodes2 = S /\ \A m \in S : nodes2[m] = nodes[m] /\ kids2[m] = kids[m]
      /\ \A m \in S : kids[m] \subseteq S
  BY DEF KidsStay
<1>2. AreNodes(nodes2)
  <2>1. S \subseteq 1..MaxNodes /\ \A m \in S : nodes[m] \in Node
    BY DEF Shape, AreNodes
  <2>2. nodes2 \in [S -> Node]
    BY <2>1
  <2> QED BY <1>1, <2>1, <2>2 DEF AreNodes
<1>3. kids2 \in [DOMAIN nodes2 -> SUBSET DOMAIN nodes2]
  BY <1>1
<1>4. ASSUME NEW n \in S PROVE HasKids(nodes2, kids2, n) /\ Heaped(nodes2, kids2, n)
  <2>1. HasKids(nodes, kids, n) /\ Heaped(nodes, kids, n)
    BY DEF Shape
  <2>2. /\ \A k \in kids[n] : nodes2[k] = nodes[k]
        /\ nodes2[n] = nodes[n] /\ kids2[n] = kids[n] /\ kids[n] \subseteq DOMAIN nodes2
    BY <1>1
  <2>3. HasKids(nodes2, kids2, n)
    <3>1. SameLinks(nodes, nodes2, kids[n])
      BY <2>2 DEF SameLinks
    <3> QED BY <2>1, <2>2, <3>1, HasKidsFrame
  <2>4. Heaped(nodes2, kids2, n)
    BY <2>1, <2>2, HeapedFrame
  <2> QED BY <2>3, <2>4
<1> QED BY <1>1, <1>2, <1>3, <1>4 DEF Shape

\* One node more, without children.
Extended(f, n, e) == [m \in DOMAIN f \cup {n} |-> IF m = n THEN e ELSE f[m]]

LEMMA ShapeExtended ==
    ASSUME NEW nodes, NEW kids, Shape(nodes, kids), NEW n \in 1..MaxNodes, n \notin DOMAIN nodes,
           NEW new \in Node, new.child = 0, new.degree = 0,
           NEW nodes2, nodes2 = Extended(nodes, n, new), NEW kids2, kids2 = Extended(kids, n, {})
    PROVE  Shape(nodes2, kids2)
<1>1. /\ DOMAIN nodes2 = DOMAIN nodes \cup {n} /\ nodes2[n] = new /\ kids2[n] = {}
      /\ \A m \in DOMAIN nodes : nodes2[m] = nodes[m] /\ kids2[m] = kids[m]
      /\ \A m \in DOMAIN nodes : kids[m] \subseteq DOMAIN nodes
  BY DEF Shape, Extended
<1>2. AreNodes(nodes2)
  <2>1. DOMAIN nodes \subseteq 1..MaxNodes /\ \A m \in DOMAIN nodes : nodes[m] \in Node
    BY DEF Shape, AreNodes
  <2>2. nodes2 \in [DOMAIN nodes \cup {n} -> Node]
    BY <2>1 DEF Extended
  <2> QED BY <1>1, <2>1, <2>2 DEF AreNodes
<1>3. kids2 \in [DOMAIN nodes2 -> SUBSET DOMAIN nodes2]
  <2>1. \A m \in DOMAIN nodes2 : kids2[m] \in SUBSET DOMAIN nodes2
    BY <1>1
  <2>2. DOMAIN kids = DOMAIN nodes
    BY DEF Shape
  <2>3. kids2 = [m \in DOMAIN nodes2 |-> kids2[m]]
    BY <1>1, <2>2 DEF Extended
  <2> QED BY <2>1, <2>3
<1>4. ASSUME NEW e \in DOMAIN nodes PROVE HasKids(nodes2, kids2, e) /\ Heaped(nodes2, kids2, e)
  <2>1. HasKids(nodes, kids, e) /\ Heaped(nodes, kids, e)
    BY DEF Shape
  <2>2. /\ \A k \in kids[e] : nodes2[k] = nodes[k]
        /\ nodes2[e] = nodes[e] /\ kids2[e] = kids[e] /\ kids[e] \subseteq DOMAIN nodes2
    BY <1>1
  <2>3. HasKids(nodes2, kids2, e)
    <3>1. SameLinks(nodes, nodes2, kids[e])
      BY <2>2 DEF SameLinks
    <3> QED BY <2>1, <2>2, <3>1, HasKidsFrame
  <2>4. Heaped(nodes2, kids2, e)
    BY <2>1, <2>2, HeapedFrame
  <2> QED BY <2>3, <2>4
<1>5. HasKids(nodes2, kids2, n) /\ Heaped(nodes2, kids2, n)
  BY <1>1 DEF HasKids, Heaped
<1> QED BY <1>1, <1>2, <1>3, <1>4, <1>5 DEF Shape

-----------------------------------------------------------------------------
(* The counts of the nodes of a heap.                                       *)

With(nodes, V, v) == {n \in V : nodes[n].key = v}

Counted(nodes, V, num, b) ==
    num = Cardinality(V) /\ \A v \in Key : b[v] = Cardinality(With(nodes, V, v))

LEMMA CountedFrame ==
    ASSUME NEW nodes, NEW nodes2, NEW V, \A n \in V : nodes2[n].key = nodes[n].key,
           NEW num, NEW b, Counted(nodes, V, num, b)
    PROVE  Counted(nodes2, V, num, b)
<1>1. \A v : With(nodes2, V, v) = With(nodes, V, v)
  BY DEF With
<1> QED BY <1>1 DEF Counted

LEMMA CountedMore ==
    ASSUME NEW nodes, NEW V, IsFiniteSet(V), NEW n, n \notin V,
           NEW num, NEW b, b \in [Key -> Nat], Counted(nodes, V, num, b), nodes[n].key \in Key
    PROVE  Counted(nodes, V \cup {n}, num + 1, [b EXCEPT ![nodes[n].key] = @ + 1])
<1>1. Cardinality(V \cup {n}) = num + 1
  BY FS_AddElement DEF Counted
<1>2. ASSUME NEW v \in Key
      PROVE  [b EXCEPT ![nodes[n].key] = @ + 1][v] = Cardinality(With(nodes, V \cup {n}, v))
  <2>1. IsFiniteSet(With(nodes, V, v)) /\ n \notin With(nodes, V, v)
    <3>1. With(nodes, V, v) \subseteq V
      BY DEF With
    <3> QED BY <3>1, FS_Subset
  <2>2. CASE v = nodes[n].key
    <3>1. With(nodes, V \cup {n}, v) = With(nodes, V, v) \cup {n}
      BY <2>2 DEF With
    <3>2. Cardinality(With(nodes, V, v) \cup {n}) = Cardinality(With(nodes, V, v)) + 1
      BY <2>1, FS_AddElement
    <3>3. b[v] = Cardinality(With(nodes, V, v))
      BY DEF Counted
    <3> QED BY <2>2, <3>1, <3>2, <3>3
  <2>3. CASE v # nodes[n].key
    <3>1. With(nodes, V \cup {n}, v) = With(nodes, V, v)
      BY <2>3 DEF With
    <3> QED BY <2>3, <3>1 DEF Counted
  <2> QED BY <2>2, <2>3
<1> QED BY <1>1, <1>2 DEF Counted

LEMMA CountedLess ==
    ASSUME NEW nodes, NEW V, IsFiniteSet(V), NEW n \in V,
           NEW num, NEW b, b \in [Key -> Nat], Counted(nodes, V, num, b), nodes[n].key \in Key
    PROVE  /\ Counted(nodes, V \ {n}, num - 1, [b EXCEPT ![nodes[n].key] = @ - 1])
           /\ num - 1 \in Nat /\ b[nodes[n].key] - 1 \in Nat
<1>0. ASSUME NEW S, IsFiniteSet(S), n \in S
      PROVE  Cardinality(S \ {n}) = Cardinality(S) - 1 /\ Cardinality(S) - 1 \in Nat
  <2>1. IsFiniteSet(S \ {n}) /\ Cardinality(S \ {n}) = Cardinality(S) - 1
    BY <1>0, FS_RemoveElement
  <2> QED BY <2>1, FS_CardinalityType
<1>1. Cardinality(V \ {n}) = num - 1 /\ num - 1 \in Nat
  BY <1>0 DEF Counted
<1>2. ASSUME NEW v \in Key
      PROVE  /\ [b EXCEPT ![nodes[n].key] = @ - 1][v] = Cardinality(With(nodes, V \ {n}, v))
             /\ v = nodes[n].key => b[v] - 1 \in Nat
  <2>1. IsFiniteSet(With(nodes, V, v)) /\ (v = nodes[n].key => n \in With(nodes, V, v))
    <3>1. With(nodes, V, v) \subseteq V
      BY DEF With
    <3> QED BY <3>1, FS_Subset DEF With
  <2>2. CASE v = nodes[n].key
    <3>1. With(nodes, V \ {n}, v) = With(nodes, V, v) \ {n}
      BY <2>2 DEF With
    <3>2. /\ Cardinality(With(nodes, V, v) \ {n}) = Cardinality(With(nodes, V, v)) - 1
          /\ Cardinality(With(nodes, V, v)) - 1 \in Nat
      BY <1>0, <2>1, <2>2
    <3>3. b[v] = Cardinality(With(nodes, V, v))
      BY DEF Counted
    <3> QED BY <2>2, <3>1, <3>2, <3>3
  <2>3. CASE v # nodes[n].key
    <3>1. With(nodes, V \ {n}, v) = With(nodes, V, v)
      BY <2>3 DEF With
    <3> QED BY <2>3, <3>1 DEF Counted
  <2> QED BY <2>2, <2>3
<1> QED BY <1>1, <1>2 DEF Counted

LEMMA CountedUnion ==
    ASSUME NEW nodes, NEW V, IsFiniteSet(V), NEW Y, IsFiniteSet(Y), V \cap Y = {},
           NEW num1, NEW b1, Counted(nodes, V, num1, b1),
           NEW num2, NEW b2, Counted(nodes, Y, num2, b2)
    PROVE  Counted(nodes, V \cup Y, num1 + num2, [v \in Key |-> b1[v] + b2[v]])
<1>0. ASSUME NEW S, NEW C, IsFiniteSet(S), IsFiniteSet(C), S \cap C = {}
      PROVE  Cardinality(S \cup C) = Cardinality(S) + Cardinality(C)
  <2>1. Cardinality(S \cup C) = Cardinality(S) + Cardinality(C) - Cardinality(S \cap C)
    BY <1>0, FS_Union
  <2>2. Cardinality(S \cap C) = 0
    BY <1>0, FS_EmptySet
  <2> QED BY <1>0, <2>1, <2>2, FS_CardinalityType
<1>1. Cardinality(V \cup Y) = num1 + num2
  BY <1>0 DEF Counted
<1>2. ASSUME NEW v \in Key
      PROVE  [u \in Key |-> b1[u] + b2[u]][v] = Cardinality(With(nodes, V \cup Y, v))
  <2>1. With(nodes, V, v) \subseteq V /\ With(nodes, Y, v) \subseteq Y
    BY DEF With
  <2>2. IsFiniteSet(With(nodes, V, v)) /\ IsFiniteSet(With(nodes, Y, v))
    BY <2>1, FS_Subset
  <2>3. With(nodes, V, v) \cap With(nodes, Y, v) = {}
    BY <2>1
  <2>4. With(nodes, V \cup Y, v) = With(nodes, V, v) \cup With(nodes, Y, v)
    BY DEF With
  <2>5. Cardinality(With(nodes, V \cup Y, v)) =
           Cardinality(With(nodes, V, v)) + Cardinality(With(nodes, Y, v))
    BY <1>0, <2>2, <2>3, <2>4
  <2> QED BY <2>5 DEF Counted
<1> QED BY <1>1, <1>2 DEF Counted

LEMMA CountedNone ==
    ASSUME NEW nodes
    PROVE  Counted(nodes, {}, 0, [v \in Key |-> 0])
<1>1. \A v : With(nodes, {}, v) = {}
  BY DEF With
<1> QED BY <1>1, FS_EmptySet DEF Counted

-----------------------------------------------------------------------------
(* The steps, between calls first.                                          *)

LEMMA KidsNotRoots ==
    ASSUME NEW nodes, NEW kids, NEW roots, NEW trees, HeapOwns(nodes, kids, roots, trees),
           NEW h \in Heap, NEW p \in DOMAIN nodes
    PROVE  /\ kids[p] \cap roots[h] = {}
           /\ p \in trees[h] => kids[p] \subseteq trees[h]
           /\ p \notin trees[h] => kids[p] \cap trees[h] = {}
<1>1. PICK g \in Heap : p \in trees[g]
  BY DEF HeapOwns
<1>2. Grove(kids, roots[g], trees[g]) /\ Grove(kids, roots[h], trees[h])
  BY DEF HeapOwns
<1>3. g # h => trees[g] \cap trees[h] = {}
  BY DEF HeapOwns
<1> QED BY <1>1, <1>2, <1>3 DEF Grove, KidsStay

LEMMA AtRest ==
    ASSUME NEW kids, NEW roots, NEW trees, NEW yet, HeapSound(kids, roots, trees, yet), pc = "rest"
    PROVE  /\ this = 0 /\ w = 0 /\ DOMAIN a = {}
           /\ \A h \in Heap : RootsRing(node, heap[h].min_root, roots[h])
  BY HeapAssumption DEF HeapSound, HeapStage, H!null

LEMMA CountsAre ==
    ASSUME NEW kids, NEW roots, NEW trees, NEW yet, HeapSound(kids, roots, trees, yet)
    PROVE  /\ \A h \in Heap : Counted(node, trees[h], heap[h].num_nodes, bag[h])
           /\ \A h \in Heap : trees[h] \subseteq DOMAIN node /\ IsFiniteSet(trees[h])
<1>1. \A h \in Heap : Counted(node, trees[h], heap[h].num_nodes, bag[h])
  BY DEF HeapSound, HeapCounts, Counted, With
<1>2. AreNodes(node) /\ trees \in [Heap -> SUBSET DOMAIN node]
  BY DEF HeapSound, HeapOwns, Shape
<1>3. \A h \in Heap : trees[h] \subseteq DOMAIN node /\ IsFiniteSet(trees[h])
  BY <1>2, NodesFinite, FS_Subset
<1> QED BY <1>1, <1>3

LEMMA RestKept ==
    ASSUME NEW kids, NEW roots, NEW trees, HeapOwns(node', kids, roots, trees),
           heap' \in [Heap -> [min_root : Nat, num_nodes : Nat]], bag' \in [Heap -> [Key -> Nat]],
           \A h \in Heap : Counted(node', trees[h], heap'[h].num_nodes, bag'[h]),
           pc' = "rest", this' = 0, w' = 0, DOMAIN a' = {},
           \A h \in Heap : RootsRing(node', heap'[h].min_root, roots[h])
    PROVE  HeapInv'
<1>1. HeapCounts(trees)'
  BY DEF HeapCounts, Counted, With
<1>2. \A h \in Heap : heap'[h].min_root \in DOMAIN node' \cup {0}
  BY DEF RootsRing, Ring
<1>3. HeapStage(roots, {})'
  BY <1>2 DEF HeapStage
<1>4. HeapSound(kids, roots, trees, {})'
  BY <1>1, <1>3 DEF HeapSound
<1> QED BY <1>4 DEF HeapInv

LEMMA MinIsRoot ==
    ASSUME NEW nodes, NEW min, NEW R, RootsRing(nodes, min, R), AreNodes(nodes)
    PROVE  min \in Nat
  BY DEF RootsRing, Ring, AreNodes

LEMMA HeapPush ==
    ASSUME HeapInv, NEW h \in Heap, NEW v \in Key, H!Push(h, v)
    PROVE  HeapInv'
<1>1. PICK kids, roots, trees, yet : HeapSound(kids, roots, trees, yet)
  BY DEF HeapInv
<1> DEFINE new == [left |-> 0, right |-> 0, parent |-> 0, child |-> 0, degree |-> 0, key |-> v]
           min == heap[h].min_root
<1>2. PICK n \in 1..MaxNodes :
         /\ n \notin DOMAIN node
         /\ node' = H!Inserted(Extended(node, n, new), n, min)
         /\ heap' = [heap EXCEPT ![h] = [min_root |-> H!NewMin(Extended(node, n, new), n, min),
                                         num_nodes |-> @.num_nodes + 1]]
  BY DEF H!Push, H!null, Extended
<1>3. /\ pc = "rest" /\ pc' = "rest" /\ this' = this /\ w' = w /\ a' = a
      /\ bag' = [bag EXCEPT ![h][v] = @ + 1]
  BY DEF H!Push, H!locals
<1>4. PICK nodes, kids2, roots2, trees2 :
         /\ nodes = Extended(node, n, new) /\ kids2 = Extended(kids, n, {})
         /\ roots2 = [g \in Heap |-> IF g = h THEN roots[h] \cup {n} ELSE roots[g]]
         /\ trees2 = [g \in Heap |-> IF g = h THEN trees[h] \cup {n} ELSE trees[g]]
  OBVIOUS
<1>5. /\ node' = H!Inserted(nodes, n, min)
      /\ heap' = [heap EXCEPT ![h] = [min_root |-> H!NewMin(nodes, n, min), num_nodes |-> @.num_nodes + 1]]
  BY <1>2, <1>4
<1>6. /\ HeapOwns(node, kids, roots, trees) /\ Shape(node, kids) /\ AreNodes(node)
      /\ \A g \in Heap : /\ roots[g] \subseteq trees[g] /\ trees[g] \subseteq DOMAIN node
                         /\ RootsRing(node, heap[g].min_root, roots[g])
      /\ \A g, i \in Heap : g # i => trees[g] \cap trees[i] = {}
  BY <1>1, <1>3, AtRest DEF HeapSound, HeapOwns, Shape, Grove
<1>7. /\ DOMAIN nodes = DOMAIN node \cup {n} /\ DOMAIN kids2 = DOMAIN nodes
      /\ nodes[n] = new /\ kids2[n] = {} /\ new \in Node
      /\ \A m \in DOMAIN node : nodes[m] = node[m] /\ kids2[m] = kids[m] /\ m # n
  BY <1>2, <1>4, <1>6 DEF Node, Shape, Extended
<1>8. Shape(nodes, kids2) /\ AreNodes(nodes)
  <2>1. new.child = 0 /\ new.degree = 0
    OBVIOUS
  <2> HIDE DEF new
  <2>2. Shape(nodes, kids2)
    BY <1>2, <1>4, <1>6, <1>7, <2>1, ShapeExtended
  <2> QED BY <2>2 DEF Shape
<1> HIDE DEF new
<1>9. \A g \in Heap : RootsRing(nodes, heap[g].min_root, roots[g])
  BY <1>6, <1>7, RootsRingFrame
<1>17. IsInserted(nodes, node', n, min, roots[h])
  <2>1. RootsRing(nodes, min, roots[h]) /\ n \in DOMAIN nodes /\ n \notin roots[h]
    BY <1>2, <1>6, <1>7, <1>9
  <2> HIDE DEF min
  <2> QED BY <1>5, <1>8, <2>1, InsertedIs
<1>10. /\ AreNodes(node') /\ SameTrees(nodes, node')
       /\ \A m \in DOMAIN nodes : m # n => (node')[m].parent = nodes[m].parent
       /\ \A m \in DOMAIN nodes : m \notin roots[h] \cup {n} =>
              (node')[m].right = nodes[m].right /\ (node')[m].left = nodes[m].left
       /\ RootsRing(node', H!NewMin(nodes, n, min), roots[h] \cup {n})
  BY <1>17 DEF IsInserted
<1>11. \A p \in DOMAIN nodes : \A k \in kids2[p] : k \in DOMAIN node /\ \A g \in Heap : k \notin roots[g]
  <2>1. \A p \in DOMAIN node : kids[p] \subseteq DOMAIN node /\ \A g \in Heap : kids[p] \cap roots[g] = {}
    BY <1>6, KidsNotRoots DEF Shape
  <2> QED BY <1>7, <2>1
<1>12. Shape(node', kids2)
  <2>1. \A p \in DOMAIN nodes : \A k \in kids2[p] :
           /\ (node')[k].right = nodes[k].right /\ (node')[k].left = nodes[k].left
           /\ (node')[k].parent = nodes[k].parent
    BY <1>7, <1>10, <1>11
  <2> QED BY <1>8, <1>10, <2>1, ShapeKept
<1>13. HeapOwns(node', kids2, roots2, trees2)
  <2>1. DOMAIN node' = DOMAIN node \cup {n}
    BY <1>7, <1>10 DEF SameTrees
  <2>2. roots2 \in [Heap -> SUBSET DOMAIN node'] /\ trees2 \in [Heap -> SUBSET DOMAIN node']
    BY <1>4, <1>6, <2>1
  <2>3. ASSUME NEW g \in Heap PROVE Grove(kids2, roots2[g], trees2[g])
    <3>1. Grove(kids, roots[g], trees[g]) /\ trees[g] \subseteq DOMAIN node
      BY <1>6 DEF HeapOwns
    <3>2. CASE g = h
      <4>1. roots2[g] = roots[g] \cup {n} /\ trees2[g] = trees[g] \cup {n}
        BY <1>4, <3>2
      <4>2. \A p \in trees[g] : kids2[p] = kids[p] /\ n \notin kids[p]
        BY <1>7, <3>1, <1>6 DEF Shape
      <4>3. kids2[n] = {} /\ n \in DOMAIN kids2 /\ trees[g] \subseteq DOMAIN kids2
        BY <1>7, <3>1
      <4> QED BY <3>1, <4>1, <4>2, <4>3 DEF Grove, KidsStay
    <3>3. CASE g # h
      <4>1. roots2[g] = roots[g] /\ trees2[g] = trees[g]
        BY <1>4, <3>3
      <4>2. \A p \in trees[g] : kids2[p] = kids[p]
        BY <1>7, <3>1
      <4>3. trees[g] \subseteq DOMAIN kids2
        BY <1>7, <3>1
      <4> QED BY <3>1, <4>1, <4>2, <4>3 DEF Grove, KidsStay
    <3> QED BY <3>2, <3>3
  <2>4. \A g, i \in Heap : g # i => trees2[g] \cap trees2[i] = {}
    BY <1>4, <1>6, <1>7
  <2>5. \A m \in DOMAIN node' : \E g \in Heap : m \in trees2[g]
    <3>1. \A m \in DOMAIN node : \E g \in Heap : m \in trees[g]
      BY <1>6 DEF HeapOwns
    <3> QED BY <1>4, <2>1, <3>1
  <2> QED BY <1>12, <2>2, <2>3, <2>4, <2>5 DEF HeapOwns
<1>14. /\ heap \in [Heap -> [min_root : Nat, num_nodes : Nat]] /\ bag \in [Heap -> [Key -> Nat]]
       /\ H!NewMin(nodes, n, min) \in Nat
  <2>1. heap \in [Heap -> [min_root : Nat, num_nodes : Nat]] /\ bag \in [Heap -> [Key -> Nat]]
    BY <1>1 DEF HeapSound, HeapCounts
  <2>2. H!NewMin(nodes, n, min) \in Nat
    BY <1>10, MinIsRoot
  <2> QED BY <2>1, <2>2
<1>15. /\ heap' \in [Heap -> [min_root : Nat, num_nodes : Nat]] /\ bag' \in [Heap -> [Key -> Nat]]
       /\ heap'[h].min_root = H!NewMin(nodes, n, min) /\ heap'[h].num_nodes = heap[h].num_nodes + 1
       /\ \A g \in Heap : g # h => heap'[g] = heap[g] /\ bag'[g] = bag[g]
       /\ bag'[h] = [bag[h] EXCEPT ![v] = @ + 1]
  BY <1>3, <1>5, <1>14
<1>16. ASSUME NEW g \in Heap
       PROVE  /\ Counted(node', trees2[g], heap'[g].num_nodes, bag'[g])
              /\ RootsRing(node', heap'[g].min_root, roots2[g])
  <2>0. Counted(node, trees[g], heap[g].num_nodes, bag[g]) /\ IsFiniteSet(trees[g])
    BY <1>1, CountsAre
  <2>1. \A m \in trees[g] : (node')[m].key = node[m].key
    BY <1>6, <1>7, <1>10 DEF SameTrees
  <2>2. Counted(node', trees[g], heap[g].num_nodes, bag[g])
    BY <2>0, <2>1, CountedFrame
  <2>3. CASE g # h
    <3>1. Counted(node', trees2[g], heap'[g].num_nodes, bag'[g])
      BY <1>4, <1>15, <2>2, <2>3
    <3>2. RootsRing(node', heap[g].min_root, roots[g])
      <4>1. roots[g] \subseteq DOMAIN node' /\ \A m \in roots[g] : m \in DOMAIN nodes /\ m \notin roots[h] \cup {n}
        BY <1>2, <1>6, <1>7, <1>10, <2>3 DEF SameTrees
      <4>2. \A m \in roots[g] :
               /\ (node')[m].right = nodes[m].right /\ (node')[m].left = nodes[m].left
               /\ (node')[m].parent = nodes[m].parent /\ (node')[m].key = nodes[m].key
        BY <1>10, <4>1 DEF SameTrees
      <4>3. RootsRing(nodes, heap[g].min_root, roots[g])
        BY <1>9
      <4> QED BY <4>1, <4>2, <4>3, RootsRingFrame
    <3> QED BY <1>4, <1>15, <2>3, <3>1, <3>2
  <2>4. CASE g = h
    <3>1. (node')[n].key = v /\ n \notin trees[h] /\ bag[h] \in [Key -> Nat]
      BY <1>2, <1>6, <1>7, <1>10, <1>14 DEF SameTrees, new
    <3>2. Counted(node', trees[h] \cup {n}, heap[h].num_nodes + 1, [bag[h] EXCEPT ![(node')[n].key] = @ + 1])
      BY <2>0, <2>2, <2>4, <3>1, CountedMore
    <3> QED BY <1>4, <1>10, <1>15, <2>4, <3>1, <3>2
  <2> QED BY <2>3, <2>4
<1> QED BY <1>1, <1>3, <1>13, <1>15, <1>16, AtRest, RestKept

LEMMA HeapPushHeap ==
    ASSUME HeapInv, NEW h \in Heap, NEW other \in Heap, H!PushHeap(h, other)
    PROVE  HeapInv'
<1>1. PICK kids, roots, trees, yet : HeapSound(kids, roots, trees, yet)
  BY DEF HeapInv
<1> DEFINE min1 == heap[h].min_root
           min2 == heap[other].min_root
<1>2. /\ other # h /\ min2 # 0
      /\ pc = "rest" /\ pc' = "rest" /\ this' = this /\ w' = w /\ a' = a
      /\ node' = IF min1 = 0 THEN node ELSE H!Joined(node, min1, min2)
      /\ heap' = [heap EXCEPT ![other] = H!EmptyHeap,
                    ![h] = [min_root |-> H!NewMin(node, min2, min1),
                            num_nodes |-> @.num_nodes + heap[other].num_nodes]]
      /\ bag' = [bag EXCEPT ![h] = [v \in Key |-> @[v] + bag[other][v]], ![other] = H!NoKey]
  BY DEF H!PushHeap, H!locals, H!null
<1>4. PICK roots2, trees2 :
         /\ roots2 = [g \in Heap |-> IF g = h THEN roots[h] \cup roots[other]
                                     ELSE IF g = other THEN {} ELSE roots[g]]
         /\ trees2 = [g \in Heap |-> IF g = h THEN trees[h] \cup trees[other]
                                     ELSE IF g = other THEN {} ELSE trees[g]]
  OBVIOUS
<1>6. /\ HeapOwns(node, kids, roots, trees) /\ Shape(node, kids) /\ AreNodes(node)
      /\ \A g \in Heap : /\ roots[g] \subseteq trees[g] /\ trees[g] \subseteq DOMAIN node
                         /\ RootsRing(node, heap[g].min_root, roots[g])
      /\ \A g, i \in Heap : g # i => trees[g] \cap trees[i] = {}
  BY <1>1, <1>2, AtRest DEF HeapSound, HeapOwns, Shape, Grove
<1>7. \A m \in DOMAIN node : node[m].key \in Int
  BY <1>6, HeapAssumption DEF AreNodes, Node
<1>8. /\ min2 \in roots[other] /\ Ring(node, roots[other])
      /\ \A m \in roots[other] : node[m].parent = 0 /\ node[min2].key <= node[m].key
  BY <1>2, <1>6 DEF RootsRing
<1>9. /\ Relinked(node, node', roots[h] \cup roots[other])
      /\ RootsRing(node', H!NewMin(node, min2, min1), roots[h] \cup roots[other])
  <2>1. CASE min1 = 0
    <3>1. node' = node /\ roots[h] = {} /\ H!NewMin(node, min2, min1) = min2
      BY <1>2, <1>6, <2>1 DEF RootsRing, H!NewMin, H!null
    <3>2. Relinked(node, node', roots[h] \cup roots[other])
      BY <1>6, <3>1 DEF Relinked, SameTrees
    <3>3. RootsRing(node, min2, roots[h] \cup roots[other])
      BY <1>6, <3>1
    <3> QED BY <3>1, <3>2, <3>3
  <2>2. CASE min1 # 0
    <3>1. /\ min1 \in roots[h] /\ Ring(node, roots[h])
          /\ \A m \in roots[h] : node[m].parent = 0 /\ node[min1].key <= node[m].key
      BY <1>6, <2>2 DEF RootsRing
    <3>2. node' = H!Joined(node, min1, min2) /\ roots[h] \cap roots[other] = {}
      BY <1>2, <1>6, <2>2
    <3> HIDE DEF min1, min2
    <3>3. Relinked(node, node', roots[h] \cup roots[other]) /\ Ring(node', roots[h] \cup roots[other])
      BY <1>6, <1>8, <3>1, <3>2, JoinedIs
    <3>4. \A m \in roots[h] \cup roots[other] :
             /\ m \in DOMAIN node /\ (node')[m].parent = 0 /\ (node')[m].key = node[m].key
             /\ node[m].key \in Int
      BY <1>6, <1>7, <1>8, <3>1, <3>3 DEF Relinked, SameTrees
    <3>5. H!NewMin(node, min2, min1) = IF node[min2].key < node[min1].key THEN min2 ELSE min1
      BY <2>2 DEF H!NewMin, H!null
    <3>6. CASE node[min2].key < node[min1].key
      <4>1. \A m \in roots[h] \cup roots[other] : node[min2].key <= node[m].key
        BY <1>8, <3>1, <3>4, <3>6
      <4> QED BY <1>2, <1>8, <3>3, <3>4, <3>5, <3>6, <4>1 DEF RootsRing, min2
    <3>7. CASE ~ (node[min2].key < node[min1].key)
      <4>1. \A m \in roots[h] \cup roots[other] : node[min1].key <= node[m].key
        BY <1>8, <3>1, <3>4, <3>7
      <4> QED BY <2>2, <3>1, <3>3, <3>4, <3>5, <3>7, <4>1 DEF RootsRing
    <3> QED BY <3>3, <3>6, <3>7
  <2> QED BY <2>1, <2>2
<1>10. /\ AreNodes(node') /\ SameTrees(node, node') /\ DOMAIN node' = DOMAIN node
       /\ \A m \in DOMAIN node : (node')[m].parent = node[m].parent
       /\ \A m \in DOMAIN node : m \notin roots[h] \cup roots[other] =>
             (node')[m].right = node[m].right /\ (node')[m].left = node[m].left
  BY <1>9 DEF Relinked, SameTrees
<1>11. \A p \in DOMAIN node : kids[p] \subseteq DOMAIN node /\ \A g \in Heap : kids[p] \cap roots[g] = {}
  BY <1>6, KidsNotRoots DEF Shape
<1>12. Shape(node', kids)
  <2>1. \A p \in DOMAIN node : \A k \in kids[p] :
           /\ (node')[k].right = node[k].right /\ (node')[k].left = node[k].left
           /\ (node')[k].parent = node[k].parent
    BY <1>10, <1>11
  <2> QED BY <1>6, <1>10, <2>1, ShapeKept
<1>13. HeapOwns(node', kids, roots2, trees2)
  <2>2. roots2 \in [Heap -> SUBSET DOMAIN node'] /\ trees2 \in [Heap -> SUBSET DOMAIN node']
    BY <1>4, <1>6, <1>10
  <2>3. ASSUME NEW g \in Heap PROVE Grove(kids, roots2[g], trees2[g])
    <3>1. \A i \in Heap : Grove(kids, roots[i], trees[i])
      BY <1>6 DEF HeapOwns
    <3>2. CASE g = h
      <4>1. roots2[g] = roots[h] \cup roots[other] /\ trees2[g] = trees[h] \cup trees[other]
        BY <1>4, <3>2
      <4>2. \A p \in trees[h] \cup trees[other] :
               p \in DOMAIN node /\ kids[p] \cap roots[h] = {} /\ kids[p] \cap roots[other] = {}
        BY <1>6, <1>11
      <4>3. Grove(kids, roots[h], trees[h]) /\ Grove(kids, roots[other], trees[other])
        BY <3>1
      <4> QED BY <4>1, <4>2, <4>3 DEF Grove, KidsStay
    <3>3. CASE g = other
      <4>1. roots2[g] = {} /\ trees2[g] = {}
        BY <1>2, <1>4, <3>3
      <4> QED BY <4>1 DEF Grove, KidsStay
    <3>4. CASE g # h /\ g # other
      <4>1. roots2[g] = roots[g] /\ trees2[g] = trees[g]
        BY <1>4, <3>4
      <4> QED BY <3>1, <4>1
    <3> QED BY <3>2, <3>3, <3>4
  <2>4. \A g, i \in Heap : g # i => trees2[g] \cap trees2[i] = {}
    BY <1>4, <1>6
  <2>5. \A m \in DOMAIN node' : \E g \in Heap : m \in trees2[g]
    <3>1. \A m \in DOMAIN node : \E g \in Heap : m \in trees[g]
      BY <1>6 DEF HeapOwns
    <3> QED BY <1>4, <1>10, <3>1
  <2> QED BY <1>12, <2>2, <2>3, <2>4, <2>5 DEF HeapOwns
<1>14. /\ heap \in [Heap -> [min_root : Nat, num_nodes : Nat]] /\ bag \in [Heap -> [Key -> Nat]]
       /\ H!NewMin(node, min2, min1) \in Nat
  <2>1. heap \in [Heap -> [min_root : Nat, num_nodes : Nat]] /\ bag \in [Heap -> [Key -> Nat]]
    BY <1>1 DEF HeapSound, HeapCounts
  <2>2. H!NewMin(node, min2, min1) \in Nat
    BY <1>9, <1>10, MinIsRoot
  <2> QED BY <2>1, <2>2
<1>15. /\ heap' \in [Heap -> [min_root : Nat, num_nodes : Nat]]
       /\ heap'[h].min_root = H!NewMin(node, min2, min1)
       /\ heap'[h].num_nodes = heap[h].num_nodes + heap[other].num_nodes
       /\ heap'[other].min_root = 0 /\ heap'[other].num_nodes = 0
       /\ \A g \in Heap : g # h /\ g # other => heap'[g] = heap[g]
  <2> DEFINE one == [min_root |-> H!NewMin(node, min2, min1),
                     num_nodes |-> heap[h].num_nodes + heap[other].num_nodes]
             none == H!EmptyHeap
  <2>1. heap' = [heap EXCEPT ![other] = none, ![h] = one]
    BY <1>2, <1>14
  <2>2. /\ one \in [min_root : Nat, num_nodes : Nat] /\ none \in [min_root : Nat, num_nodes : Nat]
        /\ one.min_root = H!NewMin(node, min2, min1)
        /\ one.num_nodes = heap[h].num_nodes + heap[other].num_nodes
        /\ none.min_root = 0 /\ none.num_nodes = 0
    BY <1>14 DEF H!EmptyHeap, H!null
  <2> HIDE DEF one, none
  <2>3. heap' \in [Heap -> [min_root : Nat, num_nodes : Nat]]
    BY <1>14, <2>1, <2>2
  <2>4. heap'[h] = one /\ heap'[other] = none /\ \A g \in Heap : g # h /\ g # other => heap'[g] = heap[g]
    BY <1>2, <1>14, <2>1
  <2> QED BY <2>2, <2>3, <2>4
<1>17. /\ bag' \in [Heap -> [Key -> Nat]]
       /\ bag'[h] = [v \in Key |-> bag[h][v] + bag[other][v]]
       /\ bag'[other] = [v \in Key |-> 0]
       /\ \A g \in Heap : g # h /\ g # other => bag'[g] = bag[g]
  <2> DEFINE one == [v \in Key |-> bag[h][v] + bag[other][v]]
             none == [v \in Key |-> 0]
  <2>1. bag' = [bag EXCEPT ![h] = one, ![other] = none]
    BY <1>2 DEF H!NoKey
  <2>2. one \in [Key -> Nat] /\ none \in [Key -> Nat]
    <3>1. \A v \in Key : bag[h][v] + bag[other][v] \in Nat
      BY <1>14
    <3> QED BY <3>1
  <2> HIDE DEF one, none
  <2>3. bag' \in [Heap -> [Key -> Nat]]
    BY <1>14, <2>1, <2>2
  <2>4. bag'[h] = one /\ bag'[other] = none /\ \A g \in Heap : g # h /\ g # other => bag'[g] = bag[g]
    BY <1>2, <1>14, <2>1
  <2> QED BY <2>3, <2>4 DEF one, none
<1>16. ASSUME NEW g \in Heap
       PROVE  /\ Counted(node', trees2[g], heap'[g].num_nodes, bag'[g])
              /\ RootsRing(node', heap'[g].min_root, roots2[g])
  <2>0. \A i \in Heap : Counted(node, trees[i], heap[i].num_nodes, bag[i]) /\ IsFiniteSet(trees[i])
    BY <1>1, CountsAre
  <2>1. \A i \in Heap : \A m \in trees[i] : (node')[m].key = node[m].key
    BY <1>6, <1>10 DEF SameTrees
  <2>2. \A i \in Heap : Counted(node', trees[i], heap[i].num_nodes, bag[i])
    BY <2>0, <2>1, CountedFrame
  <2>3. CASE g # h /\ g # other
    <3>1. Counted(node', trees2[g], heap'[g].num_nodes, bag'[g])
      BY <1>4, <1>15, <1>17, <2>2, <2>3
    <3>2. RootsRing(node', heap[g].min_root, roots[g])
      <4>1. roots[g] \subseteq DOMAIN node' /\ \A m \in roots[g] : m \notin roots[h] \cup roots[other]
        BY <1>6, <1>10, <2>3
      <4>2. \A m \in roots[g] :
               /\ (node')[m].right = node[m].right /\ (node')[m].left = node[m].left
               /\ (node')[m].parent = node[m].parent /\ (node')[m].key = node[m].key
        BY <1>10, <4>1 DEF SameTrees
      <4> QED BY <1>6, <4>1, <4>2, RootsRingFrame
    <3> QED BY <1>4, <1>15, <2>3, <3>1, <3>2
  <2>4. CASE g = h
    <3>1. trees[h] \cap trees[other] = {}
      BY <1>2, <1>6
    <3>2. Counted(node', trees[h] \cup trees[other], heap[h].num_nodes + heap[other].num_nodes,
                  [v \in Key |-> bag[h][v] + bag[other][v]])
      BY <2>0, <2>2, <3>1, CountedUnion
    <3> QED BY <1>4, <1>9, <1>15, <1>17, <2>4, <3>2
  <2>5. CASE g = other
    <3>1. trees2[g] = {} /\ roots2[g] = {}
      BY <1>2, <1>4, <2>5
    <3>2. Counted(node', {}, 0, [v \in Key |-> 0])
      BY CountedNone
    <3> QED BY <1>15, <1>17, <2>5, <3>1, <3>2 DEF RootsRing
  <2> QED BY <2>3, <2>4, <2>5
<1> QED BY <1>1, <1>2, <1>13, <1>15, <1>16, <1>17, AtRest, RestKept

LEMMA HeapAssign ==
    ASSUME HeapInv, NEW h \in Heap, NEW rhs \in Heap, H!Assign(h, rhs)
    PROVE  HeapInv'
<1>1. PICK kids, roots, trees, yet : HeapSound(kids, roots, trees, yet)
  BY DEF HeapInv
<1>2. /\ rhs # h
      /\ pc = "rest" /\ pc' = "rest" /\ this' = this /\ w' = w /\ a' = a
      /\ node' = [n \in DOMAIN node \ H!Trees(H!List(heap[h].min_root)) |-> node[n]]
      /\ heap' = [heap EXCEPT ![h] = heap[rhs], ![rhs] = H!EmptyHeap]
      /\ bag' = [bag EXCEPT ![h] = bag[rhs], ![rhs] = H!NoKey]
  BY DEF H!Assign, H!locals
<1>3. H!Trees(H!List(heap[h].min_root)) = trees[h]
  <2>1. h # this
    BY <1>1, <1>2, AtRest, HeapAssumption DEF H!null
  <2>2. H!Roots(h) = H!List(heap[h].min_root)
    BY <2>1 DEF H!Roots
  <2> QED BY <1>1, <2>2, RootsFollow, KidsFollow
<1>4. PICK S, kids2, roots2, trees2 :
         /\ S = DOMAIN node \ trees[h]
         /\ kids2 = [m \in S |-> kids[m]]
         /\ roots2 = [g \in Heap |-> IF g = h THEN roots[rhs] ELSE IF g = rhs THEN {} ELSE roots[g]]
         /\ trees2 = [g \in Heap |-> IF g = h THEN trees[rhs] ELSE IF g = rhs THEN {} ELSE trees[g]]
  OBVIOUS
<1>5. node' = [n \in S |-> node[n]] /\ S \subseteq DOMAIN node
  BY <1>2, <1>3, <1>4
<1>6. /\ HeapOwns(node, kids, roots, trees) /\ Shape(node, kids) /\ AreNodes(node)
      /\ \A g \in Heap : /\ roots[g] \subseteq trees[g] /\ trees[g] \subseteq DOMAIN node
                         /\ RootsRing(node, heap[g].min_root, roots[g])
      /\ \A g, i \in Heap : g # i => trees[g] \cap trees[i] = {}
  BY <1>1, <1>2, AtRest DEF HeapSound, HeapOwns, Shape, Grove
<1>7. \A g \in Heap : g # h => trees[g] \subseteq S
  BY <1>4, <1>6
<1>8. KidsStay(kids, S)
  <2>1. ASSUME NEW p \in S PROVE kids[p] \subseteq S
    <3>1. p \in DOMAIN node /\ p \notin trees[h]
      BY <1>4
    <3>2. kids[p] \cap trees[h] = {}
      BY <1>6, <3>1, KidsNotRoots
    <3>3. kids[p] \subseteq DOMAIN node
      BY <1>6, <3>1 DEF Shape
    <3> QED BY <1>4, <3>2, <3>3
  <2> QED BY <2>1 DEF KidsStay
<1>9. Shape(node', kids2)
  BY <1>4, <1>5, <1>6, <1>8, ShapeRestricted
<1>10. DOMAIN node' = S /\ DOMAIN kids2 = S /\ \A m \in S : (node')[m] = node[m] /\ kids2[m] = kids[m]
  BY <1>4, <1>5
<1>13. HeapOwns(node', kids2, roots2, trees2)
  <2>2. roots2 \in [Heap -> SUBSET DOMAIN node'] /\ trees2 \in [Heap -> SUBSET DOMAIN node']
    BY <1>2, <1>4, <1>6, <1>7, <1>10
  <2>1. ASSUME NEW i \in Heap, i # h PROVE Grove(kids2, roots[i], trees[i])
    <3>1. Grove(kids, roots[i], trees[i]) /\ trees[i] \subseteq S
      BY <1>6, <1>7, <2>1 DEF HeapOwns
    <3>2. \A p \in trees[i] : kids2[p] = kids[p]
      BY <1>10, <3>1
    <3> QED BY <1>10, <3>1, <3>2 DEF Grove, KidsStay
  <2>3. ASSUME NEW g \in Heap PROVE Grove(kids2, roots2[g], trees2[g])
    <3>1. CASE g = rhs
      <4>1. roots2[g] = {} /\ trees2[g] = {}
        BY <1>2, <1>4, <3>1
      <4> QED BY <4>1 DEF Grove, KidsStay
    <3>2. CASE g = h
      <4>1. roots2[g] = roots[rhs] /\ trees2[g] = trees[rhs]
        BY <1>2, <1>4, <3>2
      <4> QED BY <1>2, <2>1, <4>1
    <3>3. CASE g # h /\ g # rhs
      <4>1. roots2[g] = roots[g] /\ trees2[g] = trees[g]
        BY <1>4, <3>3
      <4> QED BY <2>1, <3>3, <4>1
    <3> QED BY <3>1, <3>2, <3>3
  <2>4. \A g, i \in Heap : g # i => trees2[g] \cap trees2[i] = {}
    BY <1>2, <1>4, <1>6
  <2>5. \A m \in DOMAIN node' : \E g \in Heap : m \in trees2[g]
    <3>1. \A m \in DOMAIN node : \E g \in Heap : m \in trees[g]
      BY <1>6 DEF HeapOwns
    <3> SUFFICES ASSUME NEW m \in S PROVE \E g \in Heap : m \in trees2[g]
      BY <1>10
    <3>2. PICK g \in Heap : m \in trees[g]
      BY <1>4, <3>1
    <3>3. g # h
      BY <1>4, <3>2
    <3> QED BY <1>4, <3>2, <3>3
  <2> QED BY <1>9, <2>2, <2>3, <2>4, <2>5 DEF HeapOwns
<1>14. heap \in [Heap -> [min_root : Nat, num_nodes : Nat]] /\ bag \in [Heap -> [Key -> Nat]]
  BY <1>1 DEF HeapSound, HeapCounts
<1>15. /\ heap' \in [Heap -> [min_root : Nat, num_nodes : Nat]]
       /\ heap'[h] = heap[rhs] /\ heap'[rhs].min_root = 0 /\ heap'[rhs].num_nodes = 0
       /\ \A g \in Heap : g # h /\ g # rhs => heap'[g] = heap[g]
  BY <1>2, <1>14 DEF H!EmptyHeap, H!null
<1>17. /\ bag' \in [Heap -> [Key -> Nat]]
       /\ bag'[h] = bag[rhs] /\ bag'[rhs] = [v \in Key |-> 0]
       /\ \A g \in Heap : g # h /\ g # rhs => bag'[g] = bag[g]
  BY <1>2, <1>14 DEF H!NoKey
<1>16. ASSUME NEW g \in Heap
       PROVE  /\ Counted(node', trees2[g], heap'[g].num_nodes, bag'[g])
              /\ RootsRing(node', heap'[g].min_root, roots2[g])
  <2>0. \A i \in Heap : Counted(node, trees[i], heap[i].num_nodes, bag[i])
    BY <1>1, CountsAre
  <2>1. ASSUME NEW i \in Heap, i # h
        PROVE  /\ Counted(node', trees[i], heap[i].num_nodes, bag[i])
               /\ RootsRing(node', heap[i].min_root, roots[i])
    <3>1. \A m \in trees[i] : m \in S /\ (node')[m] = node[m]
      BY <1>7, <1>10, <2>1
    <3>2. Counted(node', trees[i], heap[i].num_nodes, bag[i])
      BY <2>0, <3>1, CountedFrame
    <3>3. roots[i] \subseteq DOMAIN node' /\ \A m \in roots[i] : (node')[m] = node[m]
      BY <1>6, <1>10, <3>1
    <3>4. RootsRing(node', heap[i].min_root, roots[i])
      BY <1>6, <3>3, RootsRingFrame
    <3> QED BY <3>2, <3>4
  <2>3. CASE g # h /\ g # rhs
    <3>1. trees2[g] = trees[g] /\ roots2[g] = roots[g]
      BY <1>4, <2>3
    <3> QED BY <1>15, <1>17, <2>1, <2>3, <3>1
  <2>4. CASE g = h
    <3>1. trees2[g] = trees[rhs] /\ roots2[g] = roots[rhs]
      BY <1>2, <1>4, <2>4
    <3> QED BY <1>2, <1>15, <1>17, <2>1, <2>4, <3>1
  <2>5. CASE g = rhs
    <3>1. trees2[g] = {} /\ roots2[g] = {}
      BY <1>2, <1>4, <2>5
    <3>2. Counted(node', {}, 0, [v \in Key |-> 0])
      BY CountedNone
    <3> QED BY <1>15, <1>17, <2>5, <3>1, <3>2 DEF RootsRing
  <2> QED BY <2>3, <2>4, <2>5
<1> QED BY <1>1, <1>2, <1>13, <1>15, <1>16, <1>17, AtRest, RestKept

LEMMA RelinkedMore ==
    ASSUME NEW nodes, NEW nodes2, NEW S, NEW Y, Relinked(nodes, nodes2, S), S \subseteq Y
    PROVE  Relinked(nodes, nodes2, Y)
  BY DEF Relinked

LEMMA RelinkedTwice ==
    ASSUME NEW nodes, NEW nodes2, NEW nodes3, NEW S, NEW Y,
           Relinked(nodes, nodes2, S), Relinked(nodes2, nodes3, Y), S \subseteq Y
    PROVE  Relinked(nodes, nodes3, Y)
<1>1. AreNodes(nodes3) /\ SameTrees(nodes, nodes3) /\ DOMAIN nodes2 = DOMAIN nodes
  BY DEF Relinked, SameTrees
<1>2. ASSUME NEW m \in DOMAIN nodes
      PROVE  /\ nodes3[m].parent = nodes[m].parent
             /\ m \notin Y => nodes3[m].right = nodes[m].right /\ nodes3[m].left = nodes[m].left
  <2>1. /\ nodes3[m].parent = nodes2[m].parent
        /\ m \notin Y => nodes3[m].right = nodes2[m].right /\ nodes3[m].left = nodes2[m].left
    BY <1>1 DEF Relinked
  <2>2. /\ nodes2[m].parent = nodes[m].parent
        /\ m \notin Y => nodes2[m].right = nodes[m].right /\ nodes2[m].left = nodes[m].left
    BY DEF Relinked
  <2> QED BY <2>1, <2>2
<1> QED BY <1>1, <1>2 DEF Relinked

\* A node which is a ring of its own leaves it.
LEMMA AloneIs ==
    ASSUME NEW nodes, AreNodes(nodes), NEW e \in DOMAIN nodes,
           nodes[e].right = e, nodes[e].left = e,
           NEW out, out = [nodes EXCEPT ![nodes[e].right].left = nodes[e].left,
                                        ![nodes[e].left].right = nodes[e].right]
    PROVE  Relinked(nodes, out, {})
<1>1. PICK half : half = [nodes EXCEPT ![e].left = e]
  OBVIOUS
<1>2. out = [half EXCEPT ![e].right = e] /\ e \in Nat
  BY <1>1 DEF AreNodes
<1>3. SetsLeft(nodes, half, e, e)
  BY <1>1, <1>2, LeftSet
<1>4. AreNodes(half) /\ DOMAIN half = DOMAIN nodes /\ e \in DOMAIN half
  BY <1>3 DEF SetsLeft
<1>5. SetsRight(half, out, e, e)
  BY <1>2, <1>4, RightSet
<1>6. ASSUME NEW m \in DOMAIN nodes
      PROVE  /\ half[m].child = nodes[m].child /\ half[m].degree = nodes[m].degree
             /\ half[m].key = nodes[m].key /\ half[m].parent = nodes[m].parent
             /\ half[m].right = nodes[m].right /\ half[m].left = nodes[m].left
  <2>1. CASE m = e
    BY Zenon, <1>3, <2>1 DEF SetsLeft
  <2>2. CASE m # e
    BY Zenon, <1>3, <2>2 DEF SetsLeft
  <2> QED BY <2>1, <2>2
<1>7. ASSUME NEW m \in DOMAIN nodes
      PROVE  /\ out[m].child = half[m].child /\ out[m].degree = half[m].degree
             /\ out[m].key = half[m].key /\ out[m].parent = half[m].parent
             /\ out[m].right = half[m].right /\ out[m].left = half[m].left
  <2>0. m \in DOMAIN half
    BY <1>4
  <2>1. CASE m = e
    <3>1. half[e].right = e
      BY <1>6
    <3>2. /\ out[m].right = IF m = e THEN e ELSE half[m].right
          /\ out[m].left = half[m].left /\ out[m].parent = half[m].parent
          /\ out[m].child = half[m].child /\ out[m].degree = half[m].degree
          /\ out[m].key = half[m].key
      BY Zenon, <1>5, <2>0 DEF SetsRight
    <3> QED BY <2>1, <3>1, <3>2
  <2>2. CASE m # e
    BY Zenon, <1>5, <2>0, <2>2 DEF SetsRight
  <2> QED BY <2>1, <2>2
<1>8. AreNodes(out) /\ DOMAIN out = DOMAIN nodes
  BY Zenon, <1>4, <1>5 DEF SetsRight
<1>9. ASSUME NEW m \in DOMAIN nodes
      PROVE  /\ out[m].child = nodes[m].child /\ out[m].degree = nodes[m].degree
             /\ out[m].key = nodes[m].key /\ out[m].parent = nodes[m].parent
             /\ out[m].right = nodes[m].right /\ out[m].left = nodes[m].left
  BY ONLY <1>6, <1>7
<1> QED BY Zenon, <1>8, <1>9 DEF Relinked, SameTrees

\* The parent of a child is cleared.
Orphaned(nodes, c) == [nodes EXCEPT ![c].parent = 0]

IsOrphaned(nodes, nodes2, S, K) ==
    /\ AreNodes(nodes2) /\ SameTrees(nodes, nodes2)
    /\ \A m \in DOMAIN nodes : m \notin K => nodes2[m].parent = nodes[m].parent
    /\ \A m \in DOMAIN nodes : m \notin S =>
          nodes2[m].right = nodes[m].right /\ nodes2[m].left = nodes[m].left

LEMMA OrphanIs ==
    ASSUME NEW nodes, NEW all, NEW S, Relinked(nodes, all, S), NEW K, NEW c, c \in K, c \in DOMAIN nodes,
           NEW Y, Ring(all, Y)
    PROVE  IsOrphaned(nodes, Orphaned(all, c), S, K) /\ Ring(Orphaned(all, c), Y)
<1>0. PICK orphan : orphan = Orphaned(all, c)
  OBVIOUS
<1>9. orphan = [all EXCEPT ![c].parent = 0]
  BY <1>0 DEF Orphaned
<1>1. AreNodes(all) /\ DOMAIN all = DOMAIN nodes /\ c \in DOMAIN all
  BY DEF Relinked, SameTrees
<1>2. SetsParent(all, orphan, c, 0)
  BY <1>1, <1>9, ParentSet
<1>3. AreNodes(orphan) /\ DOMAIN orphan = DOMAIN nodes
  BY Zenon, <1>1, <1>2 DEF SetsParent
<1>4. ASSUME NEW m \in DOMAIN nodes
      PROVE  /\ orphan[m].left = all[m].left /\ orphan[m].right = all[m].right
             /\ orphan[m].child = all[m].child /\ orphan[m].degree = all[m].degree
             /\ orphan[m].key = all[m].key
             /\ m \notin K => orphan[m].parent = all[m].parent
  <2>1. m \in DOMAIN all
    BY <1>1
  <2>2. CASE m = c
    BY Zenon, <1>2, <2>1, <2>2 DEF SetsParent
  <2>3. CASE m # c
    BY Zenon, <1>2, <2>1, <2>3 DEF SetsParent
  <2> QED BY <2>2, <2>3
<1>5. ASSUME NEW m \in DOMAIN nodes
      PROVE  /\ m \notin S => all[m].left = nodes[m].left /\ all[m].right = nodes[m].right
             /\ all[m].child = nodes[m].child /\ all[m].degree = nodes[m].degree
             /\ all[m].key = nodes[m].key /\ all[m].parent = nodes[m].parent
  BY Zenon DEF Relinked, SameTrees
<1>6. SameTrees(nodes, orphan)
  BY Zenon, <1>3, <1>4, <1>5 DEF SameTrees
<1>7. Ring(orphan, Y)
  <2>1. Y \subseteq DOMAIN nodes
    BY <1>1 DEF Ring
  <2>2. SameLinks(all, orphan, Y)
    BY <1>4, <2>1 DEF SameLinks
  <2> QED BY <1>3, <2>1, <2>2, RingFrame
<1>8. \A m \in DOMAIN nodes : /\ m \notin K => orphan[m].parent = nodes[m].parent
                              /\ m \notin S => /\ orphan[m].right = nodes[m].right
                                               /\ orphan[m].left = nodes[m].left
  BY Zenon, <1>4, <1>5
<1> QED BY <1>0, <1>3, <1>6, <1>7, <1>8 DEF IsOrphaned

\* A root leaves and its children come.
IsPopped(nodes, nodes2, e, R, K, min) ==
    /\ IsOrphaned(nodes, nodes2, R \cup K, K)
    /\ (R \ {e}) \cup K = {} => min = 0
    /\ (R \ {e}) \cup K # {} => min \in (R \ {e}) \cup K /\ Ring(nodes2, (R \ {e}) \cup K)

\* What the front of a list goes through.
Popping(nodes, out, all, orphan, e, n, c, min) ==
    /\ n = nodes[e].right /\ c = nodes[e].child
    /\ out = [nodes EXCEPT ![nodes[e].right].left = nodes[e].left,
                           ![nodes[e].left].right = nodes[e].right]
    /\ all = IF n # e /\ c # 0 THEN H!Joined(out, n, c) ELSE out
    /\ orphan = IF c = 0 THEN all ELSE [all EXCEPT ![c].parent = 0]
    /\ min = IF n # e THEN IF c = 0 THEN n ELSE H!NewMin(nodes, c, n) ELSE c

LEMMA PoppedIs ==
    ASSUME NEW nodes, NEW kids, Shape(nodes, kids), NEW R, NEW e \in R, Ring(nodes, R),
           kids[e] \cap R = {}, NEW out, NEW all, NEW orphan, NEW n, NEW c, NEW min,
           Popping(nodes, out, all, orphan, e, n, c, min)
    PROVE  IsPopped(nodes, orphan, e, R, kids[e], min)
<1>0. /\ n = nodes[e].right /\ c = nodes[e].child
      /\ out = [nodes EXCEPT ![nodes[e].right].left = nodes[e].left,
                             ![nodes[e].left].right = nodes[e].right]
  BY DEF Popping
<1>8. all = IF n # e /\ c # 0 THEN H!Joined(out, n, c) ELSE out
  BY DEF Popping
<1>9. orphan = IF c = 0 THEN all ELSE [all EXCEPT ![c].parent = 0]
  BY DEF Popping
<1>10. min = IF n # e THEN IF c = 0 THEN n ELSE H!NewMin(nodes, c, n) ELSE c
  BY DEF Popping
<1> DEFINE K == kids[e]
<1>1. /\ AreNodes(nodes) /\ R \subseteq DOMAIN nodes /\ 0 \notin DOMAIN nodes
      /\ K \subseteq DOMAIN nodes /\ K \cap R = {} /\ n \in R /\ n # 0
      /\ c = 0 => K = {}
      /\ c # 0 => c \in K /\ Ring(nodes, K)
  <2>1. AreNodes(nodes) /\ R \subseteq DOMAIN nodes /\ e \in DOMAIN nodes
    BY DEF Shape, Ring
  <2>2. 0 \notin DOMAIN nodes
    BY <2>1, NodesFinite
  <2>3. HasKids(nodes, kids, e) /\ kids[e] \subseteq DOMAIN nodes
    BY <2>1 DEF Shape
  <2>4. n \in R
    BY <1>0 DEF Ring
  <2> QED BY <1>0, <2>1, <2>2, <2>3, <2>4 DEF HasKids
<1> HIDE DEF K
<1>2. /\ Relinked(nodes, out, R)
      /\ IF n = e THEN R = {e} ELSE Ring(out, R \ {e}) /\ n \in R \ {e}
  <2>1. CASE n # e
    <3>1. Relinked(nodes, out, R) /\ Ring(out, R \ {e}) /\ nodes[e].right \in R \ {e}
      BY <1>0, <1>1, <2>1, CutIs
    <3> QED BY <1>0, <2>1, <3>1
  <2>2. CASE n = e
    <3>1. R = {e}
      <4>1. RightStays(nodes, {e}) /\ {e} \in SUBSET R /\ {e} # {}
        BY <1>0, <2>2 DEF RightStays
      <4> QED BY <4>1 DEF Ring
    <3>2. nodes[e].left = e /\ e \in DOMAIN nodes
      BY <1>1, <3>1 DEF Ring
    <3>3. nodes[e].right = e
      BY <1>0, <2>2
    <3>4. Relinked(nodes, out, {})
      <4>1. AreNodes(nodes) /\ e \in DOMAIN nodes /\ nodes[e].right = e /\ nodes[e].left = e
        BY <1>1, <3>2, <3>3
      <4>2. out = [nodes EXCEPT ![nodes[e].right].left = nodes[e].left,
                                ![nodes[e].left].right = nodes[e].right]
        BY <1>0
      <4> QED BY Zenon, <4>1, <4>2, AloneIs
    <3>9. Relinked(nodes, out, R)
      BY <3>4, RelinkedMore
    <3> QED BY <2>2, <3>1, <3>9
  <2> QED BY <2>1, <2>2
<1>3. /\ AreNodes(out) /\ SameTrees(nodes, out) /\ DOMAIN out = DOMAIN nodes
      /\ \A m \in DOMAIN nodes : out[m].parent = nodes[m].parent
      /\ \A m \in DOMAIN nodes : m \notin R =>
            out[m].right = nodes[m].right /\ out[m].left = nodes[m].left
  BY <1>2 DEF Relinked, SameTrees
<1>4. c # 0 => Ring(out, K)
  <2>1. SameLinks(nodes, out, K)
    BY <1>1, <1>3 DEF SameLinks
  <2> QED BY <1>1, <1>3, <2>1, RingFrame
<1>5. /\ Relinked(nodes, all, R \cup K)
      /\ (R \ {e}) \cup K = {} => min = 0
      /\ (R \ {e}) \cup K # {} => min \in (R \ {e}) \cup K /\ Ring(all, (R \ {e}) \cup K)
  <2>1. CASE c = 0
    <3>1. all = out /\ K = {} /\ min = IF n # e THEN n ELSE 0
      BY <1>1, <1>8, <1>10, <2>1
    <3>2. Relinked(nodes, all, R \cup K)
      BY <1>2, <3>1, RelinkedMore
    <3> QED BY <1>2, <3>1, <3>2
  <2>2. CASE c # 0 /\ n = e
    <3>1. all = out /\ R \ {e} = {} /\ min = c
      BY <1>2, <1>8, <1>10, <2>2
    <3>2. Relinked(nodes, all, R \cup K)
      <4>1. Relinked(nodes, all, R) /\ R \subseteq R \cup K
        BY <1>2, <3>1
      <4> QED BY <4>1, RelinkedMore
    <3>3. (R \ {e}) \cup K = K
      BY <3>1
    <3> QED BY <1>1, <1>4, <2>2, <3>1, <3>2, <3>3
  <2>3. CASE c # 0 /\ n # e
    <3>1. all = H!Joined(out, n, c)
      BY <1>8, <2>3
    <3>2. Relinked(out, all, (R \ {e}) \cup K) /\ Ring(all, (R \ {e}) \cup K)
      <4>1. (R \ {e}) \cap K = {} /\ n \in R \ {e} /\ c \in K /\ Ring(out, R \ {e}) /\ Ring(out, K)
        BY <1>1, <1>2, <1>4, <2>3
      <4>2. AreNodes(out)
        BY <1>3
      <4> QED BY <3>1, <4>1, <4>2, JoinedIs
    <3>3. Relinked(nodes, all, R \cup K)
      <4>1. (R \ {e}) \cup K \subseteq R \cup K /\ R \subseteq R \cup K
        OBVIOUS
      <4>2. Relinked(out, all, R \cup K)
        BY <3>2, <4>1, RelinkedMore
      <4> QED BY <1>2, <4>1, <4>2, RelinkedTwice
    <3>4. min = H!NewMin(nodes, c, n)
      BY <1>10, <2>3
    <3>5. min \in {c, n}
      BY <3>4 DEF H!NewMin
    <3> QED BY <1>1, <1>2, <2>3, <3>2, <3>3, <3>5
  <2> QED BY <2>1, <2>2, <2>3
<1>6. CASE c = 0
  <2>1. orphan = all
    BY <1>6, <1>9
  <2> QED BY <1>5, <2>1 DEF K,  IsPopped, IsOrphaned, Relinked
<1>7. CASE c # 0
  <2>1. orphan = Orphaned(all, c)
    BY <1>7, <1>9 DEF Orphaned
  <2>2. Relinked(nodes, all, R \cup K) /\ c \in K /\ c \in DOMAIN nodes
    BY <1>1, <1>5, <1>7
  <2>3. PICK Y, S : Y = (R \ {e}) \cup K /\ S = R \cup K
    OBVIOUS
  <2>6. Relinked(nodes, all, S)
    BY <2>2, <2>3
  <2>4. Y # {} /\ Ring(all, Y) /\ min \in Y
    BY <1>5, <2>2, <2>3
  <2>5. IsOrphaned(nodes, orphan, S, K) /\ Ring(orphan, Y)
    <3>1. Ring(all, Y) /\ c \in K /\ c \in DOMAIN nodes
      BY <2>2, <2>4
    <3> QED BY <2>1, <2>6, <3>1, OrphanIs
  <2> QED BY <2>3, <2>4, <2>5 DEF K, IsPopped
<1> QED BY <1>6, <1>7

LEMMA OpenedIs ==
    ASSUME NEW nodes, AreNodes(nodes), NEW A, Ring(nodes, A), NEW m \in A,
           NEW nodes2, nodes2 = [nodes EXCEPT ![nodes[m].left].right = 0, ![m].left = 0]
    PROVE  /\ Relinked(nodes, nodes2, A)
           /\ IsList(nodes2, A, m) /\ Threaded(nodes2, A) /\ nodes2[m].left = 0
<1>1. PICK l, half : l = nodes[m].left /\ half = [nodes EXCEPT ![l].right = 0]
  OBVIOUS
<1>2. /\ 0 \notin DOMAIN nodes /\ A \subseteq DOMAIN nodes /\ l \in A
      /\ nodes2 = [half EXCEPT ![m].left = 0] /\ 0 \in Nat
  BY <1>1, NodesFinite DEF Ring
<1>3. SetsRight(nodes, half, l, 0)
  BY <1>1, <1>2, RightSet
<1>4. AreNodes(half) /\ DOMAIN half = DOMAIN nodes /\ m \in DOMAIN half
  BY <1>2, <1>3 DEF SetsRight
<1>5. SetsLeft(half, nodes2, m, 0)
  BY <1>2, <1>4, LeftSet
<1>6. AreNodes(nodes2) /\ DOMAIN nodes2 = DOMAIN nodes
  BY Zenon, <1>4, <1>5 DEF SetsLeft
<1>7. ASSUME NEW e \in DOMAIN nodes
      PROVE  /\ half[e].child = nodes[e].child /\ half[e].degree = nodes[e].degree
             /\ half[e].key = nodes[e].key /\ half[e].parent = nodes[e].parent
             /\ half[e].right = (IF e = l THEN 0 ELSE nodes[e].right) /\ half[e].left = nodes[e].left
  BY Zenon, <1>3 DEF SetsRight
<1>8. ASSUME NEW e \in DOMAIN nodes
      PROVE  /\ nodes2[e].child = half[e].child /\ nodes2[e].degree = half[e].degree
             /\ nodes2[e].key = half[e].key /\ nodes2[e].parent = half[e].parent
             /\ nodes2[e].right = half[e].right /\ nodes2[e].left = (IF e = m THEN 0 ELSE half[e].left)
  <2>1. e \in DOMAIN half
    BY <1>4
  <2> QED BY Zenon, <1>5, <2>1 DEF SetsLeft
<1>9. ASSUME NEW e \in DOMAIN nodes
      PROVE  /\ nodes2[e].child = nodes[e].child /\ nodes2[e].degree = nodes[e].degree
             /\ nodes2[e].key = nodes[e].key /\ nodes2[e].parent = nodes[e].parent
             /\ nodes2[e].right = (IF e = l THEN 0 ELSE nodes[e].right)
             /\ nodes2[e].left = (IF e = m THEN 0 ELSE nodes[e].left)
  BY <1>7, <1>8
<1>10. SameTrees(nodes, nodes2)
  BY Zenon, <1>6, <1>9 DEF SameTrees
<1>11. Relinked(nodes, nodes2, A)
  <2>1. ASSUME NEW e \in DOMAIN nodes
        PROVE  /\ nodes2[e].parent = nodes[e].parent
               /\ e \notin A => nodes2[e].right = nodes[e].right /\ nodes2[e].left = nodes[e].left
    BY <1>2, <1>9
  <2> QED BY Zenon, <1>6, <1>10, <2>1 DEF Relinked
<1>12. Opens(nodes, nodes2, A, m)
  BY <1>1, <1>2, <1>6, <1>9 DEF Opens
<1> QED BY <1>2, <1>11, <1>12, RingOpens

\* The least value of a heap is that of its front.
LEMMA LeastIs ==
    ASSUME NEW kids, NEW roots, NEW trees, NEW yet, HeapSound(kids, roots, trees, yet),
           pc = "rest", NEW h \in Heap, heap[h].min_root # 0
    PROVE  /\ node[heap[h].min_root].key \in Key /\ bag[h][node[heap[h].min_root].key] > 0
           /\ (CHOOSE v \in Key : bag[h][v] > 0 /\ \A u \in Key : u < v => bag[h][u] = 0)
                = node[heap[h].min_root].key
<1> DEFINE k == node[heap[h].min_root].key
           Least(v) == bag[h][v] > 0 /\ \A u \in Key : u < v => bag[h][u] = 0
<1>1. /\ heap[h].min_root \in trees[h] /\ heap[h].min_root \in DOMAIN node
      /\ bag[h] \in [Key -> Nat] /\ \A n \in trees[h] : n \in DOMAIN node
  <2>1. RootsRing(node, heap[h].min_root, roots[h])
    BY AtRest
  <2>2. roots[h] \subseteq trees[h] /\ trees[h] \subseteq DOMAIN node
    BY DEF HeapSound, HeapOwns, Grove
  <2> QED BY <2>1, <2>2 DEF RootsRing, HeapSound, HeapCounts
<1>2. Key \subseteq Int /\ \A n \in DOMAIN node : node[n].key \in Key
  BY HeapAssumption DEF HeapSound, HeapOwns, Shape, AreNodes, Node
<1>3. k \in Key /\ bag[h][k] > 0
  BY <1>1, <1>2, InBag
<1>4. ASSUME NEW u \in Key, u < k PROVE bag[h][u] = 0
  <2>1. \A n \in trees[h] : k <= node[n].key
    BY FrontFollows
  <2>2. ~ \E n \in trees[h] : node[n].key = u
    <3> SUFFICES ASSUME NEW n \in trees[h], node[n].key = u PROVE FALSE
      OBVIOUS
    <3>1. k <= u /\ u \in Int /\ k \in Int
      BY <1>2, <1>3, <2>1
    <3> HIDE DEF k
    <3> QED BY <1>4, <3>1
  <2>3. ~ (bag[h][u] > 0) /\ bag[h][u] \in Nat
    BY <1>1, <2>2, InBag
  <2> QED BY <2>3
<1>5. Least(k)
  BY <1>3, <1>4
<1>6. ASSUME NEW v \in Key, Least(v) PROVE v = k
  <2>1. ~ (v < k)
    BY <1>4, <1>6
  <2>2. ~ (k < v)
    BY <1>3, <1>6
  <2>3. v \in Int /\ k \in Int
    BY <1>2, <1>3
  <2> HIDE DEF k
  <2> QED BY <2>1, <2>2, <2>3
<1>7. (CHOOSE v \in Key : Least(v)) = k
  <2> HIDE DEF Least, k
  <2> QED BY <1>3, <1>5, <1>6
<1> QED BY <1>3, <1>7

PopsTo(h, e, out, all, orphan, n, c, min, kept) ==
    /\ e = heap[h].min_root /\ Popping(node, out, all, orphan, e, n, c, min)
    /\ kept = [m \in DOMAIN node \ {e} |-> orphan[m]]
    /\ node' = IF min = 0 THEN kept ELSE [kept EXCEPT ![kept[min].left].right = 0, ![min].left = 0]
    /\ heap' = [heap EXCEPT ![h] = [min_root |-> min, num_nodes |-> @.num_nodes - 1]]
    /\ w' = min
    /\ this' = IF min = 0 THEN 0 ELSE h
    /\ pc' = IF min = 0 THEN "rest" ELSE "visit"

LEMMA HeapPopFront ==
    ASSUME HeapInv, NEW h \in Heap, H!PopFront(h)
    PROVE  HeapInv'
<1>1. PICK kids, roots, trees, yet : HeapSound(kids, roots, trees, yet)
  BY DEF HeapInv
<1> DEFINE r == node[heap[h].min_root]
<1>30. PICK e, out, all, orphan, n, c, min, kept : PopsTo(h, e, out, all, orphan, n, c, min, kept)
  <2> DEFINE e0 == heap[h].min_root
             n0 == r.right
             c0 == r.child
             out0 == [node EXCEPT ![r.right].left = r.left, ![r.left].right = r.right]
             all0 == IF ~ (n0 = e0) /\ c0 # 0 THEN H!Joined(out0, n0, c0) ELSE out0
             orphan0 == IF c0 = 0 THEN all0 ELSE [all0 EXCEPT ![c0].parent = 0]
             min0 == IF ~ (n0 = e0) THEN IF c0 = 0 THEN n0 ELSE H!NewMin(node, c0, n0) ELSE c0
             kept0 == [m \in DOMAIN node \ {e0} |-> orphan0[m]]
  <2>1. /\ node' = IF min0 = 0 THEN kept0
                   ELSE [kept0 EXCEPT ![kept0[min0].left].right = 0, ![min0].left = 0]
        /\ heap' = [heap EXCEPT ![h] = [min_root |-> min0, num_nodes |-> @.num_nodes - 1]]
        /\ w' = min0
        /\ this' = IF min0 = 0 THEN 0 ELSE h
        /\ pc' = IF min0 = 0 THEN "rest" ELSE "visit"
    BY Zenon DEF H!PopFront, H!null
  <2>2. Popping(node, out0, all0, orphan0, e0, n0, c0, min0)
    BY Zenon DEF Popping
  <2>3. e0 = heap[h].min_root /\ kept0 = [m \in DOMAIN node \ {e0} |-> orphan0[m]]
    OBVIOUS
  <2> HIDE DEF e0, n0, c0, out0, all0, orphan0, min0, kept0
  <2>4. PopsTo(h, e0, out0, all0, orphan0, n0, c0, min0, kept0)
    BY Zenon, <2>1, <2>2, <2>3 DEF PopsTo
  <2> QED BY <2>4
<1>2. /\ e = heap[h].min_root /\ Popping(node, out, all, orphan, e, n, c, min)
      /\ kept = [m \in DOMAIN node \ {e} |-> orphan[m]]
      /\ node' = IF min = 0 THEN kept ELSE [kept EXCEPT ![kept[min].left].right = 0, ![min].left = 0]
      /\ heap' = [heap EXCEPT ![h] = [min_root |-> min, num_nodes |-> @.num_nodes - 1]]
      /\ w' = min
      /\ this' = IF min = 0 THEN 0 ELSE h
      /\ pc' = IF min = 0 THEN "rest" ELSE "visit"
  BY <1>30 DEF PopsTo
<1>3. /\ e # 0 /\ pc = "rest" /\ a' = a
      /\ bag' = [bag EXCEPT ![h][CHOOSE v \in Key : bag[h][v] > 0 /\ \A u \in Key : u < v => bag[h][u] = 0] = @ - 1]
  BY <1>2 DEF H!PopFront, H!null
<1>4. /\ node[e].key \in Key /\ bag[h][node[e].key] > 0
      /\ bag' = [bag EXCEPT ![h][node[e].key] = @ - 1]
  BY <1>1, <1>2, <1>3, LeastIs
<1>5. PICK R, K, R2, kids2, roots2, trees2 :
         /\ R = roots[h] /\ K = kids[e] /\ R2 = (R \ {e}) \cup K
         /\ kids2 = [m \in DOMAIN node \ {e} |-> kids[m]]
         /\ roots2 = [g \in Heap |-> IF g = h THEN R2 ELSE roots[g]]
         /\ trees2 = [g \in Heap |-> IF g = h THEN trees[h] \ {e} ELSE trees[g]]
  OBVIOUS
<1>6. /\ HeapOwns(node, kids, roots, trees) /\ Shape(node, kids) /\ AreNodes(node)
      /\ \A g \in Heap : /\ roots[g] \subseteq trees[g] /\ trees[g] \subseteq DOMAIN node
                         /\ RootsRing(node, heap[g].min_root, roots[g])
      /\ \A g, i \in Heap : g # i => trees[g] \cap trees[i] = {}
      /\ 0 \notin DOMAIN node
  BY <1>1, <1>3, AtRest, NodesFinite DEF HeapSound, HeapOwns, Shape, Grove
<1>7. e \in R /\ Ring(node, R) /\ e \in trees[h] /\ e \in DOMAIN node /\ R \subseteq trees[h]
  BY <1>2, <1>3, <1>5, <1>6 DEF RootsRing
<1>8. /\ \A p \in DOMAIN node : kids[p] \subseteq DOMAIN node /\ \A g \in Heap : kids[p] \cap roots[g] = {}
      /\ K \subseteq trees[h] /\ K \cap R = {} /\ e \notin K
  <2>1. \A p \in DOMAIN node : kids[p] \subseteq DOMAIN node /\ \A g \in Heap : kids[p] \cap roots[g] = {}
    BY <1>6, KidsNotRoots DEF Shape
  <2>2. K \subseteq trees[h]
    BY <1>5, <1>6, <1>7, KidsNotRoots
  <2> QED BY <1>5, <1>7, <2>1, <2>2
<1>9. \A p \in DOMAIN node : p # e => kids[p] \cap K = {}
  BY <1>5, <1>6, <1>7 DEF Shape, Heaped
<1>10. IsPopped(node, orphan, e, R, K, min)
  BY <1>2, <1>5, <1>6, <1>7, <1>8, PoppedIs
<1>11. /\ AreNodes(orphan) /\ SameTrees(node, orphan) /\ DOMAIN orphan = DOMAIN node
       /\ \A m \in DOMAIN node : m \notin K => orphan[m].parent = node[m].parent
       /\ \A m \in DOMAIN node : m \notin R \cup K =>
             orphan[m].right = node[m].right /\ orphan[m].left = node[m].left
       /\ R2 = {} => min = 0
       /\ R2 # {} => min \in R2 /\ Ring(orphan, R2)
  BY <1>5, <1>10 DEF IsPopped, IsOrphaned, SameTrees
<1>12. /\ DOMAIN kept = DOMAIN node \ {e} /\ \A m \in DOMAIN kept : kept[m] = orphan[m]
       /\ AreNodes(kept) /\ R2 \subseteq DOMAIN kept /\ 0 \notin DOMAIN kept
  <2>1. DOMAIN kept = DOMAIN node \ {e} /\ \A m \in DOMAIN kept : kept[m] = orphan[m]
    BY <1>2
  <2>2. kept \in [DOMAIN kept -> Node] /\ DOMAIN kept \subseteq 1..MaxNodes
    BY <1>2, <1>11, <2>1 DEF AreNodes
  <2>3. R2 \subseteq DOMAIN kept
    BY <1>5, <1>6, <1>7, <1>8, <2>1
  <2> QED BY <1>6, <2>1, <2>2, <2>3 DEF AreNodes
<1>13. R2 # {} => Ring(kept, R2)
  <2>1. SameLinks(orphan, kept, R2)
    BY <1>12 DEF SameLinks
  <2> QED BY <1>11, <1>12, <2>1, RingFrame
<1>14. min = 0 <=> R2 = {}
  BY <1>11, <1>12
<1>15. /\ Relinked(kept, node', R2)
       /\ min # 0 => IsList(node', R2, min) /\ Threaded(node', R2) /\ (node')[min].left = 0
  <2>1. CASE min = 0
    <3>1. node' = kept
      BY <1>2, <2>1
    <3> QED BY <1>12, <2>1, <3>1 DEF Relinked, SameTrees
  <2>2. CASE min # 0
    <3>1. node' = [kept EXCEPT ![kept[min].left].right = 0, ![min].left = 0]
      BY <1>2, <2>2
    <3>2. AreNodes(kept) /\ Ring(kept, R2) /\ min \in R2
      BY <1>11, <1>12, <1>13, <1>14, <2>2
    <3> QED BY <3>1, <3>2, OpenedIs
  <2> QED BY <2>1, <2>2
<1>16. /\ AreNodes(node') /\ DOMAIN node' = DOMAIN node \ {e}
       /\ \A m \in DOMAIN node' :
             /\ (node')[m].child = node[m].child /\ (node')[m].degree = node[m].degree
             /\ (node')[m].key = node[m].key
             /\ m \notin K => (node')[m].parent = node[m].parent
             /\ m \notin R \cup K => /\ (node')[m].right = node[m].right
                                     /\ (node')[m].left = node[m].left
  <2>1. AreNodes(node') /\ DOMAIN node' = DOMAIN kept
    BY <1>15 DEF Relinked, SameTrees
  <2>2. ASSUME NEW m \in DOMAIN kept
        PROVE  /\ (node')[m].child = node[m].child /\ (node')[m].degree = node[m].degree
               /\ (node')[m].key = node[m].key
               /\ m \notin K => (node')[m].parent = node[m].parent
               /\ m \notin R \cup K => /\ (node')[m].right = node[m].right
                                       /\ (node')[m].left = node[m].left
    <3>1. /\ (node')[m].child = kept[m].child /\ (node')[m].degree = kept[m].degree
          /\ (node')[m].key = kept[m].key /\ (node')[m].parent = kept[m].parent
          /\ m \notin R2 => /\ (node')[m].right = kept[m].right /\ (node')[m].left = kept[m].left
      BY <1>15 DEF Relinked, SameTrees
    <3>2. m \in DOMAIN node /\ kept[m] = orphan[m] /\ (m \notin R \cup K => m \notin R2)
      BY <1>5, <1>12
    <3>3. /\ orphan[m].child = node[m].child /\ orphan[m].degree = node[m].degree
          /\ orphan[m].key = node[m].key
      BY <1>11, <3>2 DEF SameTrees
    <3> QED BY <1>11, <3>1, <3>2, <3>3
  <2> QED BY <1>12, <2>1, <2>2
<1>17. PICK base : base = [m \in DOMAIN node \ {e} |-> node[m]]
  OBVIOUS
<1>18. Shape(node', kids2)
  <2>1. KidsStay(kids, DOMAIN node \ {e})
    BY <1>5, <1>7, <1>8 DEF KidsStay
  <2>2. Shape(base, kids2)
    <3>1. DOMAIN node \ {e} \in SUBSET DOMAIN node
      OBVIOUS
    <3> QED BY <1>5, <1>6, <1>17, <2>1, <3>1, ShapeRestricted
  <2>3. DOMAIN base = DOMAIN node' /\ \A m \in DOMAIN base : base[m] = node[m]
    BY <1>16, <1>17
  <2>4. SameTrees(base, node')
    BY <1>16, <2>3 DEF SameTrees
  <2>5. ASSUME NEW p \in DOMAIN base, NEW k \in kids2[p]
        PROVE  /\ (node')[k].right = base[k].right /\ (node')[k].left = base[k].left
               /\ (node')[k].parent = base[k].parent
    <3>1. kids2[p] = kids[p] /\ p \in DOMAIN node /\ p # e
      BY <1>5, <1>17
    <3>2. k \notin R /\ k \notin K /\ k \in DOMAIN node /\ k # e
      BY <1>5, <1>7, <1>8, <1>9, <3>1
    <3>3. k \in DOMAIN node' /\ base[k] = node[k]
      BY <1>16, <1>17, <3>2
    <3> QED BY <1>16, <3>2, <3>3
  <2> QED BY <1>16, <2>2, <2>4, <2>5, ShapeKept
<1>19. HeapOwns(node', kids2, roots2, trees2)
  <2>1. DOMAIN kids2 = DOMAIN node \ {e} /\ \A m \in DOMAIN kids2 : kids2[m] = kids[m]
    BY <1>5
  <2>2. roots2 \in [Heap -> SUBSET DOMAIN node'] /\ trees2 \in [Heap -> SUBSET DOMAIN node']
    <3>1. \A g \in Heap : g # h => e \notin trees[g]
      BY <1>6, <1>7
    <3> QED BY <1>5, <1>6, <1>12, <1>16, <3>1
  <2>3. ASSUME NEW g \in Heap PROVE Grove(kids2, roots2[g], trees2[g])
    <3>1. Grove(kids, roots[g], trees[g]) /\ trees[g] \subseteq DOMAIN node
      BY <1>6 DEF HeapOwns
    <3>2. CASE g = h
      <4>1. roots2[g] = R2 /\ trees2[g] = trees[h] \ {e} /\ R = roots[h]
        BY <1>5, <3>2
      <4>2. \A p \in trees[h] \ {e} :
               /\ p \in DOMAIN kids2 /\ kids2[p] = kids[p] /\ kids[p] \cap K = {} /\ kids[p] \cap R = {}
               /\ kids[p] \subseteq trees[h] /\ e \notin kids[p]
        BY <1>5, <1>7, <1>8, <1>9, <2>1, <3>1, <3>2 DEF Grove, KidsStay
      <4>3. ASSUME NEW m \in (trees[h] \ {e}) \ R2 PROVE \E p \in trees[h] \ {e} : m \in kids2[p]
        <5>1. m \in trees[h] \ roots[h] /\ m \notin K
          BY <1>5
        <5>2. PICK p \in trees[h] : m \in kids[p]
          BY <3>1, <3>2, <5>1 DEF Grove
        <5>3. p # e
          BY <1>5, <5>1, <5>2
        <5> QED BY <4>2, <5>2, <5>3
      <4>4. R2 \subseteq trees[h] \ {e} /\ trees[h] \ {e} \subseteq DOMAIN kids2
        BY <1>5, <1>7, <1>8, <4>2
      <4>5. KidsStay(kids2, trees[h] \ {e})
        BY <4>2 DEF KidsStay
      <4>6. \A p \in trees[h] \ {e} : kids2[p] \cap R2 = {}
        BY <1>5, <4>2
      <4> QED BY <4>1, <4>3, <4>4, <4>5, <4>6 DEF Grove
    <3>3. CASE g # h
      <4>1. roots2[g] = roots[g] /\ trees2[g] = trees[g]
        BY <1>5, <3>3
      <4>2. e \notin trees[g]
        BY <1>6, <1>7, <3>3
      <4>3. \A p \in trees[g] : p \in DOMAIN kids2 /\ kids2[p] = kids[p]
        BY <2>1, <3>1, <4>2
      <4> QED BY <3>1, <4>1, <4>3 DEF Grove, KidsStay
    <3> QED BY <3>2, <3>3
  <2>4. \A g, i \in Heap : g # i => trees2[g] \cap trees2[i] = {}
    BY <1>5, <1>6
  <2>5. \A m \in DOMAIN node' : \E g \in Heap : m \in trees2[g]
    <3>1. \A m \in DOMAIN node : \E g \in Heap : m \in trees[g]
      BY <1>6 DEF HeapOwns
    <3> QED BY <1>5, <1>16, <3>1
  <2> QED BY <1>18, <2>2, <2>3, <2>4, <2>5 DEF HeapOwns
<1>20. heap \in [Heap -> [min_root : Nat, num_nodes : Nat]] /\ bag \in [Heap -> [Key -> Nat]]
  BY <1>1 DEF HeapSound, HeapCounts
<1>21. /\ Counted(node, trees[h] \ {e}, heap[h].num_nodes - 1, [bag[h] EXCEPT ![node[e].key] = @ - 1])
       /\ heap[h].num_nodes - 1 \in Nat /\ bag[h][node[e].key] - 1 \in Nat
  <2>1. Counted(node, trees[h], heap[h].num_nodes, bag[h]) /\ IsFiniteSet(trees[h])
    BY <1>1, CountsAre
  <2>2. bag[h] \in [Key -> Nat]
    BY <1>20
  <2> QED BY <1>4, <1>7, <2>1, <2>2, CountedLess
<1>22. min \in Nat
  BY <1>11, <1>12, <1>14 DEF AreNodes
<1>23. /\ heap' \in [Heap -> [min_root : Nat, num_nodes : Nat]]
       /\ heap'[h].min_root = min /\ heap'[h].num_nodes = heap[h].num_nodes - 1
       /\ \A g \in Heap : g # h => heap'[g] = heap[g]
  <2> DEFINE one == [min_root |-> min, num_nodes |-> heap[h].num_nodes - 1]
  <2>1. /\ one \in [min_root : Nat, num_nodes : Nat]
        /\ one.min_root = min /\ one.num_nodes = heap[h].num_nodes - 1
    BY <1>21, <1>22
  <2>2. heap' = [heap EXCEPT ![h] = one]
    BY <1>2
  <2> HIDE DEF one
  <2> QED BY <1>20, <2>1, <2>2
<1>24. /\ bag' \in [Heap -> [Key -> Nat]]
       /\ bag'[h] = [bag[h] EXCEPT ![node[e].key] = @ - 1]
       /\ \A g \in Heap : g # h => bag'[g] = bag[g]
  <2> DEFINE one == [bag[h] EXCEPT ![node[e].key] = @ - 1]
  <2>1. one \in [Key -> Nat]
    BY <1>4, <1>20, <1>21
  <2>2. bag' = [bag EXCEPT ![h] = one]
    BY <1>4
  <2>3. one = [bag[h] EXCEPT ![node[e].key] = @ - 1]
    OBVIOUS
  <2> HIDE DEF one
  <2>4. bag' \in [Heap -> [Key -> Nat]] /\ bag'[h] = one
    BY <1>20, <2>1, <2>2
  <2> QED BY <1>20, <2>2, <2>3, <2>4
<1>25. ASSUME NEW g \in Heap PROVE Counted(node', trees2[g], heap'[g].num_nodes, bag'[g])
  <2>1. Counted(node, trees2[g], heap'[g].num_nodes, bag'[g])
    <3>1. CASE g = h
      BY <1>5, <1>21, <1>23, <1>24, <3>1
    <3>2. CASE g # h
      <4>1. Counted(node, trees[g], heap[g].num_nodes, bag[g])
        BY <1>1, CountsAre
      <4> QED BY <1>5, <1>23, <1>24, <3>2, <4>1
    <3> QED BY <3>1, <3>2
  <2>2. \A m \in trees2[g] : (node')[m].key = node[m].key
    BY <1>16, <1>19 DEF HeapOwns
  <2> QED BY <2>1, <2>2, CountedFrame
<1>26. ASSUME NEW g \in Heap, g # h PROVE RootsRing(node', heap'[g].min_root, roots2[g])
  <2>1. roots2[g] = roots[g] /\ heap'[g] = heap[g] /\ RootsRing(node, heap[g].min_root, roots[g])
    BY <1>5, <1>6, <1>23, <1>26
  <2>2. \A m \in roots[g] : m \in DOMAIN node' /\ m \notin R \cup K
    BY <1>6, <1>7, <1>8, <1>16, <1>26
  <2>3. roots[g] \subseteq DOMAIN node' /\
        \A m \in roots[g] : /\ (node')[m].right = node[m].right /\ (node')[m].left = node[m].left
                            /\ (node')[m].parent = node[m].parent /\ (node')[m].key = node[m].key
    BY <1>16, <2>2
  <2> QED BY <2>1, <2>3, RootsRingFrame
<1>27. DOMAIN a' = {} /\ a' = a
  BY <1>1, <1>3, AtRest
<1>28. CASE min = 0
  <2>1. RootsRing(node', heap'[h].min_root, roots2[h])
    BY <1>5, <1>14, <1>23, <1>28 DEF RootsRing
  <2>2. pc' = "rest" /\ this' = 0 /\ w' = 0
    BY <1>2, <1>28
  <2>3. \A g \in Heap : RootsRing(node', heap'[g].min_root, roots2[g])
    BY <1>26, <2>1
  <2> QED BY <1>19, <1>23, <1>24, <1>25, <1>27, <2>2, <2>3, RestKept
<1>29. CASE min # 0
  <2>1. pc' = "visit" /\ this' = h /\ w' = min
    BY <1>2, <1>29
  <2>2. HeapCounts(trees2)'
    BY <1>23, <1>24, <1>25 DEF HeapCounts, Counted, With
  <2>3. Placed' = {}
    BY <1>27 DEF Placed
  <2>4. Visiting(R2, R2)'
    <3>1. min \in R2 /\ (node')[min].left = 0 /\ 0 \notin R2
      BY <1>11, <1>12, <1>14, <1>15, <1>29
    <3> QED BY <1>15, <1>29, <2>1, <2>3, <3>1 DEF Visiting
  <2>5. \A g \in Heap : heap'[g].min_root \in DOMAIN node' \cup {0}
    <3>1. min \in DOMAIN node'
      BY <1>11, <1>12, <1>14, <1>16, <1>29
    <3>2. \A g \in Heap : g # h => heap'[g].min_root \in DOMAIN node' \cup {0}
      BY <1>26 DEF RootsRing, Ring
    <3> QED BY <1>23, <3>1, <3>2
  <2>6. HeapStage(roots2, R2)'
    <3>1. roots2[h] = R2
      BY <1>5
    <3> QED BY <1>26, <1>27, <2>1, <2>4, <2>5, <3>1 DEF HeapStage
  <2>7. HeapSound(kids2, roots2, trees2, R2)'
    BY <1>19, <2>2, <2>6 DEF HeapSound
  <2> QED BY <2>7 DEF HeapInv
<1> QED BY <1>28, <1>29

-----------------------------------------------------------------------------
(* The steps of consolidate().                                              *)

LEMMA ListAdvances ==
    ASSUME NEW nodes, NEW L, NEW n, IsList(nodes, L, n), n # 0, NEW R, Threaded(nodes, R), L \subseteq R,
           0 \notin DOMAIN nodes, nodes[n].left \notin L
    PROVE  /\ IsList(nodes, L \ {n}, nodes[n].right)
           /\ nodes[n].right # 0 => nodes[nodes[n].right].left = n
<1>1. n \in L /\ L \subseteq DOMAIN nodes /\ RightStays(nodes, L)
  BY DEF IsList
<1>2. nodes[n].right # 0 => nodes[nodes[n].right].left = n /\ nodes[n].right \in L
  BY <1>1 DEF Threaded, RightStays
<1>3. nodes[n].right = 0 => L \ {n} = {}
  <2> SUFFICES ASSUME nodes[n].right = 0 PROVE L \subseteq {n}
    OBVIOUS
  <2>1. {n} \in SUBSET DOMAIN nodes /\ n \in {n} /\ RightStays(nodes, {n})
    BY <1>1 DEF RightStays
  <2> QED BY <2>1 DEF IsList
<1>4. nodes[n].right # 0 => nodes[n].right \in L \ {n}
  BY <1>1, <1>2
<1>5. RightStays(nodes, L \ {n})
  <2> SUFFICES ASSUME NEW m \in L \ {n}, nodes[m].right # 0 PROVE nodes[m].right \in L \ {n}
    BY DEF RightStays
  <2>1. nodes[m].right \in L /\ nodes[nodes[m].right].left = m
    BY <1>1 DEF RightStays, Threaded
  <2> QED BY <2>1
<1>6. ASSUME NEW S \in SUBSET DOMAIN nodes, nodes[n].right \in S, RightStays(nodes, S)
      PROVE  L \ {n} \subseteq S
  <2>1. S \cup {n} \in SUBSET DOMAIN nodes /\ RightStays(nodes, S \cup {n})
    BY <1>1, <1>6 DEF RightStays
  <2>2. L \subseteq S \cup {n}
    BY <2>1 DEF IsList
  <2> QED BY <2>2
<1> QED BY <1>1, <1>2, <1>3, <1>4, <1>5, <1>6 DEF IsList

LEMMA HeapVisit ==
    ASSUME HeapInv, H!Visit
    PROVE  HeapInv'
<1>1. PICK kids, roots, trees, yet : HeapSound(kids, roots, trees, yet)
  BY DEF HeapInv
<1>2. /\ pc = "visit" /\ pc' = "link" /\ x' = w /\ w' = node[w].right /\ d' = node[w].degree
      /\ node' = node /\ heap' = heap /\ this' = this /\ a' = a /\ bag' = bag
  BY DEF H!Visit
<1>3. PICK R, rest : R = roots[this] /\ rest = yet \ {w}
  OBVIOUS
<1>4. /\ Visiting(R, yet) /\ 0 \notin DOMAIN node /\ Placed' = Placed
  BY <1>1, <1>2, <1>3, LinksFollow DEF HeapSound, HeapStage, Placed
<1>5. /\ IsList(node, yet, w) /\ yet \cap Placed = {} /\ Threaded(node, R)
      /\ w # 0 /\ node[w].left \notin yet /\ R = yet \cup Placed /\ w \in yet
  BY <1>2, <1>4 DEF Visiting, IsList
<1>6. /\ IsList(node, rest, node[w].right)
      /\ node[w].right # 0 => node[node[w].right].left = w
  BY <1>3, <1>4, <1>5, ListAdvances
<1>7. Visiting(R, rest)'
  BY <1>2, <1>3, <1>4, <1>5, <1>6 DEF Visiting
<1>8. HeapStage(roots, rest)'
  BY <1>1, <1>2, <1>3, <1>7 DEF HeapSound, HeapStage
<1>9. HeapCounts(trees)' /\ HeapOwns(node', kids, roots, trees)
  BY <1>1, <1>2 DEF HeapSound, HeapCounts
<1>10. HeapSound(kids, roots, trees, rest)'
  BY <1>8, <1>9 DEF HeapSound
<1> QED BY <1>10 DEF HeapInv

LEMMA HeapPlace ==
    ASSUME HeapInv, H!Place
    PROVE  HeapInv'
<1>1. PICK kids, roots, trees, yet : HeapSound(kids, roots, trees, yet)
  BY DEF HeapInv
<1>2. /\ pc = "link" /\ d \notin DOMAIN a
      /\ a' = [k \in DOMAIN a \cup {d} |-> IF k = d THEN x ELSE a[k]]
      /\ pc' = IF w = 0 THEN "rebuild" ELSE "visit"
      /\ heap' = IF w = 0 THEN [heap EXCEPT ![this].min_root = 0] ELSE heap
      /\ node' = node /\ this' = this /\ w' = w /\ bag' = bag
  BY DEF H!Place, H!null
<1>3. PICK R : R = roots[this]
  OBVIOUS
<1>4. /\ Visiting(R, yet) /\ this \in Heap /\ R \subseteq DOMAIN node /\ AreNodes(node)
      /\ \A k \in DOMAIN a : a[k] \in R /\ node[a[k]].degree = k
      /\ DOMAIN a \subseteq Nat
  BY <1>1, <1>2, <1>3 DEF HeapSound, HeapStage, HeapOwns, Shape
<1>5. /\ IsList(node, yet, w) /\ yet \cap Placed = {} /\ Threaded(node, R)
      /\ w # 0 => node[w].left \notin yet
      /\ R = yet \cup Placed \cup {x} /\ x \notin yet \cup Placed /\ node[x].degree = d
  BY <1>2, <1>4 DEF Visiting
<1>6. Placed' = Placed \cup {x}
  <2>1. /\ DOMAIN a' = DOMAIN a \cup {d} /\ a'[d] = x
        /\ \A k \in DOMAIN a : a'[k] = a[k]
    BY <1>2
  <2> QED BY <2>1 DEF Placed
<1>7. /\ DOMAIN a' = DOMAIN a \cup {d} /\ d \in Nat
      /\ \A k \in DOMAIN a' : a'[k] \in R /\ (node')[a'[k]].degree = k
  <2>1. x \in R /\ x \in DOMAIN node /\ d \in Nat
    BY <1>4, <1>5 DEF AreNodes, Node
  <2> QED BY <1>2, <1>4, <1>5, <2>1
<1>8. heap \in [Heap -> [min_root : Nat, num_nodes : Nat]]
  BY <1>1 DEF HeapSound, HeapCounts
<1>9. /\ heap' \in [Heap -> [min_root : Nat, num_nodes : Nat]]
      /\ \A g \in Heap : heap'[g].num_nodes = heap[g].num_nodes
      /\ \A g \in Heap : g # this => heap'[g] = heap[g]
      /\ heap'[this].min_root = IF w = 0 THEN 0 ELSE heap[this].min_root
  <2>1. CASE w = 0
    <3> DEFINE one == [heap[this] EXCEPT !.min_root = 0]
    <3>1. /\ one \in [min_root : Nat, num_nodes : Nat] /\ one.min_root = 0
          /\ one.num_nodes = heap[this].num_nodes
      BY <1>4, <1>8
    <3>2. heap' = [heap EXCEPT ![this] = one]
      BY <1>2, <2>1
    <3> HIDE DEF one
    <3> QED BY <1>4, <1>8, <2>1, <3>1, <3>2
  <2>2. CASE w # 0
    BY <1>2, <1>8, <2>2
  <2> QED BY <2>1, <2>2
<1>10. HeapCounts(trees)'
  BY <1>1, <1>2, <1>9 DEF HeapSound, HeapCounts
<1>11. HeapOwns(node', kids, roots, trees)
  BY <1>1, <1>2 DEF HeapSound
<1>12. /\ \A g \in Heap : heap'[g].min_root \in DOMAIN node' \cup {0}
       /\ \A g \in Heap : g # this' => RootsRing(node', heap'[g].min_root, roots[g])
  BY <1>1, <1>2, <1>4, <1>9 DEF HeapSound, HeapStage
<1>13. CASE w # 0
  <2>1. pc' = "visit"
    BY <1>2, <1>13
  <2>2. Visiting(R, yet)'
    BY <1>2, <1>5, <1>6, <1>13, <2>1 DEF Visiting
  <2>3. HeapStage(roots, yet)'
    BY <1>2, <1>3, <1>4, <1>7, <1>12, <2>1, <2>2 DEF HeapStage
  <2>4. HeapSound(kids, roots, trees, yet)'
    BY <1>10, <1>11, <2>3 DEF HeapSound
  <2> QED BY <2>4 DEF HeapInv
<1>14. CASE w = 0
  <2>1. pc' = "rebuild" /\ w' = 0
    BY <1>2, <1>14
  <2>2. R = Placed' /\ R \ Placed' = {}
    BY <1>5, <1>6, <1>14 DEF IsList
  <2>3. Rebuilding(R)'
    <3>1. RootsRing(node', heap'[this'].min_root, R \ Placed')
      BY <1>2, <1>9, <1>14, <2>2 DEF RootsRing
    <3>2. \A m \in Placed' : /\ (node')[m].right \in DOMAIN node' \cup {0}
                             /\ (node')[m].left \in DOMAIN node' \cup {0}
      BY <1>2, <1>4, <1>5, <2>2 DEF Threaded
    <3>3. DOMAIN a' # {}
      BY <1>7
    <3> QED BY <2>1, <3>1, <3>2, <3>3 DEF Rebuilding
  <2>4. HeapStage(roots, yet)'
    BY <1>2, <1>3, <1>4, <1>7, <1>12, <2>1, <2>3 DEF HeapStage
  <2>5. HeapSound(kids, roots, trees, yet)'
    BY <1>10, <1>11, <2>4 DEF HeapSound
  <2> QED BY <2>5 DEF HeapInv
<1> QED BY <1>13, <1>14

LEMMA HeapAddToRootList ==
    ASSUME HeapInv, H!AddToRootList
    PROVE  HeapInv'
<1>1. PICK kids, roots, trees, yet : HeapSound(kids, roots, trees, yet)
  BY DEF HeapInv
<1> DEFINE min == heap[this].min_root
<1>2. PICK k \in DOMAIN a :
         /\ node' = H!Inserted(node, a[k], min)
         /\ heap' = [heap EXCEPT ![this].min_root = H!NewMin(node, a[k], @)]
         /\ a' = [l \in DOMAIN a \ {k} |-> a[l]]
  BY DEF H!AddToRootList
<1>3. /\ pc = "rebuild" /\ w' = w /\ bag' = bag
      /\ pc' = IF DOMAIN a' = {} THEN "rest" ELSE pc
      /\ this' = IF DOMAIN a' = {} THEN 0 ELSE this
  BY DEF H!AddToRootList, H!null
<1>4. PICK R, B, n : R = roots[this] /\ B = R \ Placed /\ n = a[k]
  OBVIOUS
<1>5. /\ Rebuilding(R) /\ this \in Heap
      /\ \A l \in DOMAIN a : a[l] \in R /\ node[a[l]].degree = l
      /\ DOMAIN a \subseteq Nat
  BY <1>1, <1>3, <1>4 DEF HeapSound, HeapStage
<1>6. /\ HeapOwns(node, kids, roots, trees) /\ Shape(node, kids) /\ AreNodes(node)
      /\ \A g \in Heap : roots[g] \subseteq trees[g] /\ trees[g] \subseteq DOMAIN node
      /\ \A g, i \in Heap : g # i => trees[g] \cap trees[i] = {}
      /\ \A g \in Heap : g # this => RootsRing(node, heap[g].min_root, roots[g])
  BY <1>1 DEF HeapSound, HeapStage, HeapOwns, Shape, Grove
<1>7. /\ w = 0 /\ RootsRing(node, min, B) /\ n \in Placed /\ n \in R /\ n \in DOMAIN node /\ n \notin B
      /\ \A m \in Placed : node[m].right \in DOMAIN node \cup {0} /\ node[m].left \in DOMAIN node \cup {0}
  BY <1>2, <1>4, <1>5, <1>6 DEF Rebuilding, Placed
<1>8. IsInserted(node, node', n, min, B)
  <2> HIDE DEF min
  <2>1. node' = H!Inserted(node, n, min)
    BY <1>2, <1>4
  <2> QED BY <1>6, <1>7, <2>1, InsertedIs
<1>9. /\ AreNodes(node') /\ SameTrees(node, node') /\ DOMAIN node' = DOMAIN node
      /\ \A m \in DOMAIN node : (node')[m].key = node[m].key /\ (node')[m].degree = node[m].degree
      /\ \A m \in DOMAIN node : m # n => (node')[m].parent = node[m].parent
      /\ \A m \in DOMAIN node : m \notin B \cup {n} =>
            (node')[m].right = node[m].right /\ (node')[m].left = node[m].left
      /\ RootsRing(node', H!NewMin(node, n, min), B \cup {n})
  BY <1>8 DEF IsInserted, SameTrees
<1>10. Placed' = Placed \ {n} /\ DOMAIN a' = DOMAIN a \ {k} /\ \A l \in DOMAIN a' : a'[l] = a[l]
  <2>1. DOMAIN a' = DOMAIN a \ {k} /\ \A l \in DOMAIN a' : a'[l] = a[l]
    BY <1>2
  <2>2. \A l \in DOMAIN a : a[l] = n => l = k
    BY <1>4, <1>5
  <2> QED BY <1>4, <2>1, <2>2 DEF Placed
<1>11. R \ Placed' = B \cup {n}
  BY <1>4, <1>7, <1>10
<1>12. Shape(node', kids)
  <2>1. \A p \in DOMAIN node : kids[p] \subseteq DOMAIN node /\ kids[p] \cap R = {}
    BY <1>4, <1>5, <1>6, KidsNotRoots DEF Shape
  <2>2. ASSUME NEW p \in DOMAIN node, NEW e \in kids[p]
        PROVE  /\ (node')[e].right = node[e].right /\ (node')[e].left = node[e].left
               /\ (node')[e].parent = node[e].parent
    <3>1. e \in DOMAIN node /\ e \notin B \cup {n}
      BY <1>4, <1>7, <2>1
    <3> QED BY <1>9, <3>1
  <2> QED BY <1>6, <1>9, <2>2, ShapeKept
<1>13. HeapOwns(node', kids, roots, trees)
  BY <1>6, <1>9, <1>12 DEF HeapOwns
<1>14. heap \in [Heap -> [min_root : Nat, num_nodes : Nat]] /\ bag \in [Heap -> [Key -> Nat]]
  BY <1>1 DEF HeapSound, HeapCounts
<1>15. /\ heap' \in [Heap -> [min_root : Nat, num_nodes : Nat]]
       /\ \A g \in Heap : heap'[g].num_nodes = heap[g].num_nodes
       /\ \A g \in Heap : g # this => heap'[g] = heap[g]
       /\ heap'[this].min_root = H!NewMin(node, n, min)
  <2> DEFINE one == [heap[this] EXCEPT !.min_root = H!NewMin(node, n, min)]
  <2>1. H!NewMin(node, n, min) \in Nat
    BY <1>9, MinIsRoot
  <2>2. /\ one \in [min_root : Nat, num_nodes : Nat] /\ one.min_root = H!NewMin(node, n, min)
        /\ one.num_nodes = heap[this].num_nodes
    BY <1>5, <1>14, <2>1
  <2>3. heap' = [heap EXCEPT ![this] = one]
    BY <1>2, <1>4
  <2> HIDE DEF one, min
  <2> QED BY <1>5, <1>14, <2>2, <2>3
<1>16. ASSUME NEW g \in Heap PROVE Counted(node', trees[g], heap'[g].num_nodes, bag'[g])
  <2>1. Counted(node, trees[g], heap'[g].num_nodes, bag'[g])
    BY <1>1, <1>3, <1>15, CountsAre
  <2>2. \A m \in trees[g] : (node')[m].key = node[m].key
    BY <1>6, <1>9
  <2> QED BY <2>1, <2>2, CountedFrame
<1>17. ASSUME NEW g \in Heap, g # this PROVE RootsRing(node', heap'[g].min_root, roots[g])
  <2>1. \A m \in roots[g] : m \in DOMAIN node /\ m \notin B \cup {n} /\ m # n
    BY <1>4, <1>5, <1>6, <1>7, <1>17
  <2>2. /\ roots[g] \subseteq DOMAIN node'
        /\ \A m \in roots[g] : /\ (node')[m].right = node[m].right /\ (node')[m].left = node[m].left
                               /\ (node')[m].parent = node[m].parent /\ (node')[m].key = node[m].key
    BY <1>9, <2>1
  <2>3. RootsRing(node, heap[g].min_root, roots[g]) /\ heap'[g] = heap[g]
    BY <1>6, <1>15, <1>17
  <2> QED BY <2>2, <2>3, RootsRingFrame
<1>18. RootsRing(node', heap'[this].min_root, R \ Placed')
  BY <1>9, <1>11, <1>15
<1>19. CASE DOMAIN a' = {}
  <2>1. pc' = "rest" /\ this' = 0 /\ w' = 0
    BY <1>3, <1>7, <1>19
  <2>2. R \ Placed' = R
    BY <1>19 DEF Placed
  <2>3. \A g \in Heap : RootsRing(node', heap'[g].min_root, roots[g])
    BY <1>4, <1>17, <1>18, <2>2
  <2>4. bag' \in [Heap -> [Key -> Nat]]
    BY <1>3, <1>14
  <2> QED BY <1>13, <1>15, <1>16, <1>19, <2>1, <2>3, <2>4, RestKept
<1>20. CASE DOMAIN a' # {}
  <2>1. pc' = "rebuild" /\ this' = this /\ w' = 0
    BY <1>3, <1>7, <1>20
  <2>2. HeapCounts(trees)'
    BY <1>3, <1>14, <1>15, <1>16 DEF HeapCounts, Counted, With
  <2>3. Rebuilding(R)'
    <3>1. \A m \in Placed' : /\ (node')[m].right \in DOMAIN node' \cup {0}
                             /\ (node')[m].left \in DOMAIN node' \cup {0}
      <4> SUFFICES ASSUME NEW m \in Placed'
                   PROVE  /\ (node')[m].right \in DOMAIN node' \cup {0}
                          /\ (node')[m].left \in DOMAIN node' \cup {0}
        OBVIOUS
      <4>1. m \in Placed /\ m # n
        BY <1>10
      <4>2. m \in R
        BY <1>5, <4>1 DEF Placed
      <4>3. m \notin B \cup {n} /\ m \in DOMAIN node
        BY <1>4, <1>5, <1>6, <4>1, <4>2
      <4> QED BY <1>7, <1>9, <4>1, <4>3
    <3> QED BY <1>18, <1>20, <2>1, <3>1 DEF Rebuilding
  <2>4. \A g \in Heap : heap'[g].min_root \in DOMAIN node' \cup {0}
    BY <1>17, <1>18 DEF RootsRing, Ring
  <2>5. \A l \in DOMAIN a' : a'[l] \in R /\ (node')[a'[l]].degree = l
    BY <1>4, <1>5, <1>6, <1>9, <1>10
  <2>6. HeapStage(roots, yet)'
    BY <1>4, <1>5, <1>10, <1>17, <2>1, <2>3, <2>4, <2>5 DEF HeapStage
  <2>7. HeapSound(kids, roots, trees, yet)'
    BY <1>13, <2>2, <2>6 DEF HeapSound
  <2> QED BY <2>7 DEF HeapInv
<1> QED BY <1>19, <1>20

\* A node of a list gives its links to its neighbours.
CutOff(nodes, l, r) ==
    LET cut1 == IF r = 0 THEN nodes ELSE [nodes EXCEPT ![r].left = l]
    IN IF l = 0 THEN cut1 ELSE [cut1 EXCEPT ![l].right = r]

IsCutOff(nodes, nodes2, l, r) ==
    /\ AreNodes(nodes2) /\ DOMAIN nodes2 = DOMAIN nodes
    /\ \A m \in DOMAIN nodes :
         /\ nodes2[m].right = IF m = l THEN r ELSE nodes[m].right
         /\ nodes2[m].left = IF m = r THEN l ELSE nodes[m].left
         /\ nodes2[m].parent = nodes[m].parent /\ nodes2[m].child = nodes[m].child
         /\ nodes2[m].degree = nodes[m].degree /\ nodes2[m].key = nodes[m].key

LEMMA CutOffIs ==
    ASSUME NEW nodes, AreNodes(nodes), NEW l \in DOMAIN nodes \cup {0}, NEW r \in DOMAIN nodes \cup {0}
    PROVE  IsCutOff(nodes, CutOff(nodes, l, r), l, r)
<1>1. PICK half, last :
         /\ half = IF r = 0 THEN nodes ELSE [nodes EXCEPT ![r].left = l]
         /\ last = IF l = 0 THEN half ELSE [half EXCEPT ![l].right = r]
  OBVIOUS
<1>2. last = CutOff(nodes, l, r)
  BY <1>1 DEF CutOff
<1>3. 0 \notin DOMAIN nodes /\ l \in Nat /\ r \in Nat
  BY NodesFinite DEF AreNodes
<1>4. /\ AreNodes(half) /\ DOMAIN half = DOMAIN nodes
      /\ \A m \in DOMAIN nodes :
           /\ half[m].left = IF m = r THEN l ELSE nodes[m].left
           /\ half[m].right = nodes[m].right
           /\ half[m].parent = nodes[m].parent /\ half[m].child = nodes[m].child
           /\ half[m].degree = nodes[m].degree /\ half[m].key = nodes[m].key
  <2>1. CASE r = 0
    BY <1>1, <1>3, <2>1
  <2>2. CASE r # 0
    <3>1. half = [nodes EXCEPT ![r].left = l] /\ r \in DOMAIN nodes
      BY <1>1, <2>2
    <3>2. SetsLeft(nodes, half, r, l)
      BY <1>3, <3>1, LeftSet
    <3> QED BY Zenon, <3>2 DEF SetsLeft
  <2> QED BY <2>1, <2>2
<1>5. /\ AreNodes(last) /\ DOMAIN last = DOMAIN nodes
      /\ \A m \in DOMAIN nodes :
           /\ last[m].right = IF m = l THEN r ELSE half[m].right
           /\ last[m].left = half[m].left
           /\ last[m].parent = half[m].parent /\ last[m].child = half[m].child
           /\ last[m].degree = half[m].degree /\ last[m].key = half[m].key
  <2>1. CASE l = 0
    BY <1>1, <1>3, <1>4, <2>1
  <2>2. CASE l # 0
    <3>1. last = [half EXCEPT ![l].right = r] /\ l \in DOMAIN half
      BY <1>1, <1>4, <2>2
    <3>2. SetsRight(half, last, l, r)
      BY <1>3, <1>4, <3>1, RightSet
    <3>3. DOMAIN half = DOMAIN nodes
      BY <1>4
    <3> QED BY Zenon, <3>2, <3>3 DEF SetsRight
  <2> QED BY <2>1, <2>2
<1>6. IsCutOff(nodes, last, l, r)
  BY <1>4, <1>5 DEF IsCutOff
<1> QED BY <1>2, <1>6

\* y becomes a child of z.
Given(nodes, y, z) == [nodes EXCEPT ![y].parent = z, ![z].degree = @ + 1]

IsGiven(nodes, nodes2, y, z) ==
    /\ AreNodes(nodes2) /\ DOMAIN nodes2 = DOMAIN nodes
    /\ \A m \in DOMAIN nodes :
         /\ nodes2[m].parent = IF m = y THEN z ELSE nodes[m].parent
         /\ nodes2[m].degree = IF m = z THEN nodes[z].degree + 1 ELSE nodes[m].degree
         /\ nodes2[m].left = nodes[m].left /\ nodes2[m].right = nodes[m].right
         /\ nodes2[m].child = nodes[m].child /\ nodes2[m].key = nodes[m].key

LEMMA GivenIs ==
    ASSUME NEW nodes, AreNodes(nodes), NEW y \in DOMAIN nodes, NEW z \in DOMAIN nodes, y # z
    PROVE  IsGiven(nodes, Given(nodes, y, z), y, z)
<1>1. PICK half1, last :
         /\ half1 = [nodes EXCEPT ![y].parent = z]
         /\ last = [half1 EXCEPT ![z].degree = nodes[z].degree + 1]
  OBVIOUS
<1>2. last = Given(nodes, y, z)
  BY <1>1 DEF Given
<1>3. z \in Nat
  BY DEF AreNodes
<1>4. SetsParent(nodes, half1, y, z)
  BY <1>1, <1>3, ParentSet
<1>5. AreNodes(half1) /\ DOMAIN half1 = DOMAIN nodes
  BY Zenon, <1>4 DEF SetsParent
<1>6. ASSUME NEW m \in DOMAIN nodes
      PROVE  /\ half1[m].parent = (IF m = y THEN z ELSE nodes[m].parent)
             /\ half1[m].left = nodes[m].left /\ half1[m].right = nodes[m].right
             /\ half1[m].child = nodes[m].child /\ half1[m].degree = nodes[m].degree
             /\ half1[m].key = nodes[m].key
  BY Zenon, <1>4 DEF SetsParent
<1>7. SetsDegree(half1, last, z, nodes[z].degree + 1)
  <2>1. nodes[z].degree + 1 \in Nat
    BY DEF AreNodes, Node
  <2> QED BY <1>1, <1>5, <2>1, DegreeSet
<1>8. AreNodes(last) /\ DOMAIN last = DOMAIN nodes
  BY Zenon, <1>7, <1>5 DEF SetsDegree
<1>9. ASSUME NEW m \in DOMAIN nodes
      PROVE  /\ last[m].degree = (IF m = z THEN nodes[z].degree + 1 ELSE half1[m].degree)
             /\ last[m].left = half1[m].left /\ last[m].right = half1[m].right
             /\ last[m].parent = half1[m].parent /\ last[m].child = half1[m].child
             /\ last[m].key = half1[m].key
  BY Zenon, <1>7, <1>5 DEF SetsDegree
<1> QED BY <1>2, <1>3, <1>8, <1>6, <1>9 DEF IsGiven

OnlyChild(nodes, y, z) == [nodes EXCEPT ![y].left = y, ![y].right = y, ![z].child = y]

IsOnlyChild(nodes, nodes2, y, z) ==
    /\ AreNodes(nodes2) /\ DOMAIN nodes2 = DOMAIN nodes
    /\ \A m \in DOMAIN nodes :
         /\ nodes2[m].left = IF m = y THEN y ELSE nodes[m].left
         /\ nodes2[m].right = IF m = y THEN y ELSE nodes[m].right
         /\ nodes2[m].child = IF m = z THEN y ELSE nodes[m].child
         /\ nodes2[m].parent = nodes[m].parent /\ nodes2[m].degree = nodes[m].degree
         /\ nodes2[m].key = nodes[m].key

LEMMA OnlyChildIs ==
    ASSUME NEW nodes, AreNodes(nodes), NEW y \in DOMAIN nodes, NEW z \in DOMAIN nodes
    PROVE  IsOnlyChild(nodes, OnlyChild(nodes, y, z), y, z)
<1>1. PICK half1, half2, last :
         /\ half1 = [nodes EXCEPT ![y].left = y]
         /\ half2 = [half1 EXCEPT ![y].right = y]
         /\ last = [half2 EXCEPT ![z].child = y]
  OBVIOUS
<1>2. last = OnlyChild(nodes, y, z)
  BY <1>1 DEF OnlyChild
<1>3. y \in Nat
  BY DEF AreNodes
<1>4. SetsLeft(nodes, half1, y, y)
  BY <1>1, <1>3, LeftSet
<1>5. AreNodes(half1) /\ DOMAIN half1 = DOMAIN nodes
  BY Zenon, <1>4 DEF SetsLeft
<1>6. ASSUME NEW m \in DOMAIN nodes
      PROVE  /\ half1[m].left = (IF m = y THEN y ELSE nodes[m].left)
             /\ half1[m].right = nodes[m].right /\ half1[m].parent = nodes[m].parent
             /\ half1[m].child = nodes[m].child /\ half1[m].degree = nodes[m].degree
             /\ half1[m].key = nodes[m].key
  BY Zenon, <1>4 DEF SetsLeft
<1>7. SetsRight(half1, half2, y, y)
  BY <1>1, <1>3, <1>5, RightSet
<1>8. AreNodes(half2) /\ DOMAIN half2 = DOMAIN nodes
  BY Zenon, <1>7, <1>5 DEF SetsRight
<1>9. ASSUME NEW m \in DOMAIN nodes
      PROVE  /\ half2[m].right = (IF m = y THEN y ELSE half1[m].right)
             /\ half2[m].left = half1[m].left /\ half2[m].parent = half1[m].parent
             /\ half2[m].child = half1[m].child /\ half2[m].degree = half1[m].degree
             /\ half2[m].key = half1[m].key
  BY Zenon, <1>7, <1>5 DEF SetsRight
<1>10. SetsChild(half2, last, z, y)
  BY <1>1, <1>3, <1>8, ChildSet
<1>11. AreNodes(last) /\ DOMAIN last = DOMAIN nodes
  BY Zenon, <1>10, <1>8 DEF SetsChild
<1>12. ASSUME NEW m \in DOMAIN nodes
      PROVE  /\ last[m].child = (IF m = z THEN y ELSE half2[m].child)
             /\ last[m].left = half2[m].left /\ last[m].right = half2[m].right
             /\ last[m].parent = half2[m].parent /\ last[m].degree = half2[m].degree
             /\ last[m].key = half2[m].key
  BY Zenon, <1>10, <1>8 DEF SetsChild
<1> QED BY <1>2, <1>3, <1>11, <1>6, <1>9, <1>12 DEF IsOnlyChild

Beside(nodes, y, c) ==
    [nodes EXCEPT ![y].left = c, ![y].right = nodes[c].right,
                  ![nodes[c].right].left = y, ![c].right = y]

IsBeside(nodes, nodes2, y, c) ==
    /\ AreNodes(nodes2) /\ DOMAIN nodes2 = DOMAIN nodes
    /\ \A m \in DOMAIN nodes :
         /\ nodes2[m].left = IF m = nodes[c].right THEN y ELSE IF m = y THEN c ELSE nodes[m].left
         /\ nodes2[m].right = IF m = c THEN y ELSE IF m = y THEN nodes[c].right ELSE nodes[m].right
         /\ nodes2[m].parent = nodes[m].parent /\ nodes2[m].child = nodes[m].child
         /\ nodes2[m].degree = nodes[m].degree /\ nodes2[m].key = nodes[m].key

LEMMA BesideIs ==
    ASSUME NEW nodes, AreNodes(nodes), NEW y \in DOMAIN nodes, NEW c \in DOMAIN nodes, nodes[c].right \in DOMAIN nodes
    PROVE  IsBeside(nodes, Beside(nodes, y, c), y, c)
<1>1. PICK half1, half2, half3, last :
         /\ half1 = [nodes EXCEPT ![y].left = c]
         /\ half2 = [half1 EXCEPT ![y].right = nodes[c].right]
         /\ half3 = [half2 EXCEPT ![nodes[c].right].left = y]
         /\ last = [half3 EXCEPT ![c].right = y]
  OBVIOUS
<1>2. last = Beside(nodes, y, c)
  BY <1>1 DEF Beside
<1>3. y \in Nat /\ c \in Nat /\ nodes[c].right \in Nat
  BY DEF AreNodes
<1>4. SetsLeft(nodes, half1, y, c)
  BY <1>1, <1>3, LeftSet
<1>5. AreNodes(half1) /\ DOMAIN half1 = DOMAIN nodes
  BY Zenon, <1>4 DEF SetsLeft
<1>6. ASSUME NEW m \in DOMAIN nodes
      PROVE  /\ half1[m].left = (IF m = y THEN c ELSE nodes[m].left)
             /\ half1[m].right = nodes[m].right /\ half1[m].parent = nodes[m].parent
             /\ half1[m].child = nodes[m].child /\ half1[m].degree = nodes[m].degree
             /\ half1[m].key = nodes[m].key
  BY Zenon, <1>4 DEF SetsLeft
<1>7. SetsRight(half1, half2, y, nodes[c].right)
  BY <1>1, <1>3, <1>5, RightSet
<1>8. AreNodes(half2) /\ DOMAIN half2 = DOMAIN nodes
  BY Zenon, <1>7, <1>5 DEF SetsRight
<1>9. ASSUME NEW m \in DOMAIN nodes
      PROVE  /\ half2[m].right = (IF m = y THEN nodes[c].right ELSE half1[m].right)
             /\ half2[m].left = half1[m].left /\ half2[m].parent = half1[m].parent
             /\ half2[m].child = half1[m].child /\ half2[m].degree = half1[m].degree
             /\ half2[m].key = half1[m].key
  BY Zenon, <1>7, <1>5 DEF SetsRight
<1>10. SetsLeft(half2, half3, nodes[c].right, y)
  BY <1>1, <1>3, <1>8, LeftSet
<1>11. AreNodes(half3) /\ DOMAIN half3 = DOMAIN nodes
  BY Zenon, <1>10, <1>8 DEF SetsLeft
<1>12. ASSUME NEW m \in DOMAIN nodes
      PROVE  /\ half3[m].left = (IF m = nodes[c].right THEN y ELSE half2[m].left)
             /\ half3[m].right = half2[m].right /\ half3[m].parent = half2[m].parent
             /\ half3[m].child = half2[m].child /\ half3[m].degree = half2[m].degree
             /\ half3[m].key = half2[m].key
  BY Zenon, <1>10, <1>8 DEF SetsLeft
<1>13. SetsRight(half3, last, c, y)
  BY <1>1, <1>3, <1>11, RightSet
<1>14. AreNodes(last) /\ DOMAIN last = DOMAIN nodes
  BY Zenon, <1>13, <1>11 DEF SetsRight
<1>15. ASSUME NEW m \in DOMAIN nodes
      PROVE  /\ last[m].right = (IF m = c THEN y ELSE half3[m].right)
             /\ last[m].left = half3[m].left /\ last[m].parent = half3[m].parent
             /\ last[m].child = half3[m].child /\ last[m].degree = half3[m].degree
             /\ last[m].key = half3[m].key
  BY Zenon, <1>13, <1>11 DEF SetsRight
<1> QED BY <1>2, <1>3, <1>14, <1>6, <1>9, <1>12, <1>15 DEF IsBeside

\* What link() makes of the nodes: y leaves R and joins the kids of z.
IsLinked(nodes, nodes2, kids, R, y, z) ==
    /\ AreNodes(nodes2) /\ DOMAIN nodes2 = DOMAIN nodes
    /\ \A m \in DOMAIN nodes :
         /\ nodes2[m].parent = IF m = y THEN z ELSE nodes[m].parent
         /\ nodes2[m].degree = IF m = z THEN nodes[z].degree + 1 ELSE nodes[m].degree
         /\ nodes2[m].key = nodes[m].key
         /\ m # z => nodes2[m].child = nodes[m].child
    /\ \A m \in DOMAIN nodes : m \notin kids[z] \cup R =>
          nodes2[m].right = nodes[m].right /\ nodes2[m].left = nodes[m].left
    /\ \A m \in R \ {y} :
         /\ nodes2[m].right = IF m = nodes[y].left THEN nodes[y].right ELSE nodes[m].right
         /\ nodes2[m].left = IF m = nodes[y].right THEN nodes[y].left ELSE nodes[m].left
    /\ nodes2[z].child \in kids[z] \cup {y} /\ Ring(nodes2, kids[z] \cup {y})

LEMMA LinkedIs ==
    ASSUME NEW kids, Shape(node, kids), NEW R \in SUBSET DOMAIN node, Threaded(node, R),
           NEW y \in R, NEW z \in R, y # z, kids[z] \cap R = {}
    PROVE  IsLinked(node, H!Linked(y, z), kids, R, y, z)
<1>0. H!Linked(y, z) =
        IF node[z].child = 0
        THEN OnlyChild(Given(CutOff(node, node[y].left, node[y].right), y, z), y, z)
        ELSE Beside(Given(CutOff(node, node[y].left, node[y].right), y, z), y, node[z].child)
  BY Zenon DEF H!Linked, H!null, CutOff, Given, OnlyChild, Beside
<1>1. PICK l, r, c, cut, down :
         /\ l = node[y].left /\ r = node[y].right /\ c = node[z].child
         /\ cut = CutOff(node, l, r) /\ down = Given(cut, y, z)
  OBVIOUS
<1>2. /\ AreNodes(node) /\ HasKids(node, kids, z) /\ 0 \notin DOMAIN node
      /\ l \in R \cup {0} /\ r \in R \cup {0} /\ y \in DOMAIN node /\ z \in DOMAIN node
      /\ 0 \notin R
  BY <1>1, NodesFinite DEF Shape, Threaded
<1>3. IsCutOff(node, cut, l, r)
  BY <1>1, <1>2, CutOffIs
<1>4. AreNodes(cut) /\ DOMAIN cut = DOMAIN node
  BY <1>3 DEF IsCutOff
<1>5. IsGiven(cut, down, y, z)
  BY <1>1, <1>2, <1>4, GivenIs
<1>6. AreNodes(down) /\ DOMAIN down = DOMAIN node
  BY <1>4, <1>5 DEF IsGiven
<1>7. ASSUME NEW m \in DOMAIN node
      PROVE  /\ cut[m].right = (IF m = l THEN r ELSE node[m].right)
             /\ cut[m].left = (IF m = r THEN l ELSE node[m].left)
             /\ cut[m].parent = node[m].parent /\ cut[m].child = node[m].child
             /\ cut[m].degree = node[m].degree /\ cut[m].key = node[m].key
  BY Zenon, <1>3 DEF IsCutOff
<1>8. ASSUME NEW m \in DOMAIN node
      PROVE  /\ down[m].parent = (IF m = y THEN z ELSE cut[m].parent)
             /\ down[m].degree = (IF m = z THEN cut[z].degree + 1 ELSE cut[m].degree)
             /\ down[m].left = cut[m].left /\ down[m].right = cut[m].right
             /\ down[m].child = cut[m].child /\ down[m].key = cut[m].key
  BY Zenon, <1>4, <1>5 DEF IsGiven
<1>9. ASSUME NEW m \in DOMAIN node
      PROVE  /\ down[m].right = (IF m = l THEN r ELSE node[m].right)
             /\ down[m].left = (IF m = r THEN l ELSE node[m].left)
             /\ down[m].parent = (IF m = y THEN z ELSE node[m].parent)
             /\ down[m].degree = (IF m = z THEN node[z].degree + 1 ELSE node[m].degree)
             /\ down[m].child = node[m].child /\ down[m].key = node[m].key
  BY <1>2, <1>7, <1>8
<1>10. CASE c = 0
  <2>1. PICK last : last = H!Linked(y, z)
    OBVIOUS
  <2>2. last = OnlyChild(down, y, z)
    BY <1>0, <1>1, <1>10, <2>1
  <2>3. IsOnlyChild(down, last, y, z)
    BY <1>2, <1>6, <2>2, OnlyChildIs
  <2>4. AreNodes(last) /\ DOMAIN last = DOMAIN node
    BY <1>6, <2>3 DEF IsOnlyChild
  <2>5. ASSUME NEW m \in DOMAIN node
        PROVE  /\ last[m].left = (IF m = y THEN y ELSE down[m].left)
               /\ last[m].right = (IF m = y THEN y ELSE down[m].right)
               /\ last[m].child = (IF m = z THEN y ELSE down[m].child)
               /\ last[m].parent = down[m].parent /\ last[m].degree = down[m].degree
               /\ last[m].key = down[m].key
    BY Zenon, <1>6, <2>3 DEF IsOnlyChild
  <2>6. kids[z] = {} /\ kids[z] \cup {y} = {y}
    BY <1>1, <1>2, <1>10 DEF HasKids
  <2>7. Ring(last, {y})
    <3>1. \A C \in SUBSET {y} : C # {} => C = {y}
      OBVIOUS
    <3>2. last[y].left = y /\ last[y].right = y
      BY <1>2, <2>5
    <3> QED BY <1>2, <2>4, <3>1, <3>2 DEF Ring
  <2>8. IsLinked(node, last, kids, R, y, z)
    <3>1. ASSUME NEW m \in DOMAIN node
          PROVE  /\ last[m].parent = (IF m = y THEN z ELSE node[m].parent)
                 /\ last[m].degree = (IF m = z THEN node[z].degree + 1 ELSE node[m].degree)
                 /\ last[m].key = node[m].key
                 /\ m # z => last[m].child = node[m].child
                 /\ m \notin R => last[m].right = node[m].right /\ last[m].left = node[m].left
                 /\ m # y => /\ last[m].right = (IF m = l THEN r ELSE node[m].right)
                             /\ last[m].left = (IF m = r THEN l ELSE node[m].left)
      BY <1>2, <1>9, <2>5
    <3>2. last[z].child = y
      BY <1>2, <2>5
    <3> QED BY <1>1, <2>4, <2>6, <2>7, <3>1, <3>2 DEF IsLinked
  <2> QED BY <2>1, <2>8
<1>11. CASE c # 0
  <2>1. PICK last, next : last = H!Linked(y, z) /\ next = node[c].right
    OBVIOUS
  <2>2. /\ c \in kids[z] /\ Ring(node, kids[z]) /\ c \in DOMAIN node /\ next \in kids[z]
        /\ next \in DOMAIN node /\ c \notin R /\ next \notin R /\ kids[z] \subseteq DOMAIN node
    BY <1>1, <1>2, <1>11, <2>1 DEF HasKids, Ring
  <2>3. down[c].right = next
    BY <1>2, <1>9, <1>11, <2>1, <2>2
  <2>4. last = Beside(down, y, c)
    BY <1>0, <1>1, <1>11, <2>1
  <2>5. IsBeside(down, last, y, c)
    BY <1>2, <1>6, <2>2, <2>3, <2>4, BesideIs
  <2>6. AreNodes(last) /\ DOMAIN last = DOMAIN node
    BY <1>6, <2>5 DEF IsBeside
  <2>7. ASSUME NEW m \in DOMAIN node
        PROVE  /\ last[m].left = (IF m = down[c].right THEN y ELSE IF m = y THEN c ELSE down[m].left)
               /\ last[m].right = (IF m = c THEN y ELSE IF m = y THEN down[c].right ELSE down[m].right)
               /\ last[m].parent = down[m].parent /\ last[m].child = down[m].child
               /\ last[m].degree = down[m].degree /\ last[m].key = down[m].key
    BY Zenon, <1>6, <2>5 DEF IsBeside
  <2>8. ASSUME NEW m \in DOMAIN node
        PROVE  /\ last[m].parent = (IF m = y THEN z ELSE node[m].parent)
               /\ last[m].degree = (IF m = z THEN node[z].degree + 1 ELSE node[m].degree)
               /\ last[m].key = node[m].key /\ last[m].child = node[m].child
               /\ last[m].right = (IF m = c THEN y ELSE IF m = y THEN next
                                   ELSE IF m = l THEN r ELSE node[m].right)
               /\ last[m].left = (IF m = next THEN y ELSE IF m = y THEN c
                                  ELSE IF m = r THEN l ELSE node[m].left)
    BY <1>9, <2>3, <2>7
  <2>9. PICK alone : alone = [node EXCEPT ![y].left = y, ![y].right = y]
    OBVIOUS
  <2>10. /\ DOMAIN alone = DOMAIN node
         /\ alone[y].left = y /\ alone[y].right = y
         /\ \A m \in DOMAIN node : m # y => alone[m] = node[m]
    BY <1>2, <2>9 DEF AreNodes, Node
  <2>11. Ring(alone, kids[z]) /\ Ring(alone, {y}) /\ y \notin kids[z]
    <3>1. SameLinks(node, alone, kids[z]) /\ y \notin kids[z]
      BY <2>2, <2>10 DEF SameLinks
    <3>2. \A C \in SUBSET {y} : C # {} => C = {y}
      OBVIOUS
    <3>3. Ring(alone, {y})
      BY <1>2, <2>10, <3>2 DEF Ring
    <3> QED BY <2>2, <2>10, <3>1, <3>3, RingFrame
  <2>12. Ring(last, kids[z] \cup {y})
    <3>1. alone[c].right = next
      BY <2>1, <2>2, <2>10
    <3>2. ASSUME NEW m \in kids[z] \cup {y}
          PROVE  /\ last[m].right = (IF m = c THEN alone[y].right
                                     ELSE IF m = y THEN alone[c].right ELSE alone[m].right)
                 /\ last[m].left = (IF m = alone[y].right THEN c
                                    ELSE IF m = alone[c].right THEN y ELSE alone[m].left)
      BY <1>2, <2>2, <2>8, <2>10, <3>1
    <3>3. kids[z] \cap {y} = {} /\ 0 \notin DOMAIN alone /\ DOMAIN last = DOMAIN alone /\ y \in {y}
      BY <1>2, <2>6, <2>10, <2>11
    <3> QED BY <2>2, <2>11, <3>2, <3>3, RingsJoin
  <2>13. IsLinked(node, last, kids, R, y, z)
    <3>1. ASSUME NEW m \in DOMAIN node
          PROVE  /\ m \notin kids[z] \cup R =>
                      last[m].right = node[m].right /\ last[m].left = node[m].left
                 /\ m \in R \ {y} =>
                      /\ last[m].right = (IF m = l THEN r ELSE node[m].right)
                      /\ last[m].left = (IF m = r THEN l ELSE node[m].left)
      BY <1>2, <2>2, <2>8
    <3>2. last[z].child \in kids[z] \cup {y}
      BY <1>1, <1>2, <2>2, <2>8
    <3> QED BY <1>1, <2>6, <2>8, <2>12, <3>1, <3>2 DEF IsLinked
  <2> QED BY <2>1, <2>13
<1> QED BY <1>10, <1>11

LEMMA HeapLink ==
    ASSUME HeapInv, H!Link
    PROVE  HeapInv'
<1>1. PICK kids, roots, trees, yet : HeapSound(kids, roots, trees, yet)
  BY DEF HeapInv
<1>2. /\ pc = "link" /\ d \in DOMAIN a
      /\ a' = [k \in DOMAIN a \ {d} |-> a[k]] /\ d' = d + 1
      /\ heap' = heap /\ pc' = pc /\ this' = this /\ bag' = bag
  BY DEF H!Link
<1>3. PICK y, z \in {a[d], x} :
        /\ y # z /\ (IF H!Less(a[d], x) THEN z = a[d] ELSE z = x)
        /\ node' = H!Linked(y, z)
        /\ x' = z
        /\ w' = IF w = y THEN node[y].right ELSE w
  BY DEF H!Link
<1>4. PICK R : R = roots[this]
  OBVIOUS
<1>5. /\ Visiting(R, yet) /\ this \in Heap /\ R \in SUBSET DOMAIN node /\ R \subseteq trees[this]
      /\ Shape(node, kids) /\ AreNodes(node) /\ 0 \notin DOMAIN node
      /\ HeapOwns(node, kids, roots, trees)
      /\ \A k \in DOMAIN a : a[k] \in R /\ node[a[k]].degree = k
      /\ DOMAIN a \subseteq Nat
      /\ \A g \in Heap : g # this => RootsRing(node, heap[g].min_root, roots[g])
      /\ \A g \in Heap : heap[g].min_root \in DOMAIN node \cup {0}
  BY <1>1, <1>2, <1>4, NodesFinite DEF HeapSound, HeapStage, HeapOwns, Shape, Grove
<1>6. /\ IsList(node, yet, w) /\ yet \cap Placed = {} /\ Threaded(node, R)
      /\ w # 0 => node[w].left \notin yet
      /\ R = yet \cup Placed \cup {x} /\ x \notin yet \cup Placed /\ node[x].degree = d
  BY <1>2, <1>5 DEF Visiting
<1>7. /\ y \in R /\ z \in R /\ y \notin yet /\ z \notin yet
      /\ y \in DOMAIN node /\ z \in DOMAIN node
      /\ node[y].degree = d /\ node[z].degree = d /\ d \in Nat
      /\ {y, z} = {a[d], x} /\ a[d] \in Placed
  BY <1>2, <1>3, <1>5, <1>6 DEF Placed
<1>8. node[z].key <= node[y].key
  <2>1. node[a[d]].key \in Int /\ node[x].key \in Int
    BY <1>2, <1>3, <1>5, <1>7, HeapAssumption DEF AreNodes, Node
  <2> QED BY <1>3, <1>7, <2>1 DEF H!Less
<1>9. w' = w /\ (w # 0 => w \in yet)
  BY <1>3, <1>5, <1>6, <1>7 DEF IsList
<1>10. \A p \in DOMAIN node : kids[p] \cap R = {} /\ kids[p] \subseteq DOMAIN node
  BY <1>4, <1>5, KidsNotRoots DEF Shape
<1>11. IsLinked(node, node', kids, R, y, z)
  BY <1>3, <1>5, <1>6, <1>7, <1>10, LinkedIs
<1>12. AreNodes(node') /\ DOMAIN node' = DOMAIN node
  BY <1>11 DEF IsLinked
<1>13. ASSUME NEW m \in DOMAIN node
       PROVE  /\ (node')[m].parent = (IF m = y THEN z ELSE node[m].parent)
              /\ (node')[m].degree = (IF m = z THEN node[z].degree + 1 ELSE node[m].degree)
              /\ (node')[m].key = node[m].key
              /\ m # z => (node')[m].child = node[m].child
              /\ m \notin kids[z] \cup R =>
                   (node')[m].right = node[m].right /\ (node')[m].left = node[m].left
              /\ m \in R \ {y} =>
                   /\ (node')[m].right = (IF m = node[y].left THEN node[y].right ELSE node[m].right)
                   /\ (node')[m].left = (IF m = node[y].right THEN node[y].left ELSE node[m].left)
  BY <1>11 DEF IsLinked
<1>14. PICK kids2, roots2 :
         /\ kids2 = [kids EXCEPT ![z] = @ \cup {y}]
         /\ roots2 = [roots EXCEPT ![this] = @ \ {y}]
  OBVIOUS
<1>15. /\ kids2 \in [DOMAIN node -> SUBSET DOMAIN node] /\ kids2[z] = kids[z] \cup {y}
       /\ \A n \in DOMAIN node : n # z => kids2[n] = kids[n]
       /\ DOMAIN kids2 = DOMAIN node /\ DOMAIN kids = DOMAIN node
  BY <1>5, <1>7, <1>14 DEF Shape
<1>16. /\ roots2 \in [Heap -> SUBSET DOMAIN node] /\ roots2[this] = R \ {y}
       /\ \A g \in Heap : g # this => roots2[g] = roots[g]
  BY <1>4, <1>5, <1>14 DEF HeapOwns
<1>17. Shape(node', kids2)
  <2>1. ASSUME NEW n \in DOMAIN node PROVE HasKids(node', kids2, n)
    <3>1. CASE n = z
      <4>1. (node')[z].child \in kids2[z] /\ Ring(node', kids2[z])
        BY <1>11, <1>15 DEF IsLinked
      <4>2. (node')[z].child # 0
        BY <1>12, <4>1, NodesFinite DEF Ring
      <4> QED BY <3>1, <4>1, <4>2 DEF HasKids
    <3>2. CASE n # z
      <4>1. \A k \in kids[n] : node[k].parent = n
        BY <1>5 DEF Shape, Heaped
      <4>2. \A k \in kids[z] : node[k].parent = z
        BY <1>5, <1>7 DEF Shape, Heaped
      <4>3. \A k \in kids[n] : k \in DOMAIN node /\ k \notin kids[z] \cup R
        BY <1>10, <3>2, <4>1, <4>2
      <4>4. SameLinks(node, node', kids[n])
        BY <1>13, <4>3 DEF SameLinks
      <4>5. HasKids(node, kids, n)
        BY <1>5 DEF Shape
      <4> QED BY <1>10, <1>12, <1>13, <1>15, <3>2, <4>4, <4>5, HasKidsFrame
    <3> QED BY <3>1, <3>2
  <2>2. ASSUME NEW n \in DOMAIN node PROVE Heaped(node', kids2, n)
    <3>1. Heaped(node, kids, n)
      BY <1>5 DEF Shape
    <3>2. \A k \in kids[n] : k \in DOMAIN node /\ k # y /\ k # z
      BY <1>7, <1>10
    <3>3. \A k \in kids[n] : /\ (node')[k].parent = node[k].parent
                             /\ (node')[k].degree = node[k].degree
                             /\ (node')[k].key = node[k].key
      BY <1>13, <3>2
    <3>4. CASE n = z
      <4>1. /\ (node')[z].degree = d + 1 /\ (node')[z].key = node[z].key
            /\ (node')[y].parent = z /\ (node')[y].degree = d /\ (node')[y].key = node[y].key
        BY <1>3, <1>7, <1>13
      <4>2. \A k \in kids[z] : node[k].degree \in Nat /\ node[k].degree < d
        BY <1>5, <1>7, <3>1, <3>2, <3>4 DEF Heaped, AreNodes, Node
      <4>3. ASSUME NEW k \in kids[z] \cup {y}
            PROVE  /\ (node')[k].parent = z /\ (node')[z].key <= (node')[k].key
                   /\ (node')[k].degree < (node')[z].degree
        <5>1. CASE k = y
          BY <1>7, <1>8, <4>1, <5>1
        <5>2. CASE k \in kids[z]
          BY <1>7, <3>1, <3>3, <3>4, <4>1, <4>2, <5>2 DEF Heaped
        <5> QED BY <5>1, <5>2
      <4>4. ASSUME NEW k \in kids[z] \cup {y}, NEW l \in kids[z] \cup {y},
                   (node')[k].degree = (node')[l].degree
            PROVE  k = l
        BY <1>7, <3>1, <3>3, <3>4, <4>1, <4>2, <4>4 DEF Heaped
      <4>5. ASSUME NEW j \in 0..d PROVE \E k \in kids[z] \cup {y} : (node')[k].degree = j
        <5>1. CASE j = d
          BY <4>1, <5>1
        <5>2. CASE j # d
          <6>1. j \in 0..(node[z].degree - 1)
            BY <1>7, <5>2
          <6> QED BY <3>1, <3>3, <3>4, <6>1 DEF Heaped
        <5> QED BY <5>1, <5>2
      <4>6. (node')[z].degree - 1 = d
        BY <1>7, <4>1
      <4> QED BY <1>15, <3>4, <4>3, <4>4, <4>5, <4>6 DEF Heaped
    <3>5. CASE n # z
      <4>1. kids2[n] = kids[n] /\ (node')[n].degree = node[n].degree /\ (node')[n].key = node[n].key
        BY <1>13, <1>15, <3>5
      <4> QED BY <3>1, <3>3, <4>1, HeapedFrame
    <3> QED BY <3>4, <3>5
  <2> QED BY <1>12, <1>15, <2>1, <2>2 DEF Shape
<1>18. HeapOwns(node', kids2, roots2, trees)
  <2>1. ASSUME NEW g \in Heap PROVE Grove(kids2, roots2[g], trees[g])
    <3>1. Grove(kids, roots[g], trees[g])
      BY <1>5 DEF HeapOwns
    <3>2. CASE g = this
      <4>1. y \in trees[g] /\ z \in trees[g] /\ roots2[g] = R \ {y} /\ roots[g] = R
        BY <1>4, <1>5, <1>7, <1>16, <3>2
      <4>2. \A n \in trees[g] : n \in DOMAIN node
        BY <1>15, <3>1 DEF Grove
      <4>3. KidsStay(kids2, trees[g])
        BY <1>15, <3>1, <4>1, <4>2 DEF Grove, KidsStay
      <4>4. \A n \in trees[g] \ roots2[g] : \E p \in trees[g] : n \in kids2[p]
        <5> SUFFICES ASSUME NEW n \in trees[g] \ roots2[g]
                     PROVE  \E p \in trees[g] : n \in kids2[p]
          OBVIOUS
        <5>1. CASE n = y
          BY <1>15, <4>1, <5>1
        <5>2. CASE n # y
          <6>1. PICK p \in trees[g] : n \in kids[p]
            BY <3>1, <4>1, <5>2 DEF Grove
          <6>2. n \in kids2[p]
            BY <1>15, <4>2, <6>1
          <6> QED BY <6>1, <6>2
        <5> QED BY <5>1, <5>2
      <4>5. \A p \in trees[g] : kids2[p] \cap roots2[g] = {}
        BY <1>10, <1>15, <4>1, <4>2
      <4> QED BY <1>15, <3>1, <4>1, <4>3, <4>4, <4>5 DEF Grove
    <3>3. CASE g # this
      <4>1. z \notin trees[g]
        BY <1>5, <1>7, <3>3 DEF HeapOwns
      <4>2. \A n \in trees[g] : n \in DOMAIN node /\ kids2[n] = kids[n]
        BY <1>15, <3>1, <4>1 DEF Grove
      <4> QED BY <1>15, <1>16, <3>1, <3>3, <4>2 DEF Grove, KidsStay
    <3> QED BY <3>2, <3>3
  <2> QED BY <1>5, <1>12, <1>16, <1>17, <2>1 DEF HeapOwns
<1>19. HeapCounts(trees)'
  <2>1. \A g \in Heap : Counted(node, trees[g], heap[g].num_nodes, bag[g])
    BY <1>1, CountsAre
  <2>2. ASSUME NEW g \in Heap PROVE Counted(node', trees[g], heap[g].num_nodes, bag[g])
    <3>1. \A m \in trees[g] : (node')[m].key = node[m].key
      BY <1>5, <1>13 DEF HeapOwns
    <3> QED BY <2>1, <3>1, CountedFrame
  <2>3. heap \in [Heap -> [min_root : Nat, num_nodes : Nat]] /\ bag \in [Heap -> [Key -> Nat]]
    BY <1>1 DEF HeapSound, HeapCounts
  <2> QED BY <1>2, <2>2, <2>3 DEF HeapCounts, Counted, With
<1>20. /\ Placed' = Placed \ {a[d]} /\ DOMAIN a' = DOMAIN a \ {d}
       /\ \A k \in DOMAIN a' : a'[k] = a[k] /\ a[k] # a[d] /\ a[k] \in Placed /\ a[k] \in R
  <2>1. DOMAIN a' = DOMAIN a \ {d} /\ \A k \in DOMAIN a' : a'[k] = a[k]
    BY <1>2
  <2>2. \A k \in DOMAIN a : a[k] = a[d] => k = d
    BY <1>2, <1>5
  <2> QED BY <1>2, <1>5, <2>1, <2>2 DEF Placed
<1>21. R \ {y} = yet \cup Placed' \cup {z} /\ z \notin yet \cup Placed' /\ yet \subseteq R \ {y}
  <2>1. (y = x /\ z = a[d]) \/ (y = a[d] /\ z = x)
    BY <1>3
  <2> QED BY <1>6, <1>7, <1>20, <2>1
<1>22. \A m \in yet : m \in DOMAIN node /\ m # 0 /\ node[m].right # y /\ m # node[y].left
  <2> SUFFICES ASSUME NEW m \in yet
               PROVE  m \in DOMAIN node /\ m # 0 /\ node[m].right # y /\ m # node[y].left
    OBVIOUS
  <2>1. m \in DOMAIN node /\ m # 0
    BY <1>5, <1>6 DEF IsList
  <2>2. node[m].right # y
    BY <1>5, <1>6, <1>7 DEF IsList, RightStays
  <2>3. m # node[y].left
    BY <1>6, <1>7, <2>1, <2>2 DEF Threaded
  <2> QED BY <2>1, <2>2, <2>3
<1>23. Threaded(node', R \ {y})
  <2> SUFFICES ASSUME NEW n \in R \ {y}
               PROVE  /\ (node')[n].right \in (R \ {y}) \cup {0} /\ (node')[n].left \in (R \ {y}) \cup {0}
                      /\ (node')[n].right # 0 => (node')[(node')[n].right].left = n
                      /\ (node')[n].left # 0 => (node')[(node')[n].left].right = n
    BY DEF Threaded
  <2>1. /\ n \in DOMAIN node /\ n # 0 /\ y # 0 /\ 0 \notin R
        /\ \A m \in R : /\ node[m].right \in R \cup {0} /\ node[m].left \in R \cup {0}
                        /\ node[m].right # 0 => node[node[m].right].left = m
                        /\ node[m].left # 0 => node[node[m].left].right = m
    BY <1>5, <1>6, <1>7 DEF Threaded
  <2>2. \A m \in R \ {y} :
           /\ (node')[m].right = (IF m = node[y].left THEN node[y].right ELSE node[m].right)
           /\ (node')[m].left = (IF m = node[y].right THEN node[y].left ELSE node[m].left)
    BY <1>5, <1>13
  <2>3. CASE n = node[y].left
    BY <1>7, <2>1, <2>2, <2>3
  <2>4. CASE n # node[y].left /\ n = node[y].right
    BY <1>7, <2>1, <2>2, <2>4
  <2>5. CASE n # node[y].left /\ n # node[y].right
    BY <1>7, <2>1, <2>2, <2>5
  <2> QED BY <2>3, <2>4, <2>5
<1>24. \A m \in yet : (node')[m].right = node[m].right
  BY <1>13, <1>21, <1>22
<1>25. IsList(node', yet, w)
  <2>1. RightStays(node', yet)
    BY <1>6, <1>24 DEF IsList, RightStays
  <2>2. ASSUME NEW S \in SUBSET DOMAIN node, w \in S, RightStays(node', S) PROVE yet \subseteq S
    <3>1. CASE w = 0
      BY <1>6, <3>1 DEF IsList
    <3>2. CASE w # 0
      <4>1. RightStays(node, S \cap yet) /\ w \in S \cap yet
        BY <1>6, <1>9, <1>24, <2>2, <3>2 DEF IsList, RightStays
      <4>2. yet \subseteq S \cap yet
        BY <1>6, <2>2, <4>1 DEF IsList
      <4> QED BY <4>2
    <3> QED BY <3>1, <3>2
  <2> QED BY <1>6, <1>12, <2>1, <2>2 DEF IsList
<1>26. w # 0 => (node')[w].left \notin yet
  <2> SUFFICES ASSUME w # 0 PROVE (node')[w].left \notin yet
    OBVIOUS
  <2>1. w \in yet /\ w \in R \ {y} /\ w \in DOMAIN node /\ node[w].left \notin yet
    BY <1>6, <1>9, <1>21, <1>22
  <2>2. node[y].left \notin yet
    BY <1>22
  <2> QED BY <1>13, <2>1, <2>2
<1>27. (node')[z].degree = d + 1
  BY <1>7, <1>13
<1>28. Visiting(R \ {y}, yet)'
  BY <1>2, <1>3, <1>6, <1>9, <1>20, <1>21, <1>23, <1>25, <1>26, <1>27 DEF Visiting
<1>29. ASSUME NEW g \in Heap, g # this PROVE RootsRing(node', heap[g].min_root, roots2[g])
  <2>1. z \in trees[this] /\ z \notin trees[g] /\ kids[z] \subseteq trees[this]
        /\ trees[g] \cap trees[this] = {} /\ roots[g] \subseteq trees[g]
        /\ roots[g] \subseteq DOMAIN node
    BY <1>5, <1>7, <1>29, KidsNotRoots DEF HeapOwns, Grove
  <2>2. \A m \in roots[g] : m \in DOMAIN node /\ m \notin kids[z] \cup R /\ m # y
    BY <1>5, <1>7, <2>1
  <2>3. \A m \in roots[g] : /\ (node')[m].right = node[m].right /\ (node')[m].left = node[m].left
                            /\ (node')[m].parent = node[m].parent /\ (node')[m].key = node[m].key
    BY <1>13, <2>2
  <2>4. RootsRing(node', heap[g].min_root, roots[g])
    BY <1>5, <1>12, <1>29, <2>1, <2>3, RootsRingFrame
  <2> QED BY <1>16, <1>29, <2>4
<1>30. \A k \in DOMAIN a' : a'[k] \in R \ {y} /\ (node')[a'[k]].degree = k
  <2> SUFFICES ASSUME NEW k \in DOMAIN a'
               PROVE  a'[k] \in R \ {y} /\ (node')[a'[k]].degree = k
    OBVIOUS
  <2>1. /\ a'[k] = a[k] /\ a[k] # a[d] /\ a[k] # x /\ a[k] \in R /\ a[k] \in DOMAIN node
        /\ node[a[k]].degree = k
    BY <1>5, <1>6, <1>20
  <2>2. a[k] # y /\ a[k] # z
    BY <1>3, <2>1
  <2> QED BY <1>13, <2>1, <2>2
<1>31. HeapStage(roots2, yet)'
  BY <1>2, <1>5, <1>12, <1>16, <1>20, <1>28, <1>29, <1>30 DEF HeapStage
<1>32. HeapSound(kids2, roots2, trees, yet)'
  BY <1>18, <1>19, <1>31 DEF HeapSound
<1> QED BY <1>32 DEF HeapInv

LEMMA HeapInit == H!Init => HeapInv
<1> SUFFICES ASSUME H!Init PROVE HeapInv
  OBVIOUS
<1>1. /\ node = [k \in {} |-> 0] /\ heap = [h \in Heap |-> [min_root |-> 0, num_nodes |-> 0]]
      /\ pc = "rest" /\ this = 0 /\ a = [k \in {} |-> 0] /\ w = 0
      /\ bag = [h \in Heap |-> [v \in Key |-> 0]]
  BY DEF H!Init, H!NoTree, H!EmptyHeap, H!NoKey, H!null
<1>2. PICK kids, roots : kids = [k \in {} |-> {}] /\ roots = [h \in Heap |-> {}]
  OBVIOUS
<1>3. DOMAIN node = {} /\ DOMAIN kids = {} /\ \A h \in Heap : roots[h] = {}
  BY <1>1, <1>2
<1>4. Shape(node, kids)
  BY <1>1, <1>2, <1>3 DEF Shape, AreNodes
<1>5. \A h \in Heap : Grove(kids, roots[h], roots[h])
  BY <1>3 DEF Grove, KidsStay
<1>6. HeapOwns(node, kids, roots, roots)
  BY <1>2, <1>3, <1>4, <1>5 DEF HeapOwns
<1>7. HeapCounts(roots)
  <2>1. Counted(node, {}, 0, [v \in Key |-> 0])
    BY CountedNone
  <2>2. \A h \in Heap : Counted(node, roots[h], heap[h].num_nodes, bag[h])
    BY <1>1, <1>3, <2>1
  <2>3. heap \in [Heap -> [min_root : Nat, num_nodes : Nat]] /\ bag \in [Heap -> [Key -> Nat]]
    BY <1>1
  <2> QED BY <2>2, <2>3 DEF HeapCounts, Counted, With
<1>8. HeapStage(roots, {})
  <2>1. \A h \in Heap : heap[h].min_root = 0 /\ RootsRing(node, heap[h].min_root, roots[h])
    BY <1>1, <1>3 DEF RootsRing
  <2> QED BY <1>1, <2>1 DEF HeapStage
<1> QED BY <1>6, <1>7, <1>8 DEF HeapSound, HeapInv

LEMMA HeapStep ==
    ASSUME HeapInv, [H!Next]_(H!vars)
    PROVE  HeapInv'
<1>1. ASSUME NEW h \in Heap, NEW v \in Key, H!Push(h, v) PROVE HeapInv'
  BY <1>1, HeapPush
<1>2. ASSUME NEW h \in Heap, NEW other \in Heap, H!PushHeap(h, other) PROVE HeapInv'
  BY <1>2, HeapPushHeap
<1>3. ASSUME NEW h \in Heap, NEW other \in Heap, H!Assign(h, other) PROVE HeapInv'
  BY <1>3, HeapAssign
<1>4. ASSUME NEW h \in Heap, H!PopFront(h) PROVE HeapInv'
  BY <1>4, HeapPopFront
<1>5. CASE H!Visit
  BY <1>5, HeapVisit
<1>6. CASE H!Link
  BY <1>6, HeapLink
<1>7. CASE H!Place
  BY <1>7, HeapPlace
<1>8. CASE H!AddToRootList
  BY <1>8, HeapAddToRootList
<1>9. CASE UNCHANGED H!vars
  <2>1. PICK kids, roots, trees, yet : HeapSound(kids, roots, trees, yet)
    BY DEF HeapInv
  <2>2. /\ node' = node /\ heap' = heap /\ pc' = pc /\ this' = this /\ a' = a /\ x' = x
        /\ w' = w /\ d' = d /\ bag' = bag /\ Placed' = Placed
    BY <1>9 DEF H!vars, H!locals, Placed
  <2>3. HeapCounts(trees)' /\ (pc \in {"visit", "link"} => Visiting(roots[this], yet)')
        /\ (pc = "rebuild" => Rebuilding(roots[this])')
    BY <2>1, <2>2 DEF HeapSound, HeapStage, HeapCounts, Visiting, Rebuilding
  <2>4. HeapStage(roots, yet)'
    BY <2>1, <2>2, <2>3 DEF HeapSound, HeapStage
  <2>5. HeapSound(kids, roots, trees, yet)'
    BY <2>1, <2>2, <2>3, <2>4 DEF HeapSound
  <2> QED BY <2>5 DEF HeapInv
<1> QED BY <1>1, <1>2, <1>3, <1>4, <1>5, <1>6, <1>7, <1>8, <1>9 DEF H!Next

LEMMA HeapAlways == MCSpec => []HeapInv
BY HeapInit, HeapStep, EachContainer, PTL DEF H!Spec

\* No node of a Fibonacci heap is lost, shared or visited twice while link()
\* and consolidate() take its lists apart and join them; between calls its
\* trees are binomial, and front() is the least of what was pushed.
THEOREM HeapHolds == MCSpec => []HeapHoldsBag
<1>1. HeapInv => HeapHoldsBag
  BY HoldsBagFollows, BinomialFollows, FrontIsMinimumFollows DEF HeapHoldsBag
<1> QED BY <1>1, HeapAlways, PTL

-----------------------------------------------------------------------------
(* The types.                                                               *)

LEMMA PrioTyped == PrioInv => P!TypeOK
<1> SUFFICES ASSUME PrioInv PROVE P!TypeOK
  OBVIOUS
<1>1. ASSUME NEW o \in Obj PROVE P!IsPriority(pq[o]) /\ log[o] \in Seq(Prio \X Elem)
  <2>1. PrioSound(pq[o], log[o])
    BY DEF PrioInv
  <2>2. /\ pq[o] = [p |-> pq[o].p, q |-> pq[o].q, n |-> pq[o].n]
        /\ pq[o].p \subseteq Prio /\ pq[o].p = DOMAIN pq[o].q
        /\ pq[o].q = [v \in DOMAIN pq[o].q |-> pq[o].q[v]]
    BY <2>1 DEF PrioSound, PrioType
  <2>3. DOMAIN pq[o] = {"p", "q", "n"}
    <3>1. DOMAIN [p |-> pq[o].p, q |-> pq[o].q, n |-> pq[o].n] = {"p", "q", "n"}
      OBVIOUS
    <3> QED BY <2>2, <3>1
  <2>4. log[o] \in Seq(Prio \X Elem) /\ pq[o].n \in Nat
    BY <2>1 DEF PrioSound, Pairs
  <2>5. ASSUME NEW v \in DOMAIN pq[o].q
        PROVE  pq[o].q[v] \in [q : Seq(Elem), begin : Nat, end : Nat]
    <3>1. LiveQueue(pq[o].q[v])
      BY <2>1, <2>2 DEF PrioSound, PrioQueues
    <3> QED BY <3>1 DEF LiveQueue
  <2> QED BY <2>2, <2>3, <2>4, <2>5 DEF P!IsPriority
<1>2. DOMAIN pq = Obj /\ DOMAIN log = Obj /\ log = [o \in Obj |-> log[o]]
  BY DEF PrioInv
<1> QED BY <1>1, <1>2 DEF P!TypeOK

LEMMA SetTyped == SetInv => U!TypeOK
<1> SUFFICES ASSUME SetInv PROVE U!TypeOK
  OBVIOUS
<1>1. ASSUME NEW o \in Obj
      PROVE  /\ set[o] \in [s : SUBSET SetElem, v : Seq(SetElem), frozen : BOOLEAN]
             /\ \A i, j \in DOMAIN set[o].v : i < j => set[o].v[i] < set[o].v[j]
             /\ elts[o] \in SUBSET SetElem
  <2>1. SetSound(set[o], elts[o])
    BY DEF SetInv
  <2>2. /\ set[o] = [s |-> set[o].s, v |-> set[o].v, frozen |-> set[o].frozen]
        /\ set[o].frozen \in BOOLEAN /\ elts[o] \in SUBSET SetElem /\ IsFiniteSet(elts[o])
    BY <2>1 DEF SetSound
  <2>3. CASE set[o].frozen
    <3>1. set[o].s = {} /\ set[o].v = U!Sorted(elts[o])
      BY <2>1, <2>3 DEF SetSound
    <3>2. Sorts(set[o].v, elts[o])
      BY <2>2, <3>1, SortedElements
    <3>3. Cardinality(elts[o]) \in Nat
      BY <2>2, FS_CardinalityType
    <3>4. /\ set[o].v \in Seq(SetElem)
          /\ \A i, j \in DOMAIN set[o].v : i < j => set[o].v[i] < set[o].v[j]
      <4>1. /\ set[o].v \in [1..Cardinality(elts[o]) -> elts[o]] /\ Increasing(set[o].v)
            /\ elts[o] \subseteq Int
        BY <2>2, <3>2, SetElemAssumption DEF Sorts
      <4>2. Len(set[o].v) = Cardinality(elts[o]) /\ DOMAIN set[o].v = 1..Cardinality(elts[o])
        BY <3>3, <4>1, FunctionIsSeq
      <4>3. set[o].v \in [1..Cardinality(elts[o]) -> SetElem]
        BY <2>2, <4>1
      <4>4. set[o].v \in Seq(SetElem)
        BY <3>3, <4>3, SeqDef
      <4> QED BY <4>1, <4>2, <4>4 DEF Increasing
    <3> QED BY <2>2, <3>1, <3>4
  <2>4. CASE ~ set[o].frozen
    <3>1. set[o].v = <<>> /\ set[o].s = elts[o]
      BY <2>1, <2>4 DEF SetSound
    <3>2. set[o].v \in Seq(SetElem) /\ DOMAIN set[o].v = {}
      BY <3>1
    <3> QED BY <2>2, <3>1, <3>2
  <2> QED BY <2>3, <2>4
<1>2. DOMAIN set = Obj /\ set = [o \in Obj |-> set[o]] /\ elts = [o \in Obj |-> elts[o]]
  BY DEF SetInv
<1> QED BY <1>1, <1>2 DEF U!TypeOK

LEMMA PtrTyped == PtrInv => T!TypeOK
<1> SUFFICES ASSUME PtrInv PROVE T!TypeOK
  OBVIOUS
<1>1. PtrSound(mem) /\ alive \subseteq Pointer
  BY DEF PtrInv
<1>2. /\ mem.ptr \in [Pointer -> Datum \cup {Null}]
      /\ mem.holders \in [Pointer -> HolderSet \cup {Null}]
      /\ mem.sets = [k \in DOMAIN mem.sets |-> mem.sets[k]]
  BY <1>1 DEF PtrSound, PtrType
<1>3. \A h \in Holders(mem) : mem.ptr[h] \in Datum /\ mem.holders[h] \in HolderSet
  BY <1>1, <1>2 DEF PtrSound, PtrNull, Holders
<1>4. mem.data \subseteq Datum
  BY <1>1, <1>3 DEF PtrSound, PtrData
<1>5. ASSUME NEW k \in DOMAIN mem.sets PROVE k \in HolderSet /\ mem.sets[k] \in SUBSET Pointer
  <2>1. PICK h \in Holders(mem) : k = mem.holders[h]
    BY <1>1 DEF PtrSound, PtrSets
  <2>2. mem.sets[k] = SameDatum(mem, h)
    BY <1>1, <2>1 DEF PtrSound, PtrExact
  <2> QED BY <1>3, <2>1, <2>2 DEF SameDatum
<1> QED BY <1>1, <1>2, <1>4, <1>5 DEF T!TypeOK

\* Each container keeps the types its code relies on: the vectors of
\* util::set stay sorted, the holder sets of the tracked_ptr objects hold
\* pointers, and every link of a Fibonacci heap leads to a node alive.
THEOREM ContainersFitTypes == MCSpec => []ContainersTypeOK
<1>1. QueueInv /\ PrioInv /\ SetInv /\ PtrInv /\ HeapInv => ContainersTypeOK
  BY PrioTyped, SetTyped, PtrTyped, HeapTyped DEF ContainersTypeOK, QueueInv
<1>2. Spec => []QueueInv
  BY QueueBegin, QueueStep, PTL DEF Spec
<1>3. MCSpec => []PrioInv
  BY PrioInit, PrioStep, EachContainer, PTL DEF P!Spec
<1>4. MCSpec => []SetInv
  BY SetInit, SetStep, EachContainer, PTL DEF U!Spec
<1>5. MCSpec => []PtrInv
  BY PtrInit, PtrStep, EachContainer, PTL DEF T!Spec
<1> QED BY <1>1, <1>2, <1>3, <1>4, <1>5, HeapAlways, EachContainer, PTL
=============================================================================
