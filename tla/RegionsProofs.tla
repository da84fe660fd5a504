---------------------------- MODULE RegionsProofs ----------------------------
(***************************************************************************)
(* Facts on which the proofs about several algorithms rest: functions       *)
(* defined by recursion on numbers, site arrays, and what Regions defines   *)
(* on a graph of sites (flat zones, connected sets, numbered objects).      *)
(***************************************************************************)
EXTENDS Regions, FiniteSetTheorems, SequenceTheorems, WellFoundedInduction, TLAPS

-----------------------------------------------------------------------------
(* Recursion on numbers.                                                    *)

LEMMA LeastNat ==
    ASSUME NEW S \in SUBSET Nat, S # {}
    PROVE  \E m \in S : \A n \in S : m <= n
<1>1. PICK m \in S : \A n \in S : ~ (<<n, m>> \in OpToRel(<, Nat))
  BY NatLessThanWellFounded, WFMin
<1>2. ASSUME NEW n \in S PROVE m <= n
  <2>1. ~ (n < m)
    BY <1>1 DEF OpToRel
  <2>2. QED
    BY <2>1
<1>3. QED
  BY <1>2

\* up follows the step F from a, for n steps.
Follows(up, F, a, n, T) ==
    up \in [0..n -> T] /\ up[0] = a /\ \A j \in 1..n : up[j] = F[<<j, up[j - 1]>>]

LEMMA Recursion ==
    ASSUME NEW n \in Nat, NEW T, NEW a \in T, NEW F \in [(1..n) \X T -> T]
    PROVE  \E up : Follows(up, F, a, n, T)
<1> DEFINE Bad == {m \in 0..n : ~ \E up : Follows(up, F, a, m, T)}
<1>1. SUFFICES ASSUME Bad # {} PROVE FALSE
  BY <1>1
<1>2. PICK m \in Bad : \A l \in Bad : m <= l
  <2>1. Bad \in SUBSET Nat
    OBVIOUS
  <2> HIDE DEF Bad
  <2>2. QED
    BY <1>1, <2>1, LeastNat
<1>3. m # 0
  <2>1. Follows([j \in 0..0 |-> a], F, a, 0, T)
    BY DEF Follows
  <2>2. QED
    BY <2>1
<1>4. m - 1 \in 0..n /\ m - 1 \notin Bad
  BY <1>2, <1>3
<1>5. PICK up : Follows(up, F, a, m - 1, T)
  BY <1>4
<1>6. m \in 1..n
  BY <1>2, <1>3
<1> DEFINE next == [j \in 0..m |-> IF j = m THEN F[<<m, up[m - 1]>>] ELSE up[j]]
<1>7. Follows(next, F, a, m, T)
  <2>1. up[m - 1] \in T /\ F[<<m, up[m - 1]>>] \in T
    BY <1>5, <1>6 DEF Follows
  <2>2. next \in [0..m -> T] /\ next[0] = a
    BY <1>5, <1>6, <2>1 DEF Follows
  <2>3. ASSUME NEW j \in 1..m PROVE next[j] = F[<<j, next[j - 1]>>]
    <3>1. j - 1 \in 0..m /\ j - 1 # m /\ next[j - 1] = up[j - 1]
      BY <1>6
    <3>2. CASE j = m
      BY <1>6, <3>1, <3>2
    <3>3. CASE j # m
      <4>1. j \in 1..(m - 1) /\ next[j] = up[j]
        BY <1>6, <3>3
      <4>2. QED
        BY <1>5, <3>1, <4>1 DEF Follows
    <3>4. QED
      BY <3>2, <3>3
  <2>4. QED
    BY <2>2, <2>3 DEF Follows
<1>8. QED
  BY <1>7

-----------------------------------------------------------------------------
(* Ranks in a site array.                                                   *)

IsSiteArray(o) == o \in [1..N -> Site] /\ \A q \in Site : \E j \in 1..N : o[j] = q

Rank(o, q) == CHOOSE j \in 1..N : o[j] = q

LEMMA RankFacts ==
    ASSUME NEW o, IsSiteArray(o)
    PROVE  /\ \A q \in Site : Rank(o, q) \in 1..N /\ o[Rank(o, q)] = q
           /\ \A j \in 1..N : o[j] \in Site /\ Rank(o, o[j]) = j
           /\ \A q, r \in Site : Rank(o, q) = Rank(o, r) => q = r
<1>1. \A q \in Site : Rank(o, q) \in 1..N /\ o[Rank(o, q)] = q
  BY DEF IsSiteArray, Rank
<1>2. \A j \in 1..N : o[j] \in Site
  BY DEF IsSiteArray
<1>3. o \in Injection(1..N, Site)
  <2>1. o \in Surjection(1..N, Site)
    BY DEF IsSiteArray, Surjection
  <2>2. IsFiniteSet(1..N) /\ Cardinality(1..N) = Cardinality(Site)
    BY RegionsAssumption, FS_Interval DEF Site
  <2>3. QED
    BY <2>1, <2>2, FS_SurjSameCardinalityImpliesInj
<1>4. \A j, l \in 1..N : o[j] = o[l] => j = l
  BY <1>3 DEF Injection, IsInjective
<1>5. \A j \in 1..N : Rank(o, o[j]) = j
  BY <1>1, <1>2, <1>4
<1>6. QED
  BY <1>1, <1>2, <1>5

-----------------------------------------------------------------------------
(* Flat zones.                                                              *)

\* Zones are the classes of an equivalence, which joins neighbours of equal
\* value and nothing else.
LEMMA ZoneFacts ==
    ASSUME NEW f, NEW q \in Site
    PROVE  /\ FlatZone(f, q) \subseteq Site /\ q \in FlatZone(f, q)
           /\ \A r \in FlatZone(f, q) : /\ \A C \in Closed(f) : q \in C <=> r \in C
                                       /\ q \in FlatZone(f, r)
                                       /\ FlatZone(f, r) = FlatZone(f, q)
                                       /\ f[r] = f[q]
           /\ \A r \in Neighbours[q] : f[q] = f[r] => r \in FlatZone(f, q)
<1> DEFINE closed == Closed(f)
<1>1. \A r : r \in FlatZone(f, q) <=> r \in Site /\ \A C \in closed : q \in C => r \in C
  BY DEF FlatZone, ZoneIn
<1>2. \A C \in closed : Site \ C \in closed
  <2>1. \A r \in Site : Neighbours[r] \subseteq Site
    BY DEF Neighbours
  <2>2. QED
    BY <2>1 DEF Closed, SiteSets
<1>3. ASSUME NEW r \in FlatZone(f, q), NEW C \in closed
      PROVE  q \in C <=> r \in C
  <2>1. r \in Site /\ (q \in C => r \in C) /\ (q \in Site \ C => r \in Site \ C)
    BY <1>1, <1>2, <1>3
  <2>2. QED
    BY <2>1
<1>4. ASSUME NEW r \in FlatZone(f, q) PROVE FlatZone(f, r) = FlatZone(f, q)
  <2>1. \A u : u \in FlatZone(f, r) <=> u \in Site /\ \A C \in closed : r \in C => u \in C
    BY DEF FlatZone, ZoneIn
  <2> HIDE DEF closed
  <2>2. \A u : u \in FlatZone(f, r) <=> u \in FlatZone(f, q)
    BY <1>1, <1>3, <2>1
  <2>3. FlatZone(f, r) \subseteq FlatZone(f, q) /\ FlatZone(f, q) \subseteq FlatZone(f, r)
    BY <2>2
  <2>4. QED
    BY <2>3
<1>5. ASSUME NEW r \in FlatZone(f, q) PROVE f[r] = f[q]
  <2> DEFINE C == {u \in Site : f[u] = f[q]}
  <2>1. C \in closed
    <3>1. \A u \in Site : Neighbours[u] \subseteq Site
      BY DEF Neighbours
    <3>2. QED
      BY <3>1 DEF Closed, SiteSets
  <2>2. r \in C
    BY <1>1, <1>5, <2>1
  <2>3. QED
    BY <2>2
<1>6. ASSUME NEW r \in Neighbours[q], f[q] = f[r] PROVE r \in FlatZone(f, q)
  <2>1. r \in Site
    BY DEF Neighbours
  <2>2. \A C \in closed : q \in C => r \in C
    BY <1>6 DEF Closed
  <2>3. QED
    BY <1>1, <2>1, <2>2
<1>7. q \in FlatZone(f, q) /\ FlatZone(f, q) \subseteq Site
  BY <1>1
<1>8. QED
  BY <1>3, <1>4, <1>5, <1>6, <1>7

LEMMA NeighboursSymmetric ==
    ASSUME NEW p \in Site, NEW q \in Neighbours[p]
    PROVE  q \in Site /\ p \in Neighbours[q]
BY RegionsAssumption DEF Neighbours

LEMMA SitesAreFinite == IsFiniteSet(Site) /\ Cardinality(Site) = N /\ N \in Nat
BY FS_Interval, RegionsAssumption DEF Site

\* A minimum is the zone of each of its sites.
LEMMA MinimumIsZone ==
    ASSUME NEW f, NEW Z \in Minima(f), NEW q \in Z
    PROVE  /\ q \in Site
           /\ Z = FlatZone(f, q)
           /\ \A r \in Neighbours[q] : f[q] <= f[r]
<1>1. PICK t \in Site : Z = FlatZone(f, t)
  BY DEF Minima, FlatZones, FlatZone
<1>2. q \in Site /\ Z = FlatZone(f, q)
  BY <1>1, ZoneFacts
<1>3. \A r \in Neighbours[q] : f[q] <= f[r]
  BY DEF Minima, IsMinimum
<1> QED BY <1>2, <1>3

-----------------------------------------------------------------------------
(* Connected sets.                                                          *)

\* No closed set cuts a zone.
LEMMA ZoneIsConnected ==
    ASSUME NEW f, NEW q \in Site
    PROVE  IsConnected(FlatZone(f, q))
<1> DEFINE Z == FlatZone(f, q)
<1> SUFFICES ASSUME NEW C \in (SUBSET Z) \ {{}, Z},
                    \A r \in C : Neighbours[r] \cap (Z \ C) = {}
             PROVE  FALSE
  BY DEF IsConnected
<1>1. Z \subseteq Site
  BY ZoneFacts
<1>2. ASSUME NEW r \in Site, NEW t \in Neighbours[r], f[r] = f[t], r \in C
      PROVE  t \in C
  <2>1. r \in Z /\ Z = FlatZone(f, r) /\ t \in FlatZone(f, r)
    BY <1>2, ZoneFacts
  <2> QED BY <1>2, <2>1
<1>3. ASSUME NEW r \in Site, NEW t \in Neighbours[r], f[r] = f[t]
      PROVE  r \in C <=> t \in C
  <2>1. t \in Site /\ r \in Neighbours[t]
    BY NeighboursSymmetric
  <2> QED BY <1>2, <1>3, <2>1
<1>4. C \in Closed(f)
  BY <1>1, <1>3 DEF Closed, SiteSets
<1>5. PICK r \in C : TRUE
  OBVIOUS
<1>6. r \in Z /\ (q \in C <=> r \in C)
  BY <1>4, <1>5, ZoneFacts
<1>7. \A t \in Z : t \in C
  BY <1>4, <1>5, <1>6, ZoneFacts
<1> QED BY <1>7

\* A connected set with a neighbour of one of its sites is connected.
LEMMA ConnectedGrows ==
    ASSUME NEW L \in SUBSET Site, IsConnected(L),
           NEW p \in Site, NEW q \in L, q \in Neighbours[p]
    PROVE  IsConnected(L \cup {p})
<1> DEFINE M == L \cup {p}
<1>0. p \in Neighbours[q]
  BY NeighboursSymmetric
<1>1. CASE p \in L
  <2>1. M = L
    BY <1>1
  <2> QED BY <2>1
<1>2. CASE p \notin L
  <2> SUFFICES ASSUME NEW C \in (SUBSET M) \ {{}, M}
               PROVE  \E r \in C : Neighbours[r] \cap (M \ C) # {}
    BY DEF IsConnected
  <2> DEFINE K == C \ {p}
  <2>1. CASE K \notin {{}, L}
    <3>1. K \in (SUBSET L) \ {{}, L}
      BY <2>1
    <3>2. PICK r \in K : Neighbours[r] \cap (L \ K) # {}
      BY <3>1 DEF IsConnected
    <3>3. L \ K \subseteq M \ C
      BY <1>2
    <3> QED BY <3>2, <3>3
  <2>2. CASE K = {}
    <3>1. C = {p} /\ q \in M \ C
      BY <1>2, <2>2
    <3> QED BY <3>1
  <2>3. CASE K = L
    <3>1. q \in C /\ p \in M \ C
      BY <1>2, <2>3
    <3> QED BY <1>0, <3>1
  <2> QED BY <2>1, <2>2, <2>3
<1> QED BY <1>1, <1>2

-----------------------------------------------------------------------------
(* Objects numbered in the order of a site array.                           *)

\* Sets of sites that do not meet.
Parted(Objs) ==
    /\ \A Z \in Objs : Z \in SUBSET Site /\ Z # {}
    /\ \A Y, Z \in Objs : \A q \in Y : q \in Z => Y = Z

FirstIn(Z, o) == CHOOSE j \in 1..N : o[j] \in Z /\ \A k \in 1..(j - 1) : o[k] \notin Z

\* Those that o meets up to its j-th site.
MetBy(Objs, o, j) == {Y \in Objs : FirstIn(Y, o) <= j}

LEMMA ZonesParted ==
    ASSUME NEW f, NEW Objs \in SUBSET FlatZones(f)
    PROVE  Parted(Objs)
<1>1. \A Z \in Objs : \E q \in Site : Z = FlatZone(f, q)
  BY DEF FlatZones, FlatZone
<1>2. \A Z \in Objs : Z \in SUBSET Site /\ Z # {} /\ \A q \in Z : Z = FlatZone(f, q)
  BY <1>1, ZoneFacts
<1> QED BY <1>2 DEF Parted

LEMMA FirstFacts ==
    ASSUME NEW o, IsSiteArray(o), NEW Z \in SUBSET Site, Z # {}
    PROVE  /\ FirstIn(Z, o) \in 1..N /\ o[FirstIn(Z, o)] \in Z
           /\ \A q \in Z : FirstIn(Z, o) <= Rank(o, q)
           /\ \A k \in 1..N : k < FirstIn(Z, o) => o[k] \notin Z
<1> DEFINE Places == {j \in 1..N : o[j] \in Z}
<1>0. /\ N \in Nat /\ \A q \in Site : Rank(o, q) \in 1..N /\ o[Rank(o, q)] = q
  BY RankFacts, RegionsAssumption
<1>1. Places \in SUBSET Nat /\ Places # {}
  BY <1>0
<1>2. PICK j \in Places : \A k \in Places : j <= k
  BY <1>1, LeastNat
<1>3. j \in 1..N /\ o[j] \in Z /\ \A k \in 1..(j - 1) : o[k] \notin Z
  BY <1>0, <1>2
<1>4. /\ FirstIn(Z, o) \in 1..N /\ o[FirstIn(Z, o)] \in Z
      /\ \A k \in 1..(FirstIn(Z, o) - 1) : o[k] \notin Z
  BY <1>3 DEF FirstIn
<1>5. \A k \in 1..N : k < FirstIn(Z, o) => o[k] \notin Z
  BY <1>0, <1>4
<1>6. ASSUME NEW q \in Z PROVE FirstIn(Z, o) <= Rank(o, q)
  BY <1>0, <1>4, <1>5
<1> QED BY <1>4, <1>5, <1>6

LEMMA PartedFinite ==
    ASSUME NEW Objs, Parted(Objs)
    PROVE  IsFiniteSet(Objs) /\ Cardinality(Objs) \in Nat
<1>1. IsFiniteSet(SUBSET Site)
  BY SitesAreFinite, FS_SUBSET
<1>2. Objs \subseteq SUBSET Site
  BY DEF Parted
<1> QED BY <1>1, <1>2, FS_Subset, FS_CardinalityType

\* At each place o meets one object at most.
LEMMA MetByFacts ==
    ASSUME NEW o, IsSiteArray(o), NEW Objs, Parted(Objs)
    PROVE  /\ MetBy(Objs, o, 0) = {} /\ MetBy(Objs, o, N) = Objs
           /\ \A Y, Z \in Objs : FirstIn(Y, o) = FirstIn(Z, o) => Y = Z
           /\ \A j \in Int : /\ IsFiniteSet(MetBy(Objs, o, j))
                             /\ Cardinality(MetBy(Objs, o, j)) \in Nat
                             /\ Cardinality(MetBy(Objs, o, j)) <= Cardinality(Objs)
           /\ \A j \in 1..N, Z \in Objs : FirstIn(Z, o) = j =>
                /\ MetBy(Objs, o, j) = MetBy(Objs, o, j - 1) \cup {Z}
                /\ Z \notin MetBy(Objs, o, j - 1)
                /\ Cardinality(MetBy(Objs, o, j)) = Cardinality(MetBy(Objs, o, j - 1)) + 1
           /\ \A j \in 1..N : (\A Z \in Objs : FirstIn(Z, o) # j) =>
                MetBy(Objs, o, j) = MetBy(Objs, o, j - 1)
<1>0. N \in Nat /\ \A Z \in Objs : FirstIn(Z, o) \in 1..N /\ o[FirstIn(Z, o)] \in Z
  BY FirstFacts, RegionsAssumption DEF Parted
<1>1. MetBy(Objs, o, 0) = {} /\ MetBy(Objs, o, N) = Objs
  BY <1>0 DEF MetBy
<1>2. ASSUME NEW Y \in Objs, NEW Z \in Objs, FirstIn(Y, o) = FirstIn(Z, o) PROVE Y = Z
  BY <1>0, <1>2 DEF Parted
<1>3. ASSUME NEW j \in Int
      PROVE  /\ IsFiniteSet(MetBy(Objs, o, j))
             /\ Cardinality(MetBy(Objs, o, j)) \in Nat
             /\ Cardinality(MetBy(Objs, o, j)) <= Cardinality(Objs)
  <2>1. MetBy(Objs, o, j) \subseteq Objs
    BY DEF MetBy
  <2> QED BY <2>1, PartedFinite, FS_Subset, FS_CardinalityType
<1>4. ASSUME NEW j \in 1..N, NEW Z \in Objs, FirstIn(Z, o) = j
      PROVE  /\ MetBy(Objs, o, j) = MetBy(Objs, o, j - 1) \cup {Z}
             /\ Z \notin MetBy(Objs, o, j - 1)
             /\ Cardinality(MetBy(Objs, o, j)) = Cardinality(MetBy(Objs, o, j - 1)) + 1
  <2>1. \A Y \in Objs : FirstIn(Y, o) <= j <=> FirstIn(Y, o) <= j - 1 \/ FirstIn(Y, o) = j
    BY <1>0
  <2>2. \A Y \in Objs : FirstIn(Y, o) = j <=> Y = Z
    BY <1>2, <1>4
  <2>3. MetBy(Objs, o, j) = MetBy(Objs, o, j - 1) \cup {Z}
    BY <2>1, <2>2 DEF MetBy
  <2>4. Z \notin MetBy(Objs, o, j - 1)
    BY <1>0, <1>4 DEF MetBy
  <2>5. j - 1 \in Int
    OBVIOUS
  <2> QED BY <1>3, <2>3, <2>4, <2>5, FS_AddElement
<1>5. ASSUME NEW j \in 1..N, \A Z \in Objs : FirstIn(Z, o) # j
      PROVE  MetBy(Objs, o, j) = MetBy(Objs, o, j - 1)
  <2>1. \A Y \in Objs : FirstIn(Y, o) <= j <=> FirstIn(Y, o) <= j - 1
    BY <1>0, <1>5
  <2> QED BY <2>1 DEF MetBy
<1> QED BY <1>1, <1>2, <1>3, <1>4, <1>5

\* The number of an object is that of the objects met so far, its own included;
\* two objects have different numbers.
LEMMA NumberedFacts ==
    ASSUME NEW o, IsSiteArray(o), NEW Objs, Parted(Objs)
    PROVE  /\ Numbered(Objs, o) = [q \in Site |-> Numbered(Objs, o)[q]]
           /\ \A q \in Site : q \notin UNION Objs => Numbered(Objs, o)[q] = 0
           /\ \A Z \in Objs : \A q \in Z :
                /\ Numbered(Objs, o)[q] = Cardinality(MetBy(Objs, o, FirstIn(Z, o)))
                /\ Numbered(Objs, o)[q] \in 1..Cardinality(Objs)
           /\ \A Y, Z \in Objs : \A q \in Y, r \in Z :
                Numbered(Objs, o)[q] = Numbered(Objs, o)[r] => Y = Z
<1> DEFINE full == Numbered(Objs, o)
           Card(Z) == Cardinality(MetBy(Objs, o, FirstIn(Z, o)))
<1>1. \A q \in Site : full[q] = IF q \in UNION Objs THEN Card(CHOOSE Z \in Objs : q \in Z) ELSE 0
  BY DEF Numbered, MetBy, FirstIn
<1>2. full = [q \in Site |-> full[q]]
  BY DEF Numbered
<1>3. ASSUME NEW Z \in Objs, NEW q \in Z PROVE full[q] = Card(Z)
  <2>1. q \in Site /\ \A Y \in Objs : q \in Y => Y = Z
    BY DEF Parted
  <2>2. (CHOOSE Y \in Objs : q \in Y) = Z
    BY <2>1
  <2>3. q \in UNION Objs
    OBVIOUS
  <2> HIDE DEF Card, full
  <2> QED BY <1>1, <2>1, <2>2, <2>3
<1>4. ASSUME NEW Z \in Objs PROVE Card(Z) \in 1..Cardinality(Objs)
  <2> DEFINE j == FirstIn(Z, o)
  <2>1. j \in 1..N /\ j \in Int /\ j - 1 \in Int
    BY FirstFacts DEF Parted
  <2>2. /\ Card(Z) = Cardinality(MetBy(Objs, o, j - 1)) + 1
        /\ Cardinality(MetBy(Objs, o, j - 1)) \in Nat /\ Card(Z) <= Cardinality(Objs)
        /\ Cardinality(Objs) \in Nat
    BY <2>1, MetByFacts, PartedFinite
  <2> QED BY <2>2
<1>5. ASSUME NEW Y \in Objs, NEW Z \in Objs, FirstIn(Y, o) < FirstIn(Z, o)
      PROVE  Card(Y) # Card(Z)
  <2> DEFINE j == FirstIn(Z, o)
  <2>1. j \in 1..N /\ j \in Int /\ j - 1 \in Int /\ FirstIn(Y, o) \in Int
    BY FirstFacts DEF Parted
  <2>2. MetBy(Objs, o, FirstIn(Y, o)) \subseteq MetBy(Objs, o, j - 1)
    <3>1. \A X \in Objs : FirstIn(X, o) \in Int
      BY FirstFacts DEF Parted
    <3> QED BY <1>5, <2>1, <3>1 DEF MetBy
  <2>3. /\ IsFiniteSet(MetBy(Objs, o, j - 1)) /\ Cardinality(MetBy(Objs, o, j - 1)) \in Nat
        /\ Card(Z) = Cardinality(MetBy(Objs, o, j - 1)) + 1
        /\ Card(Y) \in Nat
    BY <2>1, MetByFacts
  <2>4. Card(Y) <= Cardinality(MetBy(Objs, o, j - 1))
    BY <2>2, <2>3, FS_Subset
  <2> QED BY <2>3, <2>4
<1>6. ASSUME NEW Y \in Objs, NEW Z \in Objs, Card(Y) = Card(Z) PROVE Y = Z
  <2>1. FirstIn(Y, o) \in Int /\ FirstIn(Z, o) \in Int
    BY FirstFacts DEF Parted
  <2>2. ~ (FirstIn(Y, o) < FirstIn(Z, o)) /\ ~ (FirstIn(Z, o) < FirstIn(Y, o))
    BY <1>5, <1>6
  <2>3. FirstIn(Y, o) = FirstIn(Z, o)
    BY <2>1, <2>2
  <2> QED BY <2>3, MetByFacts
<1>7. \A q \in Site : q \notin UNION Objs => full[q] = 0
  BY <1>1
<1> HIDE DEF full, Card
<1>8. \A Z \in Objs : \A q \in Z : full[q] = Card(Z) /\ full[q] \in 1..Cardinality(Objs)
  BY <1>3, <1>4
<1>9. \A Y, Z \in Objs : \A q \in Y, r \in Z : full[q] = full[r] => Y = Z
  BY <1>3, <1>6
<1> QED BY <1>2, <1>7, <1>8, <1>9 DEF full, Card
=============================================================================
