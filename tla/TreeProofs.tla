----------------------------- MODULE TreeProofs ------------------------------
(***************************************************************************)
(* Proofs about the component tree, for every image, neighborhood and       *)
(* sorted site array.  First ComponentTree: the links always follow s, each *)
(* union binds a site once, the trees are the connected components of every *)
(* level set, and canonization leaves only nodes as parents.  Then TreeData *)
(* and TreeFilters: the nodes stored are the components of the level sets,  *)
(* an attribute takes each site of a component once, and each filter and    *)
(* propagation returns what it is defined to.                               *)
(***************************************************************************)
EXTENDS TreeFilters, FiniteSetTheorems, SequenceTheorems, WellFoundedInduction, TLAPS

-----------------------------------------------------------------------------
(* The inductive invariant.                                                 *)

InputsInv == Enumerates(s) /\ Sorted(f, s)

\* A site is seen once the first loop has left it.
SeenInv == pc = "make_set" \/ Merging =>
             \A q \in Site : deja_vu[q] <=> Rank(s, q) > i

\* The niter yields neighbours of p.
TodoInv == Merging => todo \subseteq Nbh[p]

\* A site that is no root for parent is none for zpar either.
RootsInv == \A q \in Made : zpar[q] = q <=> parent[q] = q

\* The search is about a seen neighbour; its pending calls are a chain of
\* zpar links going down in s, and on the way back the chain behind the last
\* pending call is already compressed.
SearchInv ==
    Searching =>
      /\ n \in Nbh[p] /\ n \in Site /\ Rank(s, n) > i
      /\ x \in Made
      /\ \A h \in 1..Len(path) :
           /\ path[h] \in Made
           /\ Rank(s, path[h]) > Rank(s, x)
           /\ \A j \in 1..(h - 1) : Rank(s, path[j]) > Rank(s, path[h])
           /\ h < Len(path) => zpar[path[h]] = path[h + 1]
      /\ pc = "find_root" /\ path # <<>> => zpar[path[Len(path)]] = x
      /\ pc = "compress" =>
           /\ zpar[x] = x
           /\ path # <<>> => zpar[zpar[path[Len(path)]]] = x

\* Compression changes zpar, never the components it describes.
ZparInv == \A C \in SUBSET Site :
              LinkClosed(zpar, Made, C) <=> LinkClosed(parent, Made, C)

\* The trees hold nothing but neighbours ...
SoundInv == Merging => \A C \in SUBSET Site :
              NbhClosed(Made, C) => LinkClosed(parent, Made, C)

\* ... and every neighbour of p dealt with so far.
ProgressInv ==
    Merging =>
      /\ parent[p] = p
      /\ \A C \in SUBSET Site : LinkClosed(parent, Made, C) =>
           /\ \A m \in Nbh[p] :
                m \in Site /\ Rank(s, m) > i /\ m \notin todo
                  /\ (Searching => m # n) => (m \in C <=> p \in C)
           /\ Searching => (n \in C <=> x \in C)

SameParts(D) == \A C \in SUBSET Site :
                  LinkClosed(parent, D, C) <=> NbhClosed(D, C)

LevelsInv ==
    \A h \in 1..N :
      IF pc = "make_set" \/ Merging THEN h > i => SameParts(LevelFrom(h))
                                    ELSE IsCut(h) => SameParts(LevelFrom(h))

CanonInv ==
    \A q \in Site : pc = "done" \/ (pc = "canonize" /\ Rank(s, q) < i)
                      => IsNode(parent[q])

\* What the order of the links rests on ...
OrderInv == /\ TypeOK
            /\ InputsInv
            /\ LinksFollowS
            /\ SeenInv
            /\ TodoInv
            /\ RootsInv
            /\ SearchInv
            /\ CanonInv

\* ... and what the components rest on.
PartsInv == /\ ZparInv
            /\ SoundInv
            /\ ProgressInv
            /\ LevelsInv

IInv == OrderInv /\ PartsInv

-----------------------------------------------------------------------------
(* Ranks in a site array.                                                   *)

LEMMA RankFacts ==
    ASSUME NEW o, Enumerates(o)
    PROVE  /\ \A q \in Site : Rank(o, q) \in 1..N /\ o[Rank(o, q)] = q
           /\ \A j \in 1..N : o[j] \in Site /\ Rank(o, o[j]) = j
           /\ \A q, r \in Site : Rank(o, q) = Rank(o, r) => q = r
<1>1. \A q \in Site : Rank(o, q) \in 1..N /\ o[Rank(o, q)] = q
  BY DEF Enumerates, Rank
<1>2. \A j \in 1..N : o[j] \in Site
  BY DEF Enumerates
<1>3. \A j \in 1..N : Rank(o, o[j]) = j
  BY <1>1, <1>2 DEF Enumerates
<1>4. QED
  BY <1>1, <1>2, <1>3

LEMMA LevelFacts ==
    ASSUME NEW o, Enumerates(o), NEW h \in Int, h >= 1, NEW q
    PROVE  q \in {o[j] : j \in h..N} <=> q \in Site /\ Rank(o, q) >= h
BY RankFacts, NAssumption

-----------------------------------------------------------------------------
(* Order of the links.                                                      *)

LEMMA OrderInit == Init => OrderInv
<1> SUFFICES ASSUME Init PROVE OrderInv
  OBVIOUS
<1> USE DEF Init, Start
<1>1. TypeOK
  BY NAssumption DEF TypeOK, PC, Site, Unset
<1>2. InputsInv
  BY DEF InputsInv
<1>3. Made = {}
  BY NAssumption DEF Made, First, LevelFrom
<1>4. LinksFollowS /\ RootsInv
  BY <1>3 DEF LinksFollowS, RootsInv
<1>5. SeenInv
  BY RankFacts, NAssumption DEF SeenInv
<1>6. TodoInv /\ SearchInv /\ CanonInv
  BY DEF TodoInv, SearchInv, CanonInv, Merging, Searching
<1>7. QED
  BY <1>1, <1>2, <1>4, <1>5, <1>6 DEF OrderInv

\* How the set of made sites, and the ranks around it, change.
LEMMA MadeFacts ==
    ASSUME TypeOK, InputsInv
    PROVE  /\ \A q : q \in Made <=> q \in Site /\ Rank(s, q) >= First
           /\ First \in 1..(N + 1)
           /\ p \in Site /\ Rank(s, p) = i
<1>1. First \in 1..(N + 1)
  BY NAssumption DEF TypeOK, First
<1>2. \A q : q \in Made <=> q \in Site /\ Rank(s, q) >= First
  BY <1>1, LevelFacts DEF InputsInv, Made, LevelFrom
<1>3. p \in Site /\ Rank(s, p) = i
  BY RankFacts DEF TypeOK, InputsInv, p
<1>4. QED
  BY <1>1, <1>2, <1>3

LEMMA MadeStep ==
    ASSUME TypeOK, InputsInv, Next
    PROVE  Made' = IF pc = "make_set" THEN Made \cup {p} ELSE Made
<1> DEFINE from(h) == {s[j] : j \in h..N}
<1>0. s' = s /\ i \in 1..N
  BY DEF Next, MakeSet, SkipNeighbour, VisitNeighbour, FindRootCall,
         FindRootBase, FindRootReturn, DoUnion, NextSite, Canonize, Returned,
         inputs, vars, TypeOK
<1>1. Made = from(First) /\ Made' = from(First')
  BY <1>0 DEF Made, LevelFrom
<1>2. CASE MakeSet
  <2>1. First = i + 1 /\ First' = i
    BY <1>2 DEF MakeSet, First, Merging, Searching
  <2>2. from(i) = from(i + 1) \cup {s[i]}
    BY <1>0, NAssumption
  <2>3. QED
    BY <1>1, <1>2, <2>1, <2>2 DEF MakeSet, p
<1>3. CASE NextSite
  <2>1. First = i /\ First' = i
    BY <1>0, <1>3, NAssumption DEF NextSite, First, Merging, Searching
  <2>2. QED
    BY <1>1, <1>3, <2>1 DEF NextSite
<1>4. CASE SkipNeighbour \/ VisitNeighbour \/ FindRootCall \/ FindRootBase
             \/ FindRootReturn \/ DoUnion \/ Canonize \/ Returned
  <2>1. First' = First /\ pc # "make_set"
    BY <1>4 DEF SkipNeighbour, VisitNeighbour, FindRootCall, FindRootBase,
                FindRootReturn, DoUnion, Canonize, Returned, vars,
                First, Merging, Searching
  <2>2. QED
    BY <1>1, <2>1
<1>5. QED
  BY <1>2, <1>3, <1>4 DEF Next

LEMMA OrderStutter == OrderInv /\ UNCHANGED vars => OrderInv'
BY DEF OrderInv, vars, TypeOK, InputsInv, LinksFollowS, SeenInv, TodoInv,
       RootsInv, SearchInv, CanonInv, Made, LevelFrom, First, Merging,
       Searching, p, IsNode, IsRoot

LEMMA OrderStep ==
    ASSUME OrderInv, Next
    PROVE  OrderInv'
<1> USE DEF OrderInv
<1>a. /\ InputsInv' /\ s' = s /\ f' = f
      /\ p \in Site /\ Rank(s, p) = i /\ i \in 1..N
  <2>1. s' = s /\ f' = f
    BY DEF Next, MakeSet, SkipNeighbour, VisitNeighbour, FindRootCall,
           FindRootBase, FindRootReturn, DoUnion, NextSite, Canonize, Returned,
           inputs, vars
  <2>2. QED
    BY <2>1, MadeFacts DEF InputsInv, TypeOK
<1>b. /\ Made' = IF pc = "make_set" THEN Made \cup {p} ELSE Made
      /\ \A q : q \in Made <=> q \in Site /\ Rank(s, q) >= First
  BY MadeFacts, MadeStep
<1>c. /\ \A q \in Site : Rank(s, q) \in 1..N
      /\ \A q, r \in Site : Rank(s, q) = Rank(s, r) => q = r
      /\ N \in Nat \ {0} /\ Unset \notin Site
  BY RankFacts, NAssumption DEF InputsInv, Site, Unset
<1>1. CASE MakeSet
  <2> USE <1>1 DEF MakeSet
  <2>1. TypeOK'
    BY <1>a, <1>b, <1>c, NbhAssumption DEF TypeOK, PC, inputs
  <2>2. First = i + 1 /\ p \notin Made
    BY <1>a, <1>b DEF First, TypeOK
  <2>3. \A q \in Made' : /\ q # p => q \in Made /\ parent'[q] = parent[q]
                                            /\ zpar'[q] = zpar[q]
                         /\ q = p => parent'[q] = p /\ zpar'[q] = p
    BY <1>a, <1>b DEF TypeOK
  <2>4. LinksFollowS'
    BY <1>a, <1>b, <1>c, <2>2, <2>3 DEF LinksFollowS
  <2>5. RootsInv'
    BY <1>a, <1>b, <2>2, <2>3 DEF RootsInv
  <2>6. SeenInv' /\ TodoInv' /\ SearchInv' /\ CanonInv'
    BY <1>a DEF SeenInv, TodoInv, p, SearchInv, CanonInv, Merging, Searching
  <2>7. QED
    BY <1>a, <2>1, <2>4, <2>5, <2>6
<1>2. CASE SkipNeighbour
  <2> USE <1>2 DEF SkipNeighbour
  <2>1. TypeOK'
    BY <1>a DEF TypeOK, PC, inputs
  <2>2. /\ LinksFollowS' /\ RootsInv' /\ SeenInv' /\ TodoInv'
        /\ SearchInv' /\ CanonInv'
    BY <1>a, <1>b DEF LinksFollowS, RootsInv, SeenInv, TodoInv, SearchInv,
                      CanonInv, p, Merging, Searching
  <2>3. QED
    BY <1>a, <2>1, <2>2
<1>3. CASE VisitNeighbour
  <2> USE <1>3 DEF VisitNeighbour
  <2>1. TypeOK'
    BY <1>a DEF TypeOK, PC, inputs, Seen
  <2>2. LinksFollowS' /\ RootsInv' /\ SeenInv' /\ TodoInv' /\ CanonInv'
    BY <1>a, <1>b DEF LinksFollowS, RootsInv, SeenInv, TodoInv, CanonInv,
                      p, Merging, Searching
  <2>3. SearchInv'
    BY <1>a, <1>b, <1>c DEF SearchInv, SeenInv, TodoInv, p, Searching, Merging, Seen,
                             First, TypeOK
  <2>4. QED
    BY <1>a, <2>1, <2>2, <2>3
<1>4. CASE FindRootCall
  <2> USE <1>4 DEF FindRootCall
  <2>0. Searching /\ Merging /\ First = i
    BY DEF Searching, Merging, First
  <2>1. /\ x \in Made /\ zpar[x] \in Made
        /\ Rank(s, zpar[x]) < Rank(s, x)
    BY <1>b, <1>c, <2>0 DEF SearchInv, LinksFollowS
  <2>2. TypeOK'
    BY <1>a, <1>b, <2>1 DEF TypeOK, inputs
  <2>3. LinksFollowS' /\ RootsInv' /\ SeenInv' /\ TodoInv' /\ CanonInv'
    BY <1>a, <1>b DEF LinksFollowS, RootsInv, SeenInv, TodoInv, CanonInv,
                      p, Merging, Searching
  <2>4. /\ path \in Seq(Site) /\ Len(path) \in Nat
        /\ Len(path') = Len(path) + 1 /\ path'[Len(path')] = x
        /\ \A h \in 1..Len(path) : path'[h] = path[h]
        /\ path # <<>> => Len(path) > 0
    BY <1>b, <2>1 DEF TypeOK
  <2>5. \A h \in 1..Len(path) : /\ path[h] \in Made
                                /\ Rank(s, path[h]) > Rank(s, x)
    BY <2>0 DEF SearchInv
  <2>6. \A h \in 1..Len(path') :
          /\ path'[h] \in Made
          /\ Rank(s, path'[h]) > Rank(s, x')
          /\ \A j \in 1..(h - 1) : Rank(s, path'[j]) > Rank(s, path'[h])
          /\ h < Len(path') => zpar[path'[h]] = path'[h + 1]
    <3> SUFFICES ASSUME NEW h \in 1..Len(path')
                 PROVE  /\ path'[h] \in Made
                        /\ Rank(s, path'[h]) > Rank(s, x')
                        /\ \A j \in 1..(h - 1) :
                             Rank(s, path'[j]) > Rank(s, path'[h])
                        /\ h < Len(path') => zpar[path'[h]] = path'[h + 1]
      OBVIOUS
    <3>1. CASE h = Len(path')
      BY <1>b, <1>c, <2>1, <2>4, <2>5, <3>1
    <3>2. CASE h = Len(path)
      <4>1. path'[h] = path[h] /\ path'[h + 1] = x /\ zpar[path[h]] = x
        BY <2>0, <2>4, <3>2 DEF SearchInv
      <4>2. QED
        BY <1>b, <1>c, <2>0, <2>1, <2>4, <2>5, <3>2, <4>1 DEF SearchInv
    <3>3. CASE h < Len(path)
      <4>1. path'[h] = path[h] /\ path'[h + 1] = path[h + 1]
        BY <2>4, <3>3
      <4>2. zpar[path[h]] = path[h + 1]
        BY <2>0, <2>4, <3>3 DEF SearchInv
      <4>3. QED
        BY SMTT(30), <1>b, <1>c, <2>0, <2>1, <2>4, <2>5, <3>3, <4>1, <4>2 DEF SearchInv
    <3>4. QED
      BY <2>4, <3>1, <3>2, <3>3
  <2>7. SearchInv'
    BY <1>a, <1>b, <2>0, <2>1, <2>4, <2>6 DEF SearchInv, Searching, p
  <2>8. QED
    BY <1>a, <2>2, <2>3, <2>7
<1>5. CASE FindRootBase
  <2> USE <1>5 DEF FindRootBase
  <2>1. TypeOK'
    BY <1>a DEF TypeOK, PC, inputs
  <2>2. LinksFollowS' /\ RootsInv' /\ SeenInv' /\ TodoInv' /\ CanonInv'
    BY <1>a, <1>b DEF LinksFollowS, RootsInv, SeenInv, TodoInv, CanonInv,
                      p, Merging, Searching
  <2>3. SearchInv'
    BY <1>a, <1>b DEF SearchInv, Searching, p
  <2>4. QED
    BY <1>a, <2>1, <2>2, <2>3
<1>6. CASE FindRootReturn
  <2> USE <1>6 DEF FindRootReturn
  <2> DEFINE L == Len(path)
             y == path[L]
  <2>0. Searching /\ Merging /\ First = i
    BY DEF Searching, Merging, First
  <2>1. path \in Seq(Site) /\ L \in Nat /\ L > 0
    BY DEF TypeOK
  <2>2. /\ Len(path') = L - 1
        /\ \A h \in 1..(L - 1) : path'[h] = path[h]
        /\ path' \in Seq(Site)
    <3>1. path' = SubSeq(path, 1, L - 1) /\ 1 \in 1..(L + 1) /\ L - 1 \in 0..L
      BY <2>1
    <3>2. \A h \in 1..(L - 1) : path[h] \in Site
      BY <2>1
    <3> HIDE DEF L
    <3>3. /\ SubSeq(path, 1, L - 1) \in Seq(Site)
          /\ Len(SubSeq(path, 1, L - 1)) = L - 1
          /\ \A h \in 1..(L - 1) : SubSeq(path, 1, L - 1)[h] = path[h]
      BY <2>1, <3>2, SubSeqProperties
    <3>4. QED
      BY <3>1, <3>3
  <2>3. /\ x \in Made /\ y \in Made /\ Rank(s, y) > Rank(s, x)
        /\ zpar[x] = x /\ zpar[zpar[y]] = x
    BY <2>0, <2>1 DEF SearchInv
  <2>4. /\ x \in Site /\ y \in Site /\ x # y /\ zpar[y] # y
        /\ zpar'[y] = x
        /\ \A q \in Site : q # y => zpar'[q] = zpar[q]
    <3>1. x \in Site /\ y \in Site
      BY <1>b, <2>3
    <3>2. Rank(s, x) \in 1..N /\ Rank(s, y) \in 1..N
      BY <1>c, <3>1
    <3>3. x # y
      BY <2>3, <3>2
    <3>4. zpar[y] # y
      BY <2>3, <3>3
    <3>5. zpar \in [Site -> Site \cup {Unset}] /\ zpar' = [zpar EXCEPT ![y] = x]
      BY DEF TypeOK
    <3> HIDE DEF y
    <3> QED BY <3>1, <3>3, <3>4, <3>5
  <2>5. TypeOK'
    BY <1>a, <2>2, <2>4 DEF TypeOK, inputs
  <2>6. LinksFollowS'
    BY <1>a, <1>b, <1>c, <2>0, <2>3, <2>4 DEF LinksFollowS
  <2>7. RootsInv'
    BY <1>b, <2>0, <2>3, <2>4 DEF RootsInv
  <2>8. SeenInv' /\ TodoInv' /\ CanonInv'
    BY <1>a DEF SeenInv, TodoInv, CanonInv, p, Merging, Searching
  <2>9. \A h \in 1..(L - 1) :
          /\ path[h] \in Made
          /\ Rank(s, path[h]) > Rank(s, x)
          /\ \A j \in 1..(h - 1) : Rank(s, path[j]) > Rank(s, path[h])
          /\ zpar[path[h]] = path[h + 1]
          /\ path[h] # y
    <3> SUFFICES ASSUME NEW h \in 1..(L - 1)
                 PROVE  /\ path[h] \in Made
                        /\ Rank(s, path[h]) > Rank(s, x)
                        /\ \A j \in 1..(h - 1) :
                             Rank(s, path[j]) > Rank(s, path[h])
                        /\ zpar[path[h]] = path[h + 1]
                        /\ path[h] # y
      OBVIOUS
    <3>1. h \in 1..L /\ h < L
      BY <2>1
    <3>2. Rank(s, path[h]) > Rank(s, y)
      <4>1. L \in 1..Len(path) /\ h \in 1..(L - 1)
        BY <2>1
      <4>2. QED
        BY <2>0, <4>1 DEF SearchInv
    <3>3. Rank(s, y) \in 1..N
      BY <1>b, <1>c, <2>3
    <3>4. QED
      BY <2>0, <3>1, <3>2, <3>3 DEF SearchInv
  <2>10. L > 1 => zpar'[zpar'[path[L - 1]]] = x
    BY <1>b, <2>1, <2>4, <2>9
  <2>11. SearchInv'
    <3>1. \A h \in 1..Len(path') :
            /\ path'[h] \in Made
            /\ Rank(s, path'[h]) > Rank(s, x)
            /\ \A j \in 1..(h - 1) : Rank(s, path'[j]) > Rank(s, path'[h])
            /\ h < Len(path') => zpar'[path'[h]] = path'[h + 1]
      BY <1>b, <2>1, <2>2, <2>4, <2>9
    <3>2. path' # <<>> => path'[Len(path')] = path[L - 1] /\ L > 1
      BY <2>1, <2>2
    <3>3. zpar'[x] = x
      BY <2>3, <2>4
    <3>4. QED
      BY <1>a, <1>b, <2>0, <2>3, <2>10, <3>1, <3>2, <3>3
         DEF SearchInv, Searching, p
  <2>12. QED
    BY <1>a, <2>5, <2>6, <2>7, <2>8, <2>11
<1>7. CASE DoUnion
  <2> USE <1>7 DEF DoUnion
  <2>0. Searching /\ Merging /\ First = i
    BY DEF Searching, Merging, First
  <2>1. x \in Made /\ zpar[x] = x /\ parent[x] = x /\ p \in Made
    BY <1>a, <1>b, <1>c, <2>0 DEF SearchInv, RootsInv
  <2>2. TypeOK'
    BY <1>a, <1>b, <2>1 DEF TypeOK, PC, inputs
  <2>3. \A q \in Site : /\ q # x => parent'[q] = parent[q] /\ zpar'[q] = zpar[q]
                        /\ q = x => parent'[q] = p /\ zpar'[q] = p
    BY <1>b, <2>1 DEF TypeOK
  <2>4. LinksFollowS'
    BY <1>a, <1>b, <1>c, <2>0, <2>1, <2>3 DEF LinksFollowS
  <2>5. RootsInv'
    BY <1>b, <2>0, <2>1, <2>3 DEF RootsInv
  <2>6. SeenInv' /\ TodoInv' /\ SearchInv' /\ CanonInv'
    BY <1>a DEF SeenInv, TodoInv, SearchInv, CanonInv, p, Merging, Searching
  <2>7. QED
    BY <1>a, <2>2, <2>4, <2>5, <2>6
<1>8. CASE NextSite
  <2> USE <1>8 DEF NextSite
  <2>1. TypeOK'
    BY <1>a, NAssumption DEF TypeOK, PC, inputs
  <2>2. LinksFollowS' /\ RootsInv'
    BY <1>a, <1>b DEF LinksFollowS, RootsInv
  <2>3. SeenInv'
    <3>1. \A q \in Site : deja_vu'[q] <=> Rank(s, q) > i - 1
      BY <1>a, <1>c DEF SeenInv, TypeOK, Merging
    <3>2. QED
      BY <1>a, <3>1 DEF SeenInv, Merging, Searching
  <2>4. TodoInv' /\ SearchInv'
    BY DEF TodoInv, SearchInv, Merging, Searching
  <2>5. CanonInv'
    BY <1>a, <1>c DEF CanonInv
  <2>6. QED
    BY <1>a, <2>1, <2>2, <2>3, <2>4, <2>5
<1>9. CASE Canonize
  <2> USE <1>9 DEF Canonize
  <2> DEFINE q == parent[p]
             g == parent[q]
             nextNode(m) == parent'[m] = m \/ f[parent'[m]] # f[m]
  <2>0. Made = Site
    BY <1>b, <1>c DEF First, Merging, Searching
  <2>1. /\ q \in Site /\ Rank(s, q) <= i
        /\ g \in Site /\ Rank(s, g) <= Rank(s, q)
    BY <1>a, <2>0 DEF LinksFollowS
  <2>2. TypeOK'
    BY <1>a, <2>1, NAssumption DEF TypeOK, PC, inputs
  <2>3. /\ \A r \in Site : r # p => parent'[r] = parent[r]
        /\ parent'[p] = IF f[g] = f[q] THEN g ELSE q
    BY <1>a, <2>1 DEF TypeOK
  <2>4. LinksFollowS'
    BY <1>a, <1>b, <1>c, <2>0, <2>1, <2>3 DEF LinksFollowS
  <2>5. RootsInv'
    BY <1>a, <1>b, <1>c, <2>0, <2>1, <2>3 DEF RootsInv, LinksFollowS
  <2>6. SeenInv' /\ TodoInv' /\ SearchInv'
    BY DEF SeenInv, TodoInv, SearchInv, Merging, Searching
  <2>7. nextNode(parent'[p])
    <3>1. CASE q = p
      BY <1>a, <2>3, <3>1
    <3>2. CASE q # p
      <4>1. Rank(s, q) < i
        BY <1>a, <1>c, <2>1, <3>2
      <4>2. IsNode(g)
        BY <2>1, <4>1 DEF CanonInv
      <4>3. g # p
        BY <1>a, <1>c, <2>1, <4>1
      <4>4. QED
        BY <1>a, <2>1, <2>3, <3>2, <4>2, <4>3 DEF IsNode, IsRoot
    <3>3. QED
      BY <3>1, <3>2
  <2>8. \A r \in Site : Rank(s, r) < i => nextNode(parent'[r])
    <3> SUFFICES ASSUME NEW r \in Site, Rank(s, r) < i
                 PROVE  nextNode(parent'[r])
      OBVIOUS
    <3>1. parent'[r] = parent[r] /\ IsNode(parent[r])
      BY <1>a, <2>3 DEF CanonInv
    <3>2. /\ parent[r] \in Site /\ Rank(s, parent[r]) < i
      BY <1>a, <1>c, <2>0 DEF LinksFollowS
    <3>3. QED
      BY <1>a, <2>3, <3>1, <3>2 DEF IsNode, IsRoot
  <2>9. CanonInv'
    <3> HIDE DEF nextNode
    <3>1. \A r \in Site : Rank(s, r) <= i => nextNode(parent'[r])
      BY <1>a, <1>c, <2>7, <2>8
    <3>2. \A r \in Site : pc' = "done" \/ (pc' = "canonize" /\ Rank(s, r) < i')
                             => Rank(s, r) <= i
      BY <1>a, <1>c
    <3>3. \A r \in Site : nextNode(parent'[r]) => IsNode(parent[r])'
      BY <1>a DEF nextNode, IsNode, IsRoot
    <3>4. QED
      BY <1>a, <3>1, <3>2, <3>3 DEF CanonInv
  <2>10. QED
    BY <1>a, <2>2, <2>4, <2>5, <2>6, <2>9
<1>10. CASE Returned
  BY <1>10, OrderStutter DEF Returned
<1>11. QED
  BY <1>1, <1>2, <1>3, <1>4, <1>5, <1>6, <1>7, <1>8, <1>9, <1>10 DEF Next

\* In every reachable state the images are well formed, and following parent
\* or zpar from a site only goes down in s.
THEOREM LinksAlwaysFollowS == Spec => [](TypeOK /\ LinksFollowS)
<1>1. OrderInv /\ [Next]_vars => OrderInv'
  BY OrderStep, OrderStutter
<1>2. OrderInv => TypeOK /\ LinksFollowS
  BY DEF OrderInv
<1>3. QED
  BY <1>1, <1>2, OrderInit, PTL DEF Spec

\* In every state the images keep their domain and the recursion of zfind_root
\* stays on sites, so that no access to parent or zpar is out of the domain.
THEOREM ImagesAreWellFormed == Spec => []TypeOK
<1>1. OrderInv => TypeOK
  BY DEF OrderInv
<1>2. OrderInv /\ [Next]_vars => OrderInv'
  BY OrderStep, OrderStutter
<1>3. QED
  BY <1>1, <1>2, OrderInit, PTL DEF Spec

\* The parent image that is returned is canonized: every parent is a node.
THEOREM ParentsAreNodes == Spec => []ParentIsNode
<1>1. OrderInv /\ [Next]_vars => OrderInv'
  BY OrderStep, OrderStutter
<1>2. OrderInv => ParentIsNode
  BY DEF OrderInv, CanonInv, ParentIsNode
<1>3. QED
  BY <1>1, <1>2, OrderInit, PTL DEF Spec

\* A step of the first loop gives no second parent to a site: only Do-Union
\* rewrites parent, and what it rewrites is a root, compressed or not.
THEOREM ParentsAreBoundOnce == Spec => ParentBoundOnce
<1> DEFINE Bound == \A q \in Made : pc # "canonize" /\ parent[q] # q
                                     => parent'[q] = parent[q]
<1>1. OrderInv /\ [Next]_vars => OrderInv'
  BY OrderStep, OrderStutter
<1>2. OrderInv /\ Next => Bound
  <2> SUFFICES ASSUME OrderInv, Next, pc # "canonize"
               PROVE  \A q \in Made : parent[q] # q => parent'[q] = parent[q]
    OBVIOUS
  <2>0. /\ TypeOK /\ InputsInv
        /\ \A q : q \in Made <=> q \in Site /\ Rank(s, q) >= First
        /\ p \in Site /\ Rank(s, p) = i
    BY MadeFacts DEF OrderInv
  <2>1. CASE MakeSet
    <3>1. p \notin Made
      BY <2>0, <2>1 DEF MakeSet, First, TypeOK
    <3>2. QED
      BY <2>0, <2>1, <3>1 DEF MakeSet, TypeOK
  <2>2. CASE DoUnion
    <3>1. parent[x] = x
      BY <2>2 DEF DoUnion, OrderInv, SearchInv, RootsInv, Searching
    <3>2. QED
      BY <2>0, <2>2, <3>1 DEF DoUnion, TypeOK
  <2>3. CASE parent' = parent
    BY <2>3
  <2>4. QED
    BY <2>1, <2>2, <2>3
       DEF Next, SkipNeighbour, VisitNeighbour, FindRootCall, FindRootBase,
           FindRootReturn, NextSite, Canonize, Returned, vars
<1>3. OrderInv /\ [Next]_vars => [Bound]_vars
  BY <1>2
<1>4. QED
  BY <1>1, <1>3, OrderInit, PTL DEF Spec, ParentBoundOnce

-----------------------------------------------------------------------------
(* Links and closed sets.                                                   *)

LEMMA AddLink ==
    ASSUME NEW link \in [Site -> Site \cup {Unset}],
           NEW D \in SUBSET Site, NEW C,
           NEW t \in D, NEW b \in D, link[t] = t
    PROVE  LinkClosed([link EXCEPT ![t] = b], D, C)
             <=> LinkClosed(link, D, C) /\ (t \in C <=> b \in C)
BY DEF LinkClosed

\* Redirecting t to the target of its target changes no component.
LEMMA ShortenLink ==
    ASSUME NEW link \in [Site -> Site \cup {Unset}],
           NEW D \in SUBSET Site, NEW C,
           NEW t \in Site, link[t] # t, link[t] \in Site,
           link[t] \in D <=> link[link[t]] \in D,
           t \in D \/ link[t] \notin D
    PROVE  LinkClosed([link EXCEPT ![t] = link[link[t]]], D, C)
             <=> LinkClosed(link, D, C)
<1> DEFINE new == [link EXCEPT ![t] = link[link[t]]]
<1>1. /\ new[t] = link[link[t]]
      /\ \A q \in Site : q # t => new[q] = link[q]
  OBVIOUS
<1>2. CASE t \in D /\ link[t] \in D
  BY <1>1, <1>2 DEF LinkClosed
<1>3. CASE link[t] \notin D
  BY <1>1, <1>3 DEF LinkClosed
<1>4. QED
  BY <1>2, <1>3

\* Equal values lie on the same side of a cut.
LEMMA SameSide ==
    ASSUME TypeOK, InputsInv, NEW h \in 1..N, IsCut(h),
           NEW t \in Site, NEW b \in Site, f[t] = f[b]
    PROVE  t \in LevelFrom(h) <=> b \in LevelFrom(h)
<1>1. ASSUME NEW u \in Site, NEW z \in Site, f[u] = f[z],
             Rank(s, u) < h, Rank(s, z) >= h
      PROVE  FALSE
  <2>1. /\ Rank(s, u) \in 1..N /\ Rank(s, z) \in 1..N
        /\ s[Rank(s, u)] = u /\ s[Rank(s, z)] = z
    BY RankFacts DEF InputsInv
  <2>2. h - 1 \in 1..N /\ h > 1
    BY <1>1, <2>1, NAssumption
  <2>3. f[s[h]] \in Int /\ f[s[h - 1]] \in Int /\ f[s[h]] # f[s[h - 1]]
    <3>1. s[h] \in Site /\ s[h - 1] \in Site
      BY <2>2 DEF TypeOK
    <3>2. \A q \in Site : f[q] \in Int
      BY ValueAssumption DEF TypeOK
    <3>3. QED
      BY <2>2, <3>1, <3>2 DEF IsCut
  <2>4. f[u] \in Int /\ f[z] \in Int
    BY ValueAssumption DEF TypeOK
  <2>5. CASE Increasing(f, s)
    <3>1. f[u] <= f[s[h - 1]]
      BY <1>1, <2>1, <2>2, <2>4, <2>5 DEF Increasing
    <3>2. f[s[h]] <= f[z]
      BY <1>1, <2>1, <2>4, <2>5 DEF Increasing
    <3>3. f[s[h - 1]] <= f[s[h]]
      BY <2>2, <2>5 DEF Increasing
    <3>4. QED
      BY <1>1, <2>3, <2>4, <3>1, <3>2, <3>3
  <2>6. CASE Decreasing(f, s)
    <3>1. f[u] >= f[s[h - 1]]
      BY <1>1, <2>1, <2>2, <2>4, <2>6 DEF Decreasing
    <3>2. f[s[h]] >= f[z]
      BY <1>1, <2>1, <2>4, <2>6 DEF Decreasing
    <3>3. f[s[h - 1]] >= f[s[h]]
      BY <2>2, <2>6 DEF Decreasing
    <3>4. QED
      BY <1>1, <2>3, <2>4, <3>1, <3>2, <3>3
  <2>7. QED
    BY <2>5, <2>6 DEF InputsInv, Sorted
<1>2. \A q \in Site : Rank(s, q) \in 1..N
  BY RankFacts DEF InputsInv
<1>3. \A q \in Site : q \in LevelFrom(h) <=> Rank(s, q) >= h
  BY LevelFacts DEF InputsInv, LevelFrom
<1>4. QED
  BY <1>1, <1>2, <1>3

-----------------------------------------------------------------------------
(* Components.                                                              *)

LEMMA PartsInit == Init => PartsInv
<1> SUFFICES ASSUME Init PROVE PartsInv
  OBVIOUS
<1>1. Made = {}
  BY NAssumption DEF Init, Start, Made, First, LevelFrom
<1>2. ZparInv
  BY <1>1 DEF ZparInv, LinkClosed
<1>3. SoundInv /\ ProgressInv /\ LevelsInv
  BY NAssumption DEF Init, Start, SoundInv, ProgressInv, LevelsInv, Merging,
                     Searching
<1>4. QED
  BY <1>2, <1>3 DEF PartsInv

LEMMA PartsStutter == PartsInv /\ UNCHANGED vars => PartsInv'
BY DEF PartsInv, vars, ZparInv, SoundInv, ProgressInv, LevelsInv, SameParts,
       Made, LevelFrom, IsCut, First, Merging, Searching, p

LEMMA PartsStep ==
    ASSUME OrderInv, PartsInv, Next
    PROVE  PartsInv'
<1> USE DEF OrderInv, PartsInv
<1>a. /\ s' = s /\ f' = f
      /\ p \in Site /\ Rank(s, p) = i /\ i \in 1..N
  <2>1. s' = s /\ f' = f
    BY DEF Next, MakeSet, SkipNeighbour, VisitNeighbour, FindRootCall,
           FindRootBase, FindRootReturn, DoUnion, NextSite, Canonize, Returned,
           inputs, vars
  <2>2. QED
    BY <2>1, MadeFacts DEF TypeOK
<1>b. /\ Made' = IF pc = "make_set" THEN Made \cup {p} ELSE Made
      /\ \A q : q \in Made <=> q \in Site /\ Rank(s, q) >= First
      /\ Made \in SUBSET Site
  BY MadeFacts, MadeStep
<1>c. /\ \A q \in Site : Rank(s, q) \in 1..N
      /\ \A q, r \in Site : Rank(s, q) = Rank(s, r) => q = r
      /\ N \in Nat \ {0} /\ Unset \notin Site
  BY RankFacts, NAssumption DEF InputsInv, Site, Unset
<1>d. \A h \in 1..N : /\ LevelFrom(h)' = LevelFrom(h)
                       /\ \A q : q \in LevelFrom(h)
                                   <=> q \in Site /\ Rank(s, q) >= h
                       /\ IsCut(h)' = IsCut(h)
  BY <1>a, LevelFacts DEF InputsInv, LevelFrom, IsCut
<1>e. parent \in [Site -> Site \cup {Unset}] /\ zpar \in [Site -> Site \cup {Unset}]
  BY DEF TypeOK
<1>1. CASE MakeSet
  <2> USE <1>1 DEF MakeSet
  <2>0. /\ First = i + 1 /\ p \notin Made /\ Merging' /\ ~ Searching'
        /\ \A q \in Made : parent[q] \in Made /\ zpar[q] \in Made
    BY <1>a, <1>b DEF First, LinksFollowS, Merging, Searching
  <2>1. \A C \in SUBSET Site :
          /\ LinkClosed(parent', Made', C) <=> LinkClosed(parent, Made, C)
          /\ LinkClosed(zpar', Made', C) <=> LinkClosed(zpar, Made, C)
    <3>1. \A q \in Made : parent'[q] = parent[q] /\ zpar'[q] = zpar[q]
      BY <1>a, <1>b, <1>e, <2>0
    <3>2. parent'[p] = p /\ zpar'[p] = p /\ Made' = Made \cup {p}
      BY <1>a, <1>b, <1>e
    <3>3. QED
      BY <2>0, <3>1, <3>2 DEF LinkClosed
  <2>2. ZparInv'
    BY <2>1 DEF ZparInv
  <2>3. \A C \in SUBSET Site : NbhClosed(Made, C) => LinkClosed(parent, Made, C)
    <3>1. CASE i = N
      <4>1. Made = {}
        BY <1>b, <1>c, <2>0, <3>1
      <4>2. QED
        BY <4>1 DEF LinkClosed
    <3>2. CASE i < N
      <4>1. i + 1 \in 1..N /\ Made = LevelFrom(i + 1)
        BY <1>a, <2>0, <3>2, NAssumption DEF Made
      <4>2. SameParts(LevelFrom(i + 1))
        BY <1>a, <4>1 DEF LevelsInv
      <4>3. QED
        BY <4>1, <4>2 DEF SameParts
    <3>3. QED
      BY <1>a, <1>c, <3>1, <3>2
  <2>4. SoundInv'
    BY <1>b, <2>1, <2>3 DEF SoundInv, NbhClosed
  <2>5. ProgressInv'
    BY <1>a, <1>e, <2>0 DEF ProgressInv, p
  <2>6. LevelsInv'
    <3> SUFFICES ASSUME NEW h \in 1..N, h > i
                 PROVE  SameParts(LevelFrom(h))'
      BY <2>0 DEF LevelsInv
    <3>1. \A C \in SUBSET Site : LinkClosed(parent', LevelFrom(h), C)
                                   <=> LinkClosed(parent, LevelFrom(h), C)
      <4>1. \A q \in LevelFrom(h) : parent'[q] = parent[q]
        BY <1>a, <1>d, <1>e
      <4>2. QED
        BY <4>1 DEF LinkClosed
    <3>2. SameParts(LevelFrom(h))
      BY DEF LevelsInv
    <3>3. QED
      BY <1>d, <3>1, <3>2 DEF SameParts
  <2>7. QED
    BY <2>2, <2>4, <2>5, <2>6
<1>2. CASE SkipNeighbour
  <2> USE <1>2 DEF SkipNeighbour
  <2>0. PICK m \in todo : ~ Seen(m) /\ n' = m /\ todo' = todo \ {m}
    OBVIOUS
  <2>1. m \in Site => ~ (Rank(s, m) > i)
    BY <2>0 DEF SeenInv, Merging, Seen
  <2>2. ZparInv' /\ SoundInv'
    BY <1>b DEF ZparInv, SoundInv, Merging, Searching
  <2>3. ProgressInv'
    BY <1>a, <1>b, <2>0, <2>1 DEF ProgressInv, Merging, Searching, p
  <2>4. LevelsInv'
    BY <1>d DEF LevelsInv, SameParts, Merging, Searching
  <2>5. QED
    BY <2>2, <2>3, <2>4
<1>3. CASE VisitNeighbour
  <2> USE <1>3 DEF VisitNeighbour
  <2>1. ZparInv' /\ SoundInv'
    BY <1>b DEF ZparInv, SoundInv, Merging, Searching
  <2>2. ProgressInv'
    BY <1>a, <1>b DEF ProgressInv, Merging, Searching, p
  <2>3. LevelsInv'
    BY <1>d DEF LevelsInv, SameParts, Merging, Searching
  <2>4. QED
    BY <2>1, <2>2, <2>3
<1>4. CASE FindRootCall
  <2> USE <1>4 DEF FindRootCall
  <2>1. ZparInv' /\ SoundInv'
    BY <1>b DEF ZparInv, SoundInv, Merging, Searching
  <2>2. x \in Made /\ zpar[x] \in Made
    BY DEF SearchInv, LinksFollowS, Searching
  <2>3. \A C \in SUBSET Site :
          LinkClosed(parent, Made, C) => (x \in C <=> zpar[x] \in C)
    BY <2>2 DEF ZparInv, LinkClosed
  <2>4. ProgressInv'
    BY <1>a, <1>b, <2>3 DEF ProgressInv, Merging, Searching, p
  <2>5. LevelsInv'
    BY <1>d DEF LevelsInv, SameParts, Merging, Searching
  <2>6. QED
    BY <2>1, <2>4, <2>5
<1>5. CASE FindRootBase
  <2> USE <1>5 DEF FindRootBase
  <2>1. ZparInv' /\ SoundInv'
    BY <1>b DEF ZparInv, SoundInv, Merging, Searching
  <2>2. ProgressInv'
    BY <1>a, <1>b DEF ProgressInv, Merging, Searching, p
  <2>3. LevelsInv'
    BY <1>d DEF LevelsInv, SameParts, Merging, Searching
  <2>4. QED
    BY <2>1, <2>2, <2>3
<1>6. CASE FindRootReturn
  <2> USE <1>6 DEF FindRootReturn
  <2> DEFINE y == path[Len(path)]
  <2>1. /\ y \in Made /\ zpar[y] \in Made
        /\ zpar[x] = x /\ zpar[zpar[y]] = x /\ x \in Made
        /\ Rank(s, y) > Rank(s, x)
    <3>1. Len(path) \in 1..Len(path)
      BY DEF TypeOK
    <3>2. QED
      BY <3>1 DEF SearchInv, LinksFollowS, Searching
  <2>2. zpar[y] # y /\ y \in Site /\ zpar[y] \in Site
    BY <1>b, <1>c, <2>1
  <2>3. \A C \in SUBSET Site :
          LinkClosed(zpar', Made, C) <=> LinkClosed(zpar, Made, C)
    <3>1. zpar' = [zpar EXCEPT ![y] = zpar[zpar[y]]]
      BY <2>1
    <3>2. ASSUME NEW C \in SUBSET Site
          PROVE  LinkClosed([zpar EXCEPT ![y] = zpar[zpar[y]]], Made, C)
                   <=> LinkClosed(zpar, Made, C)
      BY <1>b, <1>e, <2>1, <2>2, ShortenLink
    <3>3. QED
      BY <3>1, <3>2
  <2>4. ZparInv' /\ SoundInv'
    BY <1>b, <2>3 DEF ZparInv, SoundInv, Merging, Searching
  <2>5. ProgressInv'
    BY <1>a, <1>b DEF ProgressInv, Merging, Searching, p
  <2>6. LevelsInv'
    BY <1>d DEF LevelsInv, SameParts, Merging, Searching
  <2>7. QED
    BY <2>4, <2>5, <2>6
<1>7. CASE DoUnion
  <2> USE <1>7 DEF DoUnion
  <2>0. Searching /\ Merging /\ First = i /\ Merging' /\ ~ Searching'
    BY DEF Searching, Merging, First
  <2>1. /\ x \in Made /\ zpar[x] = x /\ parent[x] = x /\ p \in Made
        /\ n \in Nbh[p] /\ n \in Made /\ Rank(s, n) > i
    BY <1>a, <1>b, <1>c, <2>0 DEF SearchInv, RootsInv
  <2>2. CASE x = p
    <3>1. ZparInv' /\ SoundInv'
      BY <1>b, <2>0, <2>2 DEF ZparInv, SoundInv
    <3>2. ProgressInv'
      BY <1>a, <1>b, <2>0, <2>2 DEF ProgressInv, p
    <3>3. LevelsInv'
      BY <1>d, <2>0, <2>2 DEF LevelsInv, SameParts
    <3>4. QED
      BY <3>1, <3>2, <3>3
  <2>3. CASE x # p
    <3>1. \A C \in SUBSET Site :
            /\ LinkClosed(parent', Made, C)
                 <=> LinkClosed(parent, Made, C) /\ (x \in C <=> p \in C)
            /\ LinkClosed(zpar', Made, C)
                 <=> LinkClosed(zpar, Made, C) /\ (x \in C <=> p \in C)
      <4>1. ASSUME NEW C \in SUBSET Site,
                   NEW link \in [Site -> Site \cup {Unset}], link[x] = x
            PROVE  LinkClosed([link EXCEPT ![x] = p], Made, C)
                     <=> LinkClosed(link, Made, C) /\ (x \in C <=> p \in C)
        BY <1>b, <2>1, <4>1, AddLink
      <4>2. /\ parent' = [parent EXCEPT ![x] = p]
            /\ zpar' = [zpar EXCEPT ![x] = p]
        BY <2>3
      <4>3. QED
        BY <1>e, <2>1, <4>1, <4>2
    <3>2. ZparInv'
      BY <1>b, <2>0, <3>1 DEF ZparInv
    <3>3. SoundInv'
      <4> SUFFICES ASSUME NEW C \in SUBSET Site, NbhClosed(Made, C)
                   PROVE  LinkClosed(parent', Made, C)
        BY <1>b, <2>0 DEF SoundInv
      <4>1. LinkClosed(parent, Made, C)
        BY <2>0 DEF SoundInv
      <4>2. n \in C <=> x \in C
        BY <2>0, <4>1 DEF ProgressInv
      <4>3. n \in C <=> p \in C
        BY <2>1 DEF NbhClosed
      <4>4. QED
        BY <3>1, <4>1, <4>2, <4>3
    <3>4. ProgressInv'
      <4>1. parent'[p] = p
        BY <1>a, <1>e, <2>0, <2>3 DEF ProgressInv
      <4>2. ASSUME NEW C \in SUBSET Site, LinkClosed(parent', Made, C),
                   NEW m \in Nbh[p], m \in Site, Rank(s, m) > i, m \notin todo
            PROVE  m \in C <=> p \in C
        <5>1. LinkClosed(parent, Made, C) /\ (x \in C <=> p \in C)
          BY <3>1, <4>2
        <5>2. QED
          BY <2>0, <4>2, <5>1 DEF ProgressInv
      <4>3. QED
        BY <1>a, <1>b, <2>0, <4>1, <4>2 DEF ProgressInv, p
    <3>5. LevelsInv'
      <4> SUFFICES ASSUME NEW h \in 1..N, h > i
                   PROVE  SameParts(LevelFrom(h))'
        BY <2>0 DEF LevelsInv
      <4>1. SameParts(LevelFrom(h))
        BY <2>0 DEF LevelsInv
      <4>2. /\ p \notin LevelFrom(h)
            /\ \A q \in Site : q # x => parent'[q] = parent[q]
            /\ parent'[x] = p
        BY <1>a, <1>b, <1>d, <1>e, <2>1, <2>3
      <4>3. \A C \in SUBSET Site : LinkClosed(parent', LevelFrom(h), C)
                                     <=> LinkClosed(parent, LevelFrom(h), C)
        BY <1>d, <2>1, <4>2 DEF LinkClosed
      <4>4. QED
        BY <1>d, <4>1, <4>3 DEF SameParts
    <3>6. QED
      BY <3>2, <3>3, <3>4, <3>5
  <2>4. QED
    BY <2>2, <2>3
<1>8. CASE NextSite
  <2> USE <1>8 DEF NextSite
  <2>0. First = i /\ Merging /\ ~ Searching /\ ~ Merging' /\ ~ Searching'
    BY DEF First, Merging, Searching
  <2>1. ZparInv' /\ SoundInv' /\ ProgressInv'
    BY <1>b, <2>0 DEF ZparInv, SoundInv, ProgressInv
  <2>2. Made = LevelFrom(i)
    BY <2>0 DEF Made
  <2>3. SameParts(LevelFrom(i))
    <3> SUFFICES ASSUME NEW C \in SUBSET Site, LinkClosed(parent, Made, C)
                 PROVE  NbhClosed(Made, C)
      BY <2>0, <2>2 DEF SoundInv, SameParts
    <3>1. \A m \in Nbh[p] : m \in Site /\ Rank(s, m) > i => (m \in C <=> p \in C)
      BY <2>0 DEF ProgressInv
    <3>2. ASSUME NEW q \in Made, NEW r \in Made, r \in Nbh[q], q # p, r # p
          PROVE  q \in C <=> r \in C
      <4>1. Rank(s, q) >= i + 1 /\ Rank(s, r) >= i + 1 /\ i + 1 \in 1..N
        BY <1>a, <1>b, <1>c, <2>0, <3>2
      <4>0. \A u : u \in LevelFrom(i + 1) <=> u \in Site /\ Rank(s, u) >= i + 1
        BY <4>1, LevelFacts DEF InputsInv, LevelFrom
      <4>2. q \in LevelFrom(i + 1) /\ r \in LevelFrom(i + 1)
        BY <1>b, <4>0, <4>1
      <4>3. SameParts(LevelFrom(i + 1))
        BY <1>a, <2>0, <4>1 DEF LevelsInv
      <4>4. LinkClosed(parent, LevelFrom(i + 1), C)
        <5>1. LevelFrom(i + 1) \subseteq Made
          BY <1>a, <1>b, <1>c, <2>0, <4>0
        <5>2. QED
          BY <5>1 DEF LinkClosed
      <4>5. QED
        BY <3>2, <4>2, <4>3, <4>4 DEF SameParts, NbhClosed
    <3>3. ASSUME NEW r \in Made, r # p, r \in Nbh[p] \/ p \in Nbh[r]
          PROVE  p \in C <=> r \in C
      <4>1. r \in Site /\ Rank(s, r) > i /\ r \in Nbh[p]
        BY <1>a, <1>b, <1>c, <2>0, <3>3, NbhAssumption
      <4>2. QED
        BY <3>1, <4>1
    <3>4. QED
      BY <3>2, <3>3 DEF NbhClosed
  <2>4. \A h \in 1..N : h > i => SameParts(LevelFrom(h))
    BY <2>0 DEF LevelsInv
  <2>5. \A h \in 1..N : h > i - 1 => SameParts(LevelFrom(h))
    BY <1>a, <2>3, <2>4
  <2>6. \A h \in 1..N : SameParts(LevelFrom(h))' <=> SameParts(LevelFrom(h))
    BY <1>d DEF SameParts
  <2>7. LevelsInv'
    <3>1. CASE i > 1
      BY <2>0, <2>5, <2>6, <3>1 DEF LevelsInv
    <3>2. CASE ~ (i > 1)
      <4>1. \A h \in 1..N : SameParts(LevelFrom(h))
        BY <1>a, <2>5, <3>2
      <4>2. QED
        BY <2>0, <2>6, <3>2, <4>1 DEF LevelsInv
    <3>3. QED
      BY <3>1, <3>2
  <2>8. QED
    BY <2>1, <2>7
<1>9. CASE Canonize
  <2> USE <1>9 DEF Canonize
  <2> DEFINE q == parent[p]
             g == parent[q]
  <2>0. /\ Made = Site /\ ~ Merging /\ ~ Searching
        /\ ~ Merging' /\ ~ Searching' /\ pc' # "make_set"
    BY <1>b, <1>c DEF First, Merging, Searching
  <2>1. /\ q \in Site /\ Rank(s, q) <= i
        /\ g \in Site /\ Rank(s, g) <= Rank(s, q)
    BY <1>a, <2>0 DEF LinksFollowS
  <2>2. parent' = [parent EXCEPT ![p] = g] \/ parent' = parent
    OBVIOUS
  <2>3. ASSUME NEW D \in SUBSET Site, NEW C \in SUBSET Site,
               f[g] = f[q] => (q \in D <=> g \in D), p \in D \/ q \notin D
        PROVE  LinkClosed(parent', D, C) <=> LinkClosed(parent, D, C)
    <3>1. CASE q = p \/ f[g] # f[q]
      <4>1. parent' = parent
        BY <1>a, <1>e, <3>1
      <4>2. QED
        BY <4>1
    <3>2. CASE q # p /\ f[g] = f[q]
      <4>1. LinkClosed([parent EXCEPT ![p] = parent[parent[p]]], D, C)
              <=> LinkClosed(parent, D, C)
        BY <1>a, <1>e, <2>1, <2>3, <3>2, ShortenLink
      <4>2. QED
        BY <3>2, <4>1
    <3>3. QED
      BY <3>1, <3>2
  <2>4. ZparInv'
    <3>1. \A C \in SUBSET Site :
            LinkClosed(parent', Site, C) <=> LinkClosed(parent, Site, C)
      BY <1>a, <2>1, <2>3
    <3>2. QED
      BY <1>b, <2>0, <3>1 DEF ZparInv
  <2>5. SoundInv' /\ ProgressInv'
    BY <2>0 DEF SoundInv, ProgressInv
  <2>6. ASSUME NEW h \in 1..N, IsCut(h)
        PROVE  SameParts(LevelFrom(h))'
    <3>1. f[g] = f[q] => (q \in LevelFrom(h) <=> g \in LevelFrom(h))
      BY <2>1, <2>6, SameSide
    <3>2. p \in LevelFrom(h) \/ q \notin LevelFrom(h)
      BY <1>a, <1>c, <1>d, <2>1
    <3>3. LevelFrom(h) \in SUBSET Site
      BY <1>d
    <3>4. \A C \in SUBSET Site : LinkClosed(parent', LevelFrom(h), C)
                                   <=> LinkClosed(parent, LevelFrom(h), C)
      BY <2>3, <3>1, <3>2, <3>3
    <3>5. SameParts(LevelFrom(h))
      BY <2>0, <2>6 DEF LevelsInv
    <3>6. QED
      BY <1>d, <3>4, <3>5 DEF SameParts
  <2>7. LevelsInv'
    <3> SUFFICES ASSUME NEW h \in 1..N, IsCut(h)'
                 PROVE  SameParts(LevelFrom(h))'
      BY <2>0 DEF LevelsInv
    <3>1. IsCut(h)
      BY <1>a DEF IsCut
    <3>2. QED
      BY <2>6, <3>1
  <2>8. QED
    BY <2>4, <2>5, <2>7
<1>10. CASE Returned
  BY <1>10, PartsStutter DEF Returned
<1>99. QED
  BY <1>1, <1>2, <1>3, <1>4, <1>5, <1>6, <1>7, <1>8, <1>9, <1>10 DEF Next

\* A closed set of D may be taken inside D.
LEMMA InsideIsEnough ==
    ASSUME NEW link, NEW D \in SUBSET Site,
           \A C \in SUBSET Site : LinkClosed(link, D, C) <=> NbhClosed(D, C)
    PROVE  SameComponents(link, D)
BY DEF SameComponents

\* Whatever paths zfind_root compressed, between two sites the trees of zpar
\* are the connected components of the sites processed so far.
THEOREM UnionFindIsConnectivity == Spec => []UnionFindComponents
<1>1. IInv /\ [Next]_vars => IInv'
  BY OrderStep, OrderStutter, PartsStep, PartsStutter DEF IInv
<1>2. IInv => UnionFindComponents
  <2> SUFFICES ASSUME IInv, pc = "make_set" PROVE SameComponents(zpar, Made)
    BY DEF UnionFindComponents
  <2>0. TypeOK /\ InputsInv
    BY DEF IInv, OrderInv
  <2>1. \A q : q \in Made <=> q \in Site /\ Rank(s, q) >= i + 1
    BY <2>0, MadeFacts DEF First
  <2>2. CASE i = N
    <3>1. Made = {}
      BY <2>0, <2>1, <2>2, RankFacts, NAssumption DEF InputsInv
    <3>2. QED
      BY <3>1 DEF SameComponents, LinkClosed, NbhClosed
  <2>3. CASE i # N
    <3>1. i + 1 \in 1..N /\ Made = LevelFrom(i + 1)
      BY <2>0, <2>3, NAssumption DEF TypeOK, Made, First
    <3>2. SameParts(Made)
      BY <2>0, <3>1 DEF IInv, PartsInv, LevelsInv, TypeOK
    <3>3. \A C \in SUBSET Site : LinkClosed(zpar, Made, C) <=> NbhClosed(Made, C)
      BY <3>2 DEF IInv, PartsInv, ZparInv, SameParts
    <3>4. QED
      BY <2>1, <3>3, InsideIsEnough
  <2>4. QED
    BY <2>2, <2>3
<1>3. Init => IInv
  BY OrderInit, PartsInit DEF IInv
<1>4. QED
  BY <1>1, <1>2, <1>3, PTL DEF Spec

\* The parent image that is returned is the component tree of f: inside each
\* level set its links join exactly the connected sites.
THEOREM ParentIsComponentTree == Spec => []LevelComponents
<1>1. IInv /\ [Next]_vars => IInv'
  BY OrderStep, OrderStutter, PartsStep, PartsStutter DEF IInv
<1>2. IInv => LevelComponents
  <2> SUFFICES ASSUME IInv, pc = "done", NEW h \in 1..N, IsCut(h)
               PROVE  SameComponents(parent, LevelFrom(h))
    BY DEF LevelComponents
  <2>1. SameParts(LevelFrom(h))
    BY DEF IInv, PartsInv, LevelsInv, Merging, Searching
  <2>2. LevelFrom(h) \in SUBSET Site
    BY LevelFacts DEF IInv, OrderInv, InputsInv, LevelFrom
  <2>3. QED
    BY <2>1, <2>2, InsideIsEnough DEF SameParts
<1>3. Init => IInv
  BY OrderInit, PartsInit DEF IInv
<1>4. QED
  BY <1>1, <1>2, <1>3, PTL DEF Spec

-----------------------------------------------------------------------------
(* The tree stored, and what is called on it.                               *)

TreeInit == Init /\ StartFilters
TreeSpec == TreeInit /\ [][FiltersNext]_<<vars, data_vars, call_vars>>

LEMMA LeastNat ==
    ASSUME NEW S \in SUBSET Nat, S # {}
    PROVE  \E m \in S : \A j \in S : m <= j
<1>1. PICK m \in S : \A j \in S : ~ (<<j, m>> \in OpToRel(<, Nat))
  BY NatLessThanWellFounded, WFMin
<1>2. ASSUME NEW j \in S PROVE m <= j
  <2>1. ~ (j < m)
    BY <1>1 DEF OpToRel
  <2> QED BY <2>1
<1> QED BY <1>2

-----------------------------------------------------------------------------
(* What compute_parent leaves.                                              *)

IsTree ==
    /\ f \in [Site -> Value] /\ Enumerates(s) /\ Sorted(f, s)
    /\ parent \in [Site -> Site]
    /\ \A q \in Site : Rank(s, parent[q]) <= Rank(s, q)
    /\ \A q \in Site : IsNode(parent[q])
    /\ \A j \in 1..N : IsCut(j) => SameComponents(parent, LevelFrom(j))

LEMMA DoneIsTree ==
    ASSUME IInv, pc = "done"
    PROVE  IsTree
<1>1. TypeOK /\ InputsInv /\ LinksFollowS /\ CanonInv
  BY DEF IInv, OrderInv
<1>2. Made = Site
  <2>1. First = 1
    BY DEF First, Merging, Searching
  <2> QED BY <1>1, <2>1, MadeFacts, RankFacts, NAssumption DEF InputsInv
<1>3. \A q \in Site : parent[q] \in Site /\ Rank(s, parent[q]) <= Rank(s, q)
  BY <1>1, <1>2 DEF LinksFollowS
<1>4. parent \in [Site -> Site]
  BY <1>1, <1>3 DEF TypeOK
<1>5. \A q \in Site : IsNode(parent[q])
  BY <1>1 DEF CanonInv
<1>6. ASSUME NEW j \in 1..N, IsCut(j) PROVE SameComponents(parent, LevelFrom(j))
  <2>1. SameParts(LevelFrom(j))
    BY <1>6 DEF IInv, PartsInv, LevelsInv, Merging, Searching
  <2>2. LevelFrom(j) \in SUBSET Site
    BY <1>1, LevelFacts DEF InputsInv, LevelFrom
  <2> QED BY <2>1, <2>2, InsideIsEnough DEF SameParts
<1> QED BY <1>1, <1>3, <1>4, <1>5, <1>6 DEF IsTree, TypeOK, InputsInv

\* Ranks tell the sites, and parents come first.
LEMMA TreeFacts ==
    ASSUME IsTree
    PROVE  /\ \A q \in Site : Rank(s, q) \in 1..N /\ s[Rank(s, q)] = q
           /\ \A j \in 1..N : s[j] \in Site /\ Rank(s, s[j]) = j
           /\ \A q, r \in Site : Rank(s, q) = Rank(s, r) => q = r
           /\ \A q \in Site : /\ f[q] \in Int
                              /\ parent[q] \in Site /\ parent[parent[q]] \in Site
                              /\ parent[q] # q => Rank(s, parent[q]) < Rank(s, q)
                              /\ IsNode(parent[q])
<1>1. /\ \A q \in Site : Rank(s, q) \in 1..N /\ s[Rank(s, q)] = q
      /\ \A j \in 1..N : s[j] \in Site /\ Rank(s, s[j]) = j
      /\ \A q, r \in Site : Rank(s, q) = Rank(s, r) => q = r
  BY RankFacts DEF IsTree
<1>2. \A q \in Site : /\ f[q] \in Int
                      /\ parent[q] \in Site /\ parent[parent[q]] \in Site
                      /\ IsNode(parent[q])
  BY ValueAssumption DEF IsTree
<1>3. ASSUME NEW q \in Site, parent[q] # q PROVE Rank(s, parent[q]) < Rank(s, q)
  <2>1. Rank(s, parent[q]) <= Rank(s, q) /\ Rank(s, parent[q]) # Rank(s, q)
    BY <1>1, <1>2, <1>3 DEF IsTree
  <2> QED BY <1>1, <1>2, <2>1
<1> QED BY <1>1, <1>2, <1>3

-----------------------------------------------------------------------------
(* What is below a site.                                                    *)

Downward(C) == C \in SUBSET Site /\ \A r \in Site : parent[r] \in C => r \in C
Sub(t) == {r \in Site : \A C \in SUBSET Site : t \in C /\ Downward(C) => r \in C}

LEMMA SubFacts ==
    ASSUME IsTree, NEW t \in Site
    PROVE  /\ t \in Sub(t) /\ Sub(t) \subseteq Site
           /\ \A r \in Site : parent[r] \in Sub(t) => r \in Sub(t)
           /\ \A C \in SUBSET Site : t \in C /\ Downward(C) => Sub(t) \subseteq C
           /\ \A r \in Sub(t) : r = t \/ (parent[r] # r /\ parent[r] \in Sub(t))
           /\ \A r \in Sub(t) : Rank(s, t) <= Rank(s, r)
<1>1. t \in Sub(t) /\ Sub(t) \subseteq Site
  BY DEF Sub
<1>2. \A C \in SUBSET Site : t \in C /\ Downward(C) => Sub(t) \subseteq C
  BY DEF Sub
<1>3. \A r \in Site : parent[r] \in Sub(t) => r \in Sub(t)
  BY DEF Sub, Downward
<1>4. \A r \in Sub(t) : r = t \/ (parent[r] # r /\ parent[r] \in Sub(t))
  <2> DEFINE C == {r \in Sub(t) : r = t \/ (parent[r] # r /\ parent[r] \in Sub(t))}
  <2>1. t \in C /\ C \in SUBSET Site
    BY <1>1
  <2>2. Downward(C)
    <3>1. ASSUME NEW r \in Site, parent[r] \in C PROVE r \in C
      <4>1. r \in Sub(t) /\ parent[r] \in Sub(t)
        BY <1>3, <3>1
      <4> QED BY <3>1, <4>1
    <3> QED BY <2>1, <3>1 DEF Downward
  <2>3. Sub(t) \subseteq C
    BY <1>2, <2>1, <2>2
  <2> QED BY <2>3
<1>5. \A r \in Sub(t) : Rank(s, t) <= Rank(s, r)
  <2> DEFINE C == {r \in Site : Rank(s, t) <= Rank(s, r)}
  <2>1. t \in C /\ C \in SUBSET Site
    BY TreeFacts
  <2>2. Downward(C)
    <3>1. ASSUME NEW r \in Site, parent[r] \in C PROVE r \in C
      <4>1. /\ Rank(s, t) <= Rank(s, parent[r]) /\ Rank(s, parent[r]) <= Rank(s, r)
            /\ Rank(s, t) \in Int /\ Rank(s, parent[r]) \in Int /\ Rank(s, r) \in Int
        BY <3>1, TreeFacts DEF IsTree
      <4>2. Rank(s, t) <= Rank(s, r)
        BY <4>1
      <4> QED BY <4>2
    <3> QED BY <2>1, <3>1 DEF Downward
  <2>3. Sub(t) \subseteq C
    BY <1>2, <2>1, <2>2
  <2> QED BY <2>3
<1> QED BY <1>1, <1>2, <1>3, <1>4, <1>5

LEMMA SubNests ==
    ASSUME IsTree, NEW t \in Site, NEW r \in Sub(t)
    PROVE  /\ Sub(r) \subseteq Sub(t)
           /\ t \in Sub(r) => r = t
           /\ r # t => Sub(r) # Sub(t)
<1>1. r \in Site /\ Sub(t) \in SUBSET Site /\ Downward(Sub(t))
  BY SubFacts DEF Downward
<1>2. Sub(r) \subseteq Sub(t)
  BY <1>1, SubFacts
<1>3. ASSUME t \in Sub(r) PROVE r = t
  <2>1. Rank(s, t) <= Rank(s, r) /\ Rank(s, r) <= Rank(s, t)
    BY <1>1, <1>3, SubFacts
  <2>2. Rank(s, t) = Rank(s, r)
    BY <1>1, <2>1, TreeFacts
  <2> QED BY <1>1, <2>2, TreeFacts
<1>4. t \in Sub(t)
  BY SubFacts
<1> QED BY <1>2, <1>3, <1>4

\* Two parts of the tree that meet are one inside the other.
LEMMA SubLinear ==
    ASSUME IsTree, NEW t \in Site, NEW u \in Site, NEW r \in Sub(t), r \in Sub(u)
    PROVE  t \in Sub(u) \/ u \in Sub(t)
<1> DEFINE C == {q \in Sub(t) : q \in Sub(u) => t \in Sub(u) \/ u \in Sub(t)}
<1>1. t \in C /\ C \in SUBSET Site
  BY SubFacts
<1>2. ASSUME NEW q \in Site, parent[q] \in C PROVE q \in C
  <2>1. q \in Sub(t)
    BY <1>2, SubFacts
  <2>2. ASSUME q \in Sub(u) PROVE t \in Sub(u) \/ u \in Sub(t)
    <3>1. q = u \/ parent[q] \in Sub(u)
      BY <2>2, SubFacts
    <3> QED BY <1>2, <2>1, <3>1
  <2> QED BY <2>1, <2>2
<1>3. Sub(t) \subseteq C
  <2> HIDE DEF C
  <2> QED BY <1>1, <1>2, SubFacts DEF Downward
<1> QED BY <1>3

-----------------------------------------------------------------------------
(* The component of a site is what is below its representative.             *)

Cut(q) == CHOOSE j \in 1..N : f[s[j]] = f[q] /\ IsCut(j)

LEMMA CutFacts ==
    ASSUME IsTree, NEW q \in Site
    PROVE  /\ Cut(q) \in 1..N /\ f[s[Cut(q)]] = f[q] /\ IsCut(Cut(q))
           /\ \A r \in Site : f[r] = f[q] => Rank(s, r) >= Cut(q)
           /\ \A r \in Site : Rank(s, r) >= Cut(q) /\ Rank(s, r) <= Rank(s, q)
                                => f[r] = f[q]
<1> DEFINE S == {j \in 1..N : f[s[j]] = f[q]}
<1>1. \E j \in 1..N : f[s[j]] = f[q] /\ IsCut(j)
  <2>1. Rank(s, q) \in S /\ S \in SUBSET Nat
    BY TreeFacts
  <2>2. PICK m \in S : \A j \in S : m <= j
    <3> HIDE DEF S
    <3> QED BY <2>1, LeastNat
  <2>3. m = 1 \/ (m - 1 \in 1..N /\ m - 1 \notin S)
    BY <2>2, NAssumption
  <2>4. IsCut(m)
    BY <2>3 DEF IsCut
  <2> QED BY <2>4
<1> DEFINE c == Cut(q)
<1>2. c \in 1..N /\ f[s[c]] = f[q] /\ IsCut(c)
  BY <1>1 DEF Cut
<1> HIDE DEF c
<1>3. \A j, l \in 1..N : j <= l => \/ f[s[j]] = f[s[l]]
                                   \/ Increasing(f, s) /\ f[s[j]] < f[s[l]]
                                   \/ ~ Increasing(f, s) /\ f[s[j]] > f[s[l]]
  <2>1. \A j \in 1..N : f[s[j]] \in Int
    BY TreeFacts
  <2>2. CASE Increasing(f, s)
    BY <2>1, <2>2 DEF Increasing
  <2>3. CASE ~ Increasing(f, s)
    BY <2>1, <2>3 DEF Decreasing, Sorted, IsTree
  <2> QED BY <2>2, <2>3
<1>4. ASSUME NEW r \in Site, f[r] = f[q] PROVE Rank(s, r) >= c
  <2>1. SUFFICES ASSUME Rank(s, r) < c PROVE FALSE
    BY <1>2, TreeFacts
  <2> DEFINE j == Rank(s, r)
  <2>2. j \in 1..N /\ s[j] = r /\ j < c
    BY <2>1, TreeFacts
  <2> HIDE DEF j
  <2>3. c # 1 /\ c - 1 \in 1..N /\ j <= c - 1 /\ c - 1 <= c
    BY <2>2, <1>2, NAssumption
  <2>4. f[s[c]] = f[s[c - 1]]
    <3>1. f[s[c]] \in Int /\ f[s[c - 1]] \in Int /\ f[s[j]] = f[s[c]]
      BY <1>2, <1>4, <2>2, <2>3, TreeFacts
    <3>2. \/ f[s[c - 1]] = f[s[c]]
          \/ Increasing(f, s) /\ f[s[c - 1]] < f[s[c]]
          \/ ~ Increasing(f, s) /\ f[s[c - 1]] > f[s[c]]
      BY <1>2, <1>3, <2>3
    <3>3. \/ f[s[j]] = f[s[c - 1]]
          \/ Increasing(f, s) /\ f[s[j]] < f[s[c - 1]]
          \/ ~ Increasing(f, s) /\ f[s[j]] > f[s[c - 1]]
      BY <1>3, <2>2, <2>3
    <3> QED BY <3>1, <3>2, <3>3
  <2> QED BY <1>2, <2>3, <2>4 DEF IsCut
<1>5. ASSUME NEW r \in Site, Rank(s, r) >= c, Rank(s, r) <= Rank(s, q)
      PROVE  f[r] = f[q]
  <2> DEFINE j == Rank(s, r)
             l == Rank(s, q)
  <2>1. j \in 1..N /\ s[j] = r /\ c <= j /\ l \in 1..N /\ s[l] = q /\ j <= l
    BY <1>2, <1>5, TreeFacts
  <2> HIDE DEF j, l
  <2>2. f[s[c]] \in Int /\ f[s[j]] \in Int /\ f[s[l]] = f[s[c]]
    BY <1>2, <2>1, TreeFacts
  <2>3. \/ f[s[c]] = f[s[j]]
        \/ Increasing(f, s) /\ f[s[c]] < f[s[j]]
        \/ ~ Increasing(f, s) /\ f[s[c]] > f[s[j]]
    BY <1>2, <1>3, <2>1
  <2>4. \/ f[s[j]] = f[s[l]]
        \/ Increasing(f, s) /\ f[s[j]] < f[s[l]]
        \/ ~ Increasing(f, s) /\ f[s[j]] > f[s[l]]
    BY <1>3, <2>1
  <2>5. f[s[j]] = f[s[l]]
    BY <2>2, <2>3, <2>4
  <2> QED BY <2>1, <2>5
<1> QED BY <1>2, <1>4, <1>5 DEF c

LEMMA RepresentativeFacts ==
    ASSUME IsTree, NEW q \in Site
    PROVE  /\ Representative(q) \in Site /\ IsNode(Representative(q))
           /\ f[Representative(q)] = f[q]
           /\ Rank(s, Representative(q)) <= Rank(s, q)
           /\ q \in Sub(Representative(q))
           /\ IsNode(q) => Representative(q) = q
           /\ Representative(q) = q \/ Representative(q) = parent[q]
<1>1. CASE IsNode(q)
  BY <1>1, TreeFacts, SubFacts DEF Representative
<1>2. CASE ~ IsNode(q)
  <2>1. Representative(q) = parent[q] /\ parent[q] # q /\ f[parent[q]] = f[q]
    BY <1>2 DEF Representative, IsNode, IsRoot
  <2>2. parent[q] \in Site /\ IsNode(parent[q]) /\ Rank(s, parent[q]) <= Rank(s, q)
    BY TreeFacts DEF IsTree
  <2>3. q \in Sub(parent[q])
    BY <2>2, SubFacts
  <2> QED BY <1>2, <2>1, <2>2, <2>3
<1> QED BY <1>1, <1>2

LEMMA ComponentIsSub ==
    ASSUME IsTree, NEW q \in Site
    PROVE  ComponentOf(q) = Sub(Representative(q))
<1> DEFINE D == LevelFrom(Cut(q))
           m == Representative(q)
           around == {C \in SUBSET D : q \in C /\ NbhClosed(D, C)}
<1>1. ComponentOf(q) = {r \in D : \A C \in around : r \in C}
  BY DEF ComponentOf, Cut
<1>2. /\ Cut(q) \in 1..N /\ IsCut(Cut(q))
      /\ \A r \in Site : f[r] = f[q] => Rank(s, r) >= Cut(q)
      /\ \A r \in Site : Rank(s, r) >= Cut(q) /\ Rank(s, r) <= Rank(s, q)
                           => f[r] = f[q]
  BY CutFacts
<1>3. \A r : r \in D <=> r \in Site /\ Rank(s, r) >= Cut(q)
  <2>1. Cut(q) \in Int /\ Cut(q) >= 1 /\ Enumerates(s)
    BY <1>2, NAssumption DEF IsTree
  <2>2. \A r : r \in {s[j] : j \in Cut(q)..N}
                 <=> r \in Site /\ Rank(s, r) >= Cut(q)
    BY <2>1, LevelFacts
  <2> QED BY <2>2 DEF LevelFrom
<1>4. /\ m \in Site /\ IsNode(m) /\ f[m] = f[q] /\ Rank(s, m) <= Rank(s, q)
      /\ q \in Sub(m)
      /\ m = q \/ m = parent[q]
  BY RepresentativeFacts
<1>5. /\ m \in Sub(m) /\ Sub(m) \subseteq Site
      /\ \A r \in Site : parent[r] \in Sub(m) => r \in Sub(m)
      /\ \A C \in SUBSET Site : m \in C /\ Downward(C) => Sub(m) \subseteq C
      /\ \A r \in Sub(m) : r = m \/ (parent[r] # r /\ parent[r] \in Sub(m))
      /\ \A r \in Sub(m) : Rank(s, m) <= Rank(s, r)
  BY <1>4, SubFacts
<1>6. \A C \in SUBSET D : LinkClosed(parent, D, C) <=> NbhClosed(D, C)
  BY <1>2 DEF IsTree, SameComponents
<1> HIDE DEF D, m
<1>7. Sub(m) \in SUBSET D /\ m \in D /\ q \in D
  <2>1. Rank(s, m) >= Cut(q) /\ Rank(s, q) >= Cut(q)
    BY <1>2, <1>4
  <2>2. ASSUME NEW r \in Sub(m) PROVE Rank(s, r) >= Cut(q)
    BY <1>2, <1>4, <1>5, <2>1, TreeFacts
  <2> QED BY <1>3, <1>4, <1>5, <2>1, <2>2
<1>8. LinkClosed(parent, D, Sub(m))
  <2>1. ASSUME NEW r \in D, parent[r] \in D, r \in Sub(m) PROVE parent[r] \in Sub(m)
    <3>1. CASE r # m
      BY <1>5, <2>1, <3>1
    <3>2. CASE r = m /\ parent[m] # m
      <4>1. parent[m] \in Site /\ Rank(s, parent[m]) >= Cut(q)
            /\ Rank(s, parent[m]) <= Rank(s, q)
        BY <1>2, <1>3, <1>4, <2>1, <3>2, TreeFacts
      <4>2. f[parent[m]] = f[m]
        BY <1>2, <1>4, <4>1
      <4> QED BY <1>4, <3>2, <4>2 DEF IsNode, IsRoot
    <3>3. CASE r = m /\ parent[m] = m
      BY <2>1, <3>3
    <3> QED BY <3>1, <3>2, <3>3
  <2> QED BY <1>3, <1>5, <2>1 DEF LinkClosed
<1>9. Sub(m) \in around
  BY <1>4, <1>6, <1>7, <1>8
<1>10. ASSUME NEW C \in around PROVE Sub(m) \subseteq C
  <2>1. C \in SUBSET D /\ q \in C /\ LinkClosed(parent, D, C)
    BY <1>6
  <2>2. m \in C
    BY <1>4, <1>7, <2>1 DEF LinkClosed
  <2> DEFINE E == {r \in Site : r \in Sub(m) => r \in C}
  <2>3. m \in E /\ E \in SUBSET Site
    BY <1>4, <2>2
  <2>4. ASSUME NEW r \in Site, parent[r] \in E PROVE r \in E
    <3>1. CASE r \notin Sub(m) \/ r = m
      BY <2>2, <3>1
    <3>2. CASE r \in Sub(m) /\ r # m
      <4>1. parent[r] \in Sub(m)
        BY <1>5, <3>2
      <4>2. r \in D /\ parent[r] \in D /\ parent[r] \in C
        BY <1>7, <2>4, <3>2, <4>1
      <4> QED BY <2>1, <4>2 DEF LinkClosed
    <3> QED BY <3>1, <3>2
  <2>5. Sub(m) \subseteq E
    <3> HIDE DEF E
    <3> QED BY <1>5, <2>3, <2>4 DEF Downward
  <2> QED BY <2>5
<1>11. ASSUME NEW r PROVE r \in ComponentOf(q) <=> r \in Sub(m)
  BY <1>1, <1>7, <1>9, <1>10
<1> QED BY <1>11 DEF m

-----------------------------------------------------------------------------
(* What compute_children_ has stored, of the sites after index L of s.      *)

Stored(L, q) == IsNode(q) /\ Rank(s, q) > L
Childless(q) == \A r \in Site : parent[r] = q /\ IsNode(r) => r = q

NodesAt(L, ns) ==
    /\ ns \in Seq(Site)
    /\ \A q : q \in ToSet(ns) <=> q \in Site /\ Stored(L, q)
    /\ \A j, l \in 1..Len(ns) : j < l => Rank(s, ns[j]) > Rank(s, ns[l])
ChildrenAt(L, cs) ==
    /\ cs \in [Site -> Seq(Site)]
    /\ \A q \in Site :
         /\ IsInjective(cs[q])
         /\ \A r : r \in ToSet(cs[q])
                     <=> r \in Site /\ parent[r] = q /\ r # q /\ Stored(L, r)
LeavesAt(L, ls) ==
    /\ ls \in Seq(Site) /\ IsInjective(ls)
    /\ \A q : q \in ToSet(ls) <=> q \in Site /\ Stored(L, q) /\ Childless(q)
RootsAt(L, nr) == nr = Cardinality({q \in Site : IsRoot(q) /\ Rank(s, q) > L})

Left == IF loop = "children" THEN k ELSE 0
StoredInv ==
    /\ loop = "children" => k \in 1..N
    /\ NodesAt(Left, nodes) /\ ChildrenAt(Left, children)
    /\ LeavesAt(Left, leaves) /\ RootsAt(Left, nroots)

DataInv == IF pc = "done" THEN StoredInv ELSE StartData

LEMMA SequenceFacts ==
    ASSUME NEW S, NEW q \in Seq(S)
    PROVE  /\ DOMAIN q = 1..Len(q) /\ Len(q) \in Nat
           /\ ToSet(q) = {q[j] : j \in 1..Len(q)} /\ ToSet(q) \subseteq S
           /\ IsInjective(q) <=> \A j, l \in 1..Len(q) : q[j] = q[l] => j = l
           /\ q = <<>> <=> ToSet(q) = {}
<1>1. DOMAIN q = 1..Len(q) /\ Len(q) \in Nat /\ \A j \in 1..Len(q) : q[j] \in S
  BY LenProperties, ElementOfSeq
<1>2. q = <<>> <=> Len(q) = 0
  BY EmptySeq
<1>3. ToSet(q) = {q[j] : j \in 1..Len(q)}
  BY <1>1 DEF ToSet
<1>4. ToSet(q) \subseteq S
  BY <1>1, <1>3
<1>5. IsInjective(q) <=> \A j, l \in 1..Len(q) : q[j] = q[l] => j = l
  BY <1>1 DEF IsInjective
<1>6. q = <<>> <=> ToSet(q) = {}
  BY <1>1, <1>2, <1>3
<1> QED BY <1>1, <1>3, <1>4, <1>5, <1>6

LEMMA AppendFacts ==
    ASSUME NEW S, NEW q \in Seq(S), NEW e \in S
    PROVE  /\ Append(q, e) \in Seq(S) /\ Len(Append(q, e)) = Len(q) + 1
           /\ \A j \in 1..Len(q) : Append(q, e)[j] = q[j]
           /\ Append(q, e)[Len(q) + 1] = e
           /\ \A r : r \in ToSet(Append(q, e)) <=> r \in ToSet(q) \/ r = e
           /\ IsInjective(q) /\ e \notin ToSet(q) => IsInjective(Append(q, e))
<1> DEFINE b == Append(q, e)
<1>1. /\ b \in Seq(S) /\ Len(b) = Len(q) + 1
      /\ \A j \in 1..Len(q) : b[j] = q[j]
      /\ b[Len(q) + 1] = e
  BY AppendProperties
<1> HIDE DEF b
<1>2. /\ ToSet(q) = {q[j] : j \in 1..Len(q)} /\ ToSet(b) = {b[j] : j \in 1..Len(b)}
      /\ IsInjective(q) <=> \A j, l \in 1..Len(q) : q[j] = q[l] => j = l
      /\ IsInjective(b) <=> \A j, l \in 1..Len(b) : b[j] = b[l] => j = l
      /\ Len(q) \in Nat
  BY <1>1, SequenceFacts
<1>3. 1..Len(b) = 1..Len(q) \cup {Len(q) + 1}
  BY <1>1, <1>2
<1>4. ASSUME NEW r PROVE r \in ToSet(b) <=> r \in ToSet(q) \/ r = e
  BY <1>1, <1>2, <1>3
<1>5. ASSUME IsInjective(q), e \notin ToSet(q) PROVE IsInjective(b)
  BY <1>1, <1>2, <1>3, <1>5
<1> QED BY <1>1, <1>4, <1>5 DEF b

LEMMA DataStart ==
    ASSUME IsTree, StartData
    PROVE  StoredInv
<1>1. loop = "children" /\ k = N /\ Left = N /\ k \in 1..N
  BY NAssumption DEF StartData, Left
<1>2. \A q \in Site : ~ Stored(N, q) /\ ~ Rank(s, q) > N
  BY TreeFacts, NAssumption DEF Stored
<1>3. <<>> \in Seq(Site) /\ ToSet(<<>>) = {} /\ IsInjective(<<>>) /\ Len(<<>>) = 0
  BY DEF ToSet, IsInjective
<1>4. NodesAt(N, nodes) /\ LeavesAt(N, leaves)
  BY <1>2, <1>3 DEF StartData, NodesAt, LeavesAt
<1>5. ChildrenAt(N, children)
  <2>1. children \in [Site -> Seq(Site)] /\ \A q \in Site : children[q] = <<>>
    BY DEF StartData
  <2> QED BY <1>2, <1>3, <2>1 DEF ChildrenAt
<1>6. RootsAt(N, nroots)
  <2>1. {q \in Site : IsRoot(q) /\ Rank(s, q) > N} = {}
    BY <1>2
  <2> QED BY <2>1, FS_EmptySet DEF StartData, RootsAt
<1> QED BY <1>1, <1>4, <1>5, <1>6 DEF StoredInv

\* The same, said of the next state.
LEMMA StoredNext ==
    ASSUME UNCHANGED vars,
           loop' = "children" => k' \in 1..N,
           NodesAt(Left', nodes'), ChildrenAt(Left', children'),
           LeavesAt(Left', leaves'), RootsAt(Left', nroots')
    PROVE  StoredInv'
<1>1. f' = f /\ s' = s /\ parent' = parent
  BY DEF vars
<1>2. (loop = "children" => k \in 1..N)'
  OBVIOUS
<1> DEFINE L == Left'
           ns == nodes'
           cs == children'
           ls == leaves'
<1>3. \A q : Stored(Left, q)' <=> Stored(L, q)
  BY <1>1 DEF Stored, IsNode, IsRoot, Rank
<1>4. ASSUME NEW j, NEW l PROVE Rank(s, nodes[j])' = Rank(s, ns[j])
  BY <1>1 DEF Rank
<1>5. NodesAt(Left, nodes)'
  <2>1. NodesAt(L, ns)
    OBVIOUS
  <2>2. ToSet(nodes)' = ToSet(ns)
    BY DEF ToSet
  <2> HIDE DEF L
  <2> QED BY <1>3, <1>4, <2>1, <2>2 DEF NodesAt
<1>6. ChildrenAt(Left, children)'
  <2>1. ChildrenAt(L, cs)
    OBVIOUS
  <2>2. \A q : ToSet(children[q])' = ToSet(cs[q])
    BY DEF ToSet
  <2>3. \A q : IsInjective(children[q])' = IsInjective(cs[q])
    BY DEF IsInjective
  <2> HIDE DEF L
  <2> QED BY <1>1, <1>3, <2>1, <2>2, <2>3 DEF ChildrenAt
<1>7. LeavesAt(Left, leaves)'
  <2>1. LeavesAt(L, ls)
    OBVIOUS
  <2>2. ToSet(leaves)' = ToSet(ls) /\ IsInjective(leaves)' = IsInjective(ls)
    BY DEF ToSet, IsInjective
  <2>3. \A q : Childless(q)' <=> Childless(q)
    BY <1>1 DEF Childless, IsNode, IsRoot
  <2> HIDE DEF L
  <2> QED BY <1>3, <2>1, <2>2, <2>3 DEF LeavesAt
<1>8. RootsAt(Left, nroots)'
  BY <1>1 DEF RootsAt, IsRoot, Rank
<1> QED BY <1>2, <1>5, <1>6, <1>7, <1>8 DEF StoredInv

LEMMA BrowseFacts ==
    ASSUME IsTree, NEW L \in 1..N
    PROVE  /\ s[L] \in Site /\ Rank(s, s[L]) = L /\ ~ Stored(L, s[L])
           /\ \A r \in Site : Rank(s, r) > L - 1 <=> Rank(s, r) > L \/ r = s[L]
           /\ \A r \in Site : Stored(L - 1, r)
                                <=> Stored(L, r) \/ (r = s[L] /\ IsNode(r))
           /\ \A r \in Site : parent[r] = s[L] /\ r # s[L] /\ IsNode(r) => Stored(L, r)
<1>1. s[L] \in Site /\ Rank(s, s[L]) = L /\ L \in Int
  BY TreeFacts, NAssumption
<1>2. ASSUME NEW r \in Site
      PROVE  Rank(s, r) > L - 1 <=> Rank(s, r) > L \/ r = s[L]
  <2>1. Rank(s, r) \in Int /\ (Rank(s, r) = L <=> r = s[L])
    BY <1>1, TreeFacts
  <2> QED BY <1>1, <2>1
<1>3. ASSUME NEW r \in Site, parent[r] = s[L], r # s[L] PROVE Rank(s, r) > L
  BY <1>1, <1>3, TreeFacts
<1> QED BY <1>1, <1>2, <1>3 DEF Stored

LEMMA StoreNodeFacts ==
    ASSUME IsTree, NEW L \in 1..N, NEW ns, NodesAt(L, ns)
    PROVE  /\ IsNode(s[L]) => NodesAt(L - 1, Append(ns, s[L]))
           /\ ~ IsNode(s[L]) => NodesAt(L - 1, ns)
<1> DEFINE q == s[L]
           b == Append(ns, q)
<1>1. /\ q \in Site /\ Rank(s, q) = L
      /\ \A r \in Site : Stored(L - 1, r) <=> Stored(L, r) \/ (r = q /\ IsNode(r))
  BY BrowseFacts
<1>2. /\ ns \in Seq(Site) /\ Len(ns) \in Nat
      /\ \A r : r \in ToSet(ns) <=> r \in Site /\ Stored(L, r)
      /\ \A j, l \in 1..Len(ns) : j < l => Rank(s, ns[j]) > Rank(s, ns[l])
  BY LenProperties DEF NodesAt
<1>3. /\ b \in Seq(Site) /\ Len(b) = Len(ns) + 1
      /\ \A j \in 1..Len(ns) : b[j] = ns[j]
      /\ b[Len(ns) + 1] = q
      /\ \A r : r \in ToSet(b) <=> r \in ToSet(ns) \/ r = q
  <2> HIDE DEF q
  <2> QED BY <1>1, <1>2, AppendFacts
<1> HIDE DEF b, q
<1>4. ASSUME IsNode(q) PROVE NodesAt(L - 1, b)
  <2>1. ASSUME NEW r PROVE r \in ToSet(b) <=> r \in Site /\ Stored(L - 1, r)
    BY <1>1, <1>2, <1>3, <1>4
  <2>2. ASSUME NEW j \in 1..Len(b), NEW l \in 1..Len(b), j < l
        PROVE  Rank(s, b[j]) > Rank(s, b[l])
    <3>1. j \in 1..Len(ns)
      BY <1>2, <1>3, <2>2
    <3>2. CASE l \in 1..Len(ns)
      <4>1. b[j] = ns[j] /\ b[l] = ns[l] /\ j < l
        BY <1>3, <2>2, <3>1, <3>2
      <4> QED BY <1>2, <3>1, <3>2, <4>1
    <3>3. CASE l = Len(ns) + 1
      <4>1. ns[j] \in ToSet(ns)
        BY <1>2, <3>1, SequenceFacts
      <4>2. Rank(s, ns[j]) > L
        BY <1>2, <4>1 DEF Stored
      <4> QED BY <1>1, <1>3, <3>1, <3>3, <4>2
    <3> QED BY <1>2, <1>3, <3>2, <3>3
  <2> QED BY <1>3, <2>1, <2>2 DEF NodesAt
<1>5. ASSUME ~ IsNode(q) PROVE NodesAt(L - 1, ns)
  <2>1. ASSUME NEW r PROVE r \in ToSet(ns) <=> r \in Site /\ Stored(L - 1, r)
    BY <1>1, <1>2, <1>5
  <2> QED BY <1>2, <2>1 DEF NodesAt
<1> QED BY <1>4, <1>5 DEF b, q

LEMMA StoreChildFacts ==
    ASSUME IsTree, NEW L \in 1..N, NEW cs, ChildrenAt(L, cs)
    PROVE  /\ IsNode(s[L]) /\ ~ IsRoot(s[L]) =>
                ChildrenAt(L - 1, [cs EXCEPT ![parent[s[L]]] = Append(@, s[L])])
           /\ ~ IsNode(s[L]) \/ IsRoot(s[L]) => ChildrenAt(L - 1, cs)
           /\ cs[s[L]] = <<>> <=> Childless(s[L])
<1> DEFINE q == s[L]
           b == [cs EXCEPT ![parent[q]] = Append(@, q)]
<1>1. /\ q \in Site /\ Rank(s, q) = L /\ ~ Stored(L, q)
      /\ \A r \in Site : Stored(L - 1, r) <=> Stored(L, r) \/ (r = q /\ IsNode(r))
      /\ \A r \in Site : parent[r] = q /\ r # q /\ IsNode(r) => Stored(L, r)
  BY BrowseFacts
<1> DEFINE u == parent[q]
<1>2. u \in Site
  BY <1>1, TreeFacts
<1>3. /\ cs \in [Site -> Seq(Site)]
      /\ \A t \in Site :
           /\ IsInjective(cs[t])
           /\ \A r : r \in ToSet(cs[t])
                      <=> r \in Site /\ parent[r] = t /\ r # t /\ Stored(L, r)
  BY DEF ChildrenAt
<1> HIDE DEF q
<1>4. cs[u] \in Seq(Site) /\ cs[q] \in Seq(Site)
  BY <1>1, <1>2, <1>3
<1> DEFINE e == Append(cs[u], q)
<1>5. /\ e \in Seq(Site)
      /\ \A r : r \in ToSet(e) <=> r \in ToSet(cs[u]) \/ r = q
      /\ IsInjective(cs[u]) /\ q \notin ToSet(cs[u]) => IsInjective(e)
  <2> DEFINE d == cs[u]
  <2>1. d \in Seq(Site)
    BY <1>4
  <2> HIDE DEF d, u
  <2>2. /\ Append(d, q) \in Seq(Site)
        /\ \A r : r \in ToSet(Append(d, q)) <=> r \in ToSet(d) \/ r = q
        /\ IsInjective(d) /\ q \notin ToSet(d) => IsInjective(Append(d, q))
    BY <1>1, <2>1, AppendFacts
  <2> QED BY <2>2 DEF d
<1> HIDE DEF e
<1>6. b = [cs EXCEPT ![u] = e]
  BY DEF e
<1> HIDE DEF b, u
<1>7. ASSUME IsNode(q), ~ IsRoot(q) PROVE ChildrenAt(L - 1, b)
  <2>1. b \in [Site -> Seq(Site)] /\ b[u] = e
        /\ \A t \in Site : t # u => b[t] = cs[t]
    BY <1>2, <1>3, <1>5, <1>6
  <2>2. u # q
    BY <1>7 DEF IsRoot, u
  <2>3. ASSUME NEW t \in Site
        PROVE  /\ IsInjective(b[t])
               /\ \A r : r \in ToSet(b[t])
                      <=> r \in Site /\ parent[r] = t /\ r # t /\ Stored(L - 1, r)
    <3>1. CASE t = u
      <4>1. q \notin ToSet(cs[u])
        BY <1>1, <1>2, <1>3
      <4>2. IsInjective(e)
        BY <1>2, <1>3, <1>5, <4>1
      <4>3. \A r : r \in ToSet(cs[u])
                      <=> r \in Site /\ parent[r] = u /\ r # u /\ Stored(L, r)
        BY <1>2, <1>3
      <4>4. parent[q] = u
        BY DEF u
      <4>5. ASSUME NEW r
            PROVE  r \in ToSet(e) <=> r \in Site /\ parent[r] = u /\ r # u /\ Stored(L - 1, r)
        BY <1>1, <1>5, <1>7, <2>2, <4>3, <4>4
      <4> QED BY <2>1, <3>1, <4>2, <4>5
    <3>2. CASE t # u
      <4>1. parent[q] # t /\ b[t] = cs[t] /\ IsInjective(cs[t])
        BY <1>3, <2>1, <3>2 DEF u
      <4>2. ASSUME NEW r
            PROVE  r \in ToSet(cs[t])
                      <=> r \in Site /\ parent[r] = t /\ r # t /\ Stored(L - 1, r)
        BY <1>1, <1>3, <4>1
      <4> QED BY <4>1, <4>2
    <3> QED BY <3>1, <3>2
  <2> QED BY <2>1, <2>3 DEF ChildrenAt
<1>8. ASSUME ~ IsNode(q) \/ IsRoot(q) PROVE ChildrenAt(L - 1, cs)
  <2>1. \A t \in Site : ~ (IsNode(q) /\ parent[q] = t /\ q # t)
    BY <1>8 DEF IsRoot
  <2>2. ASSUME NEW t \in Site, NEW r
        PROVE  r \in ToSet(cs[t]) <=> r \in Site /\ parent[r] = t /\ r # t /\ Stored(L - 1, r)
    BY <1>1, <1>3, <2>1
  <2> QED BY <1>3, <2>2 DEF ChildrenAt
<1>9. cs[q] = <<>> <=> Childless(q)
  <2>1. cs[q] = <<>> <=> ToSet(cs[q]) = {}
    <3> DEFINE d == cs[q]
    <3>1. d \in Seq(Site)
      BY <1>4
    <3> HIDE DEF d
    <3>2. d = <<>> <=> ToSet(d) = {}
      BY <3>1, SequenceFacts
    <3> QED BY <3>2 DEF d
  <2>2. ToSet(cs[q]) = {} <=> \A r \in Site : ~ (parent[r] = q /\ r # q /\ Stored(L, r))
    BY <1>1, <1>3
  <2>3. ASSUME NEW r \in Site, parent[r] = q, r # q PROVE Stored(L, r) <=> IsNode(r)
    BY <1>1, <2>3 DEF Stored
  <2> QED BY <2>1, <2>2, <2>3 DEF Childless
<1> QED BY <1>7, <1>8, <1>9 DEF b, q

LEMMA StoreLeafFacts ==
    ASSUME IsTree, NEW L \in 1..N, NEW ls, LeavesAt(L, ls)
    PROVE  /\ IsNode(s[L]) /\ Childless(s[L]) => LeavesAt(L - 1, Append(ls, s[L]))
           /\ ~ (IsNode(s[L]) /\ Childless(s[L])) => LeavesAt(L - 1, ls)
<1> DEFINE q == s[L]
           b == Append(ls, q)
<1>1. /\ q \in Site /\ ~ Stored(L, q)
      /\ \A r \in Site : Stored(L - 1, r) <=> Stored(L, r) \/ (r = q /\ IsNode(r))
  BY BrowseFacts
<1>2. /\ ls \in Seq(Site) /\ IsInjective(ls)
      /\ \A r : r \in ToSet(ls) <=> r \in Site /\ Stored(L, r) /\ Childless(r)
  BY DEF LeavesAt
<1>3. /\ b \in Seq(Site)
      /\ \A r : r \in ToSet(b) <=> r \in ToSet(ls) \/ r = q
      /\ IsInjective(ls) /\ q \notin ToSet(ls) => IsInjective(b)
  <2> HIDE DEF q
  <2> QED BY <1>1, <1>2, AppendFacts
<1> HIDE DEF b, q
<1>4. ASSUME IsNode(q), Childless(q) PROVE LeavesAt(L - 1, b)
  <2>1. \A r : r \in ToSet(b) <=> r \in Site /\ Stored(L - 1, r) /\ Childless(r)
    BY <1>1, <1>2, <1>3, <1>4
  <2> QED BY <1>1, <1>2, <1>3, <2>1 DEF LeavesAt
<1>5. ASSUME ~ (IsNode(q) /\ Childless(q)) PROVE LeavesAt(L - 1, ls)
  <2>1. \A r : r \in ToSet(ls) <=> r \in Site /\ Stored(L - 1, r) /\ Childless(r)
    BY <1>1, <1>2, <1>5
  <2> QED BY <1>2, <2>1 DEF LeavesAt
<1> QED BY <1>4, <1>5 DEF b, q

LEMMA SitesAreFinite == IsFiniteSet(Site) /\ \A S \in SUBSET Site : IsFiniteSet(S)
<1>1. 1 \in Int /\ N \in Int
  BY NAssumption
<1>2. IsFiniteSet(1..N)
  BY <1>1, FS_Interval
<1> QED BY <1>2, FS_Subset DEF Site

LEMMA StoreRootFacts ==
    ASSUME IsTree, NEW L \in 1..N, NEW nr, RootsAt(L, nr)
    PROVE  /\ IsRoot(s[L]) => RootsAt(L - 1, nr + 1)
           /\ ~ IsRoot(s[L]) => RootsAt(L - 1, nr)
<1> DEFINE q == s[L]
           A == {r \in Site : IsRoot(r) /\ Rank(s, r) > L}
           B == {r \in Site : IsRoot(r) /\ Rank(s, r) > L - 1}
<1>1. /\ q \in Site /\ Rank(s, q) = L
      /\ \A r \in Site : Rank(s, r) > L - 1 <=> Rank(s, r) > L \/ r = q
  BY BrowseFacts
<1>2. q \notin A /\ IsFiniteSet(A) /\ nr = Cardinality(A)
  BY <1>1, SitesAreFinite, NAssumption DEF RootsAt
<1>3. IF IsRoot(q) THEN B = A \cup {q} ELSE B = A
  BY <1>1
<1>4. Cardinality(A \cup {q}) = Cardinality(A) + 1
  <2> HIDE DEF A, q
  <2> QED BY <1>2, FS_AddElement
<1>5. RootsAt(L - 1, Cardinality(B))
  BY DEF RootsAt
<1> HIDE DEF A, B
<1> QED BY <1>2, <1>3, <1>4, <1>5

\* Calls and their loops begin once the tree is stored, and only read it.
LEMMA CallsReadTree ==
    ASSUME Calls \/ Loops
    PROVE  UNCHANGED tree_vars /\ loop # "children" /\ loop' # "children"
<1>1. CASE Calls
  <2>1. CASE CallFilter
    BY <2>1 DEF CallFilter, Call
  <2>2. CASE CallPropagateIf
    BY <2>2 DEF CallPropagateIf, Call
  <2>3. CASE CallPropagateIfValue
    BY <2>3 DEF CallPropagateIfValue, Call
  <2>4. CASE CallDescendants
    BY <2>4 DEF CallDescendants, Call
  <2>5. CASE CallAncestors
    BY <2>5 DEF CallAncestors, Call
  <2>6. CASE CallAttribute
    BY <2>6 DEF CallAttribute, Call
  <2> QED BY <1>1, <2>1, <2>2, <2>3, <2>4, <2>5, <2>6 DEF Calls
<1>2. CASE Loops
  <2>1. CASE Direct
    BY <2>1 DEF Direct, Same, DownTo
  <2>2. CASE Prune
    BY <2>2 DEF Prune, Same, DownTo
  <2>3. CASE MaxMark
    BY <2>3 DEF MaxMark, Same, UpTo
  <2>4. CASE Max1
    BY <2>4 DEF Max1, Same, DownTo
  <2>5. CASE PropagateDown
    BY <2>5 DEF PropagateDown, Same, DownTo
  <2>6. CASE Subtract
    BY <2>6 DEF Subtract, Same, UpTo
  <2>7. CASE PropagateUp
    BY <2>7 DEF PropagateUp, Same, UpTo
  <2>8. CASE PropagateRepresentative
    BY <2>8 DEF PropagateRepresentative, Same
  <2>9. CASE PropagateDescendants
    BY <2>9 DEF PropagateDescendants
  <2>10. CASE PropagateAncestors
    BY <2>10 DEF PropagateAncestors
  <2>11. CASE Take
    BY <2>11 DEF Take, DownTo
  <2>12. CASE TakeBack
    BY <2>12 DEF TakeBack
  <2> QED
    BY <1>2, <2>1, <2>2, <2>3, <2>4, <2>5, <2>6, <2>7, <2>8, <2>9, <2>10,
       <2>11, <2>12 DEF Loops
<1> QED BY <1>1, <1>2

LEMMA TreeStays ==
    ASSUME IInv, DataInv, FiltersNext
    PROVE  IInv' /\ (pc = "done" => UNCHANGED vars)
<1>1. CASE Next /\ UNCHANGED <<data_vars, call_vars>>
  <2>1. pc = "done" => UNCHANGED vars
    BY <1>1 DEF Next, MakeSet, SkipNeighbour, VisitNeighbour, FindRootCall,
                FindRootBase, FindRootReturn, DoUnion, NextSite, Canonize, Returned
  <2> QED BY <1>1, <2>1, OrderStep, PartsStep DEF IInv
<1>2. CASE UNCHANGED vars
  BY <1>2, OrderStutter, PartsStutter DEF IInv
<1>3. CASE DataNext
  BY <1>2, <1>3 DEF DataNext, AddNode, AddRoot, SkipSite
<1>4. CASE Calls \/ Loops
  BY <1>2, <1>4, CallsReadTree DEF tree_vars
<1> QED BY <1>1, <1>3, <1>4 DEF FiltersNext

LEMMA DoneIsStored ==
    (IInv /\ pc = "done" => IsTree) /\ (IsTree /\ StartData => StoredInv)
BY DoneIsTree, DataStart

LEMMA DataStep ==
    ASSUME IInv, DataInv, FiltersNext
    PROVE  DataInv'
<1>1. IInv' /\ (pc = "done" => UNCHANGED vars)
  BY TreeStays
<1>2. CASE pc # "done"
  <2>1. StartData
    BY <1>2 DEF DataInv
  <2>2. UNCHANGED data_vars
    <3>1. ~ (Calls \/ Loops) /\ ~ DataNext
      BY <1>2, <2>1, CallsReadTree DEF StartData, DataNext, AddNode, AddRoot,
         SkipSite, Browsing
    <3> QED BY <3>1 DEF FiltersNext
  <2>3. StartData'
    BY <2>1, <2>2 DEF StartData, data_vars
  <2>4. pc' = "done" => StoredInv'
    <3> SUFFICES ASSUME pc' = "done" PROVE StoredInv'
      OBVIOUS
    <3>1. (IInv /\ pc = "done" => IsTree)' /\ (IsTree /\ StartData => StoredInv)'
      BY DoneIsStored, PTL
    <3> QED BY <1>1, <2>3, <3>1
  <2> QED BY <2>3, <2>4 DEF DataInv
<1>3. CASE pc = "done"
  <2> USE <1>3
  <2>1. IsTree /\ StoredInv /\ UNCHANGED vars /\ pc' = "done"
    BY <1>1, DoneIsTree DEF DataInv, vars
  <2>2. CASE DataNext
    <3>1. loop = "children" /\ Left = k /\ k \in 1..N
      BY <2>1, <2>2 DEF DataNext, AddNode, AddRoot, SkipSite, Browsing, StoredInv, Left
    <3>2. (loop' = "children" => k' \in 1..N) /\ Left' = k - 1
      <4>1. DownTo("call")
        BY <2>2 DEF DataNext, AddNode, AddRoot, SkipSite
      <4> QED BY <3>1, <4>1, NAssumption DEF DownTo, Left
    <3>3. NodesAt(k, nodes) /\ ChildrenAt(k, children) /\ LeavesAt(k, leaves)
          /\ RootsAt(k, nroots)
      BY <2>1, <3>1 DEF StoredInv
    <3>4. IsLeaf(s[k]) <=> Childless(s[k])
      BY <2>1, <3>1, <3>3, StoreChildFacts DEF IsLeaf
    <3>5. CASE AddNode
      <4>1. IsNode(s[k]) /\ ~ IsRoot(s[k])
        BY <3>5 DEF AddNode, IsNode, IsRoot
      <4>2. nodes' = Append(nodes, s[k])
            /\ leaves' = (IF IsLeaf(s[k]) THEN Append(leaves, s[k]) ELSE leaves)
        BY <3>5 DEF AddNode, StoreNode
      <4>3. children' = [children EXCEPT ![parent[s[k]]] = Append(@, s[k])]
            /\ nroots' = nroots
        BY <3>5 DEF AddNode
      <4>4. NodesAt(k - 1, nodes')
        BY <2>1, <3>1, <3>3, <4>1, <4>2, StoreNodeFacts
      <4>5. ChildrenAt(k - 1, children')
        BY <2>1, <3>1, <3>3, <4>1, <4>3, StoreChildFacts
      <4>6. LeavesAt(k - 1, leaves')
        BY <2>1, <3>1, <3>3, <3>4, <4>1, <4>2, StoreLeafFacts
      <4>7. RootsAt(k - 1, nroots')
        BY <2>1, <3>1, <3>3, <4>1, <4>3, StoreRootFacts
      <4> QED BY <2>1, <3>2, <4>4, <4>5, <4>6, <4>7, StoredNext DEF DataInv
    <3>6. CASE AddRoot
      <4>1. IsNode(s[k]) /\ IsRoot(s[k])
        BY <3>6 DEF AddRoot, IsNode, IsRoot
      <4>2. nodes' = Append(nodes, s[k])
            /\ leaves' = (IF IsLeaf(s[k]) THEN Append(leaves, s[k]) ELSE leaves)
        BY <3>6 DEF AddRoot, StoreNode
      <4>3. children' = children /\ nroots' = nroots + 1
        BY <3>6 DEF AddRoot
      <4>4. NodesAt(k - 1, nodes')
        BY <2>1, <3>1, <3>3, <4>1, <4>2, StoreNodeFacts
      <4>5. ChildrenAt(k - 1, children')
        BY <2>1, <3>1, <3>3, <4>1, <4>3, StoreChildFacts
      <4>6. LeavesAt(k - 1, leaves')
        BY <2>1, <3>1, <3>3, <3>4, <4>1, <4>2, StoreLeafFacts
      <4>7. RootsAt(k - 1, nroots')
        BY <2>1, <3>1, <3>3, <4>1, <4>3, StoreRootFacts
      <4> QED BY <2>1, <3>2, <4>4, <4>5, <4>6, <4>7, StoredNext DEF DataInv
    <3>7. CASE SkipSite
      <4>1. ~ IsNode(s[k]) /\ ~ IsRoot(s[k])
        BY <3>7 DEF SkipSite, IsNode
      <4>2. UNCHANGED <<nodes, children, leaves, nroots>>
        BY <3>7 DEF SkipSite
      <4>3. NodesAt(k - 1, nodes')
        BY <2>1, <3>1, <3>3, <4>1, <4>2, StoreNodeFacts
      <4>4. ChildrenAt(k - 1, children')
        BY <2>1, <3>1, <3>3, <4>1, <4>2, StoreChildFacts
      <4>5. LeavesAt(k - 1, leaves')
        BY <2>1, <3>1, <3>3, <4>1, <4>2, StoreLeafFacts
      <4>6. RootsAt(k - 1, nroots')
        BY <2>1, <3>1, <3>3, <4>1, <4>2, StoreRootFacts
      <4> QED BY <2>1, <3>2, <4>3, <4>4, <4>5, <4>6, StoredNext DEF DataInv
    <3> QED BY <2>2, <3>5, <3>6, <3>7 DEF DataNext
  <2>3. CASE UNCHANGED tree_vars /\ Left' = Left /\ (loop' = "children" => k' \in 1..N)
    <3>1. UNCHANGED <<children, nodes, leaves, nroots>> /\ Left' = Left
      BY <2>3 DEF tree_vars
    <3>2. /\ NodesAt(Left', nodes') /\ ChildrenAt(Left', children')
          /\ LeavesAt(Left', leaves') /\ RootsAt(Left', nroots')
      BY <2>1, <3>1 DEF StoredInv
    <3> QED BY <2>1, <2>3, <3>2, StoredNext DEF DataInv
  <2>4. CASE Calls \/ Loops
    <3>1. Left = 0 /\ Left' = 0
      BY <2>4, CallsReadTree DEF Left
    <3> QED BY <2>3, <2>4, <3>1, CallsReadTree
  <2>5. CASE UNCHANGED data_vars
    <3>1. Left' = Left /\ UNCHANGED <<loop, k>> /\ UNCHANGED tree_vars
      BY <2>1, <2>5 DEF Left, data_vars, tree_vars
    <3> QED BY <2>1, <2>3, <3>1 DEF StoredInv
  <2> QED BY <2>2, <2>4, <2>5 DEF FiltersNext
<1> QED BY <1>2, <1>3

StoreInv == IInv /\ DataInv

LEMMA StoreInit == TreeInit => StoreInv
<1> SUFFICES ASSUME TreeInit PROVE StoreInv
  OBVIOUS
<1>1. IInv
  BY OrderInit, PartsInit DEF IInv, TreeInit
<1>2. DataInv
  BY DEF TreeInit, Init, Start, StartFilters, DataInv
<1> QED BY <1>1, <1>2 DEF StoreInv

LEMMA StoreStep ==
    StoreInv /\ [FiltersNext]_<<vars, data_vars, call_vars>> => StoreInv'
<1>1. StoreInv /\ FiltersNext => StoreInv'
  BY TreeStays, DataStep DEF StoreInv
<1>2. StoreInv /\ UNCHANGED <<vars, data_vars, call_vars>> => StoreInv'
  <2> SUFFICES ASSUME StoreInv, UNCHANGED vars, UNCHANGED data_vars PROVE StoreInv'
    OBVIOUS
  <2>1. IInv' /\ pc' = pc
    BY OrderStutter, PartsStutter DEF IInv, StoreInv, vars
  <2>2. CASE pc # "done"
    BY <2>1, <2>2 DEF StoreInv, DataInv, StartData, data_vars
  <2>3. CASE pc = "done"
    <3>1. StoredInv
      BY <2>3 DEF StoreInv, DataInv
    <3>2. Left' = Left /\ UNCHANGED <<loop, k, children, nodes, leaves, nroots>>
      BY DEF Left, data_vars
    <3>3. StoredInv'
      <4>1. /\ NodesAt(Left', nodes') /\ ChildrenAt(Left', children')
            /\ LeavesAt(Left', leaves') /\ RootsAt(Left', nroots')
        BY <3>1, <3>2 DEF StoredInv
      <4>2. loop' = "children" => k' \in 1..N
        BY <3>1, <3>2 DEF StoredInv
      <4> QED BY <4>1, <4>2, StoredNext
    <3> QED BY <2>1, <2>3, <3>3 DEF StoreInv, DataInv
  <2> QED BY <2>2, <2>3
<1> QED BY <1>1, <1>2

-----------------------------------------------------------------------------
(* The nodes are the components.                                            *)

Child(q) == {r \in Site : parent[r] = q /\ r # q /\ IsNode(r)}

\* What is stored once every site was browsed.
LEMMA StoredFacts ==
    ASSUME IsTree, StoredInv, loop # "children"
    PROVE  /\ Nodes = {q \in Site : IsNode(q)}
           /\ nodes \in Seq(Site) /\ Len(nodes) \in Nat \ {0}
           /\ \A j \in 1..Len(nodes) : nodes[j] \in Nodes
           /\ \A q \in Nodes : \E j \in 1..Len(nodes) : nodes[j] = q
           /\ \A j, l \in 1..Len(nodes) : j < l => Rank(s, nodes[j]) > Rank(s, nodes[l])
           /\ \A j, l \in 1..Len(nodes) : nodes[j] = nodes[l] => j = l
           /\ children \in [Site -> Seq(Site)]
           /\ \A q \in Site : IsInjective(children[q]) /\ ToSet(children[q]) = Child(q)
           /\ leaves \in Seq(Site) /\ IsInjective(leaves)
           /\ ToSet(leaves) = {q \in Nodes : Child(q) = {}}
           /\ nroots = Cardinality({q \in Site : IsRoot(q)})
<1>1. Left = 0
  BY DEF Left
<1>2. \A q \in Site : Stored(0, q) <=> IsNode(q)
  BY TreeFacts DEF Stored
<1>3. NodesAt(0, nodes) /\ ChildrenAt(0, children) /\ LeavesAt(0, leaves)
      /\ RootsAt(0, nroots)
  BY <1>1 DEF StoredInv
<1>4. Nodes = {q \in Site : IsNode(q)} /\ nodes \in Seq(Site)
  BY <1>2, <1>3 DEF NodesAt, Nodes
<1>5. Len(nodes) \in Nat /\ Nodes = {nodes[j] : j \in 1..Len(nodes)}
  BY <1>4, SequenceFacts DEF Nodes
<1>6. Len(nodes) # 0
  <2>1. s[1] \in Site /\ Rank(s, s[1]) = 1
    BY TreeFacts, NAssumption
  <2>2. IsNode(s[1])
    BY <2>1, TreeFacts DEF IsNode, IsRoot
  <2>3. s[1] \in Nodes
    BY <1>4, <2>1, <2>2
  <2> QED BY <1>5, <2>3
<1>7. \A j, l \in 1..Len(nodes) : j < l => Rank(s, nodes[j]) > Rank(s, nodes[l])
  BY <1>3 DEF NodesAt
<1>8. ASSUME NEW j \in 1..Len(nodes), NEW l \in 1..Len(nodes), nodes[j] = nodes[l]
      PROVE  j = l
  <2>1. nodes[j] \in Site /\ nodes[l] \in Site
    BY <1>4, <1>5
  <2>2. ~ j < l /\ ~ l < j
    BY <1>7, <1>8, <2>1, TreeFacts
  <2> QED BY <2>2
<1>9. children \in [Site -> Seq(Site)]
  BY <1>3 DEF ChildrenAt
<1>10. ASSUME NEW q \in Site
       PROVE  IsInjective(children[q]) /\ ToSet(children[q]) = Child(q)
  <2>1. \A r : r \in ToSet(children[q])
                <=> r \in Site /\ parent[r] = q /\ r # q /\ Stored(0, r)
    BY <1>3 DEF ChildrenAt
  <2>2. \A r : r \in ToSet(children[q]) <=> r \in Child(q)
    BY <1>2, <2>1 DEF Child
  <2>3. ToSet(children[q]) = Child(q)
    BY <2>2
  <2> QED BY <1>3, <2>3 DEF ChildrenAt
<1>11. leaves \in Seq(Site) /\ IsInjective(leaves)
  BY <1>3 DEF LeavesAt
<1>12. ToSet(leaves) = {q \in Nodes : Child(q) = {}}
  <2>1. \A q : q \in ToSet(leaves) <=> q \in Site /\ Stored(0, q) /\ Childless(q)
    BY <1>3 DEF LeavesAt
  <2>2. \A q : Childless(q) <=> Child(q) = {}
    BY DEF Childless, Child
  <2> QED BY <1>2, <1>4, <2>1, <2>2
<1>13. nroots = Cardinality({q \in Site : IsRoot(q)})
  <2>1. {q \in Site : IsRoot(q)} = {q \in Site : IsRoot(q) /\ Rank(s, q) > 0}
    BY TreeFacts
  <2> QED BY <1>3, <2>1 DEF RootsAt
<1> QED BY <1>4, <1>5, <1>6, <1>7, <1>8, <1>9, <1>10, <1>11, <1>12, <1>13

\* A node strictly below another has an ancestor that is its child.
LEMMA BelowHasChild ==
    ASSUME IsTree, NEW q \in Site, NEW r \in Sub(q), r # q, IsNode(r)
    PROVE  Child(q) # {}
<1> DEFINE S == {t \in Sub(q) : t # q /\ IsNode(t)}
           R == {Rank(s, t) : t \in S}
<1>1. S \subseteq Site /\ r \in S /\ Rank(s, r) \in R
  BY SubFacts
<1>2. R \in SUBSET Nat
  BY <1>1, TreeFacts
<1>3. PICK m \in R : \A j \in R : m <= j
  <2> HIDE DEF R
  <2> QED BY <1>1, <1>2, LeastNat
<1>4. PICK t \in S : m = Rank(s, t)
  OBVIOUS
<1>5. parent[t] \in Sub(q) /\ parent[t] # t /\ IsNode(parent[t])
      /\ Rank(s, parent[t]) < Rank(s, t)
  BY <1>1, <1>4, SubFacts, TreeFacts
<1>6. parent[t] = q
  <2>1. SUFFICES ASSUME parent[t] # q PROVE FALSE
    OBVIOUS
  <2>2. Rank(s, parent[t]) \in R
    BY <1>5, <2>1
  <2> QED BY <1>2, <1>3, <1>4, <1>5, <2>2
<1>7. t \in Child(q)
  BY <1>1, <1>4, <1>6 DEF Child
<1> QED BY <1>7

Parts == [q \in Site |-> ComponentOf(q)]

LEMMA InsideIsBelow ==
    ASSUME IsTree, StoredInv, loop # "children", NEW q \in Nodes
    PROVE  /\ Parts[q] = Sub(q)
           /\ \A r : r \in Inside(Parts, Nodes, q) <=> r \in Nodes /\ r \in Sub(q) /\ r # q
<1>1. Nodes = {r \in Site : IsNode(r)}
  BY StoredFacts
<1>2. ASSUME NEW r \in Nodes PROVE Parts[r] = Sub(r) /\ r \in Site
  <2>1. r \in Site /\ IsNode(r) /\ Representative(r) = r
    BY <1>1 DEF Representative
  <2> QED BY <2>1, ComponentIsSub DEF Parts
<1>3. ASSUME NEW r \in Nodes
      PROVE  Sub(r) # Sub(q) /\ Sub(r) \subseteq Sub(q) <=> r \in Sub(q) /\ r # q
  <2>1. r \in Sub(r)
    BY <1>2, SubFacts
  <2>2. r \in Sub(q) => Sub(r) \subseteq Sub(q) /\ (r # q => Sub(r) # Sub(q))
    BY <1>2, SubNests
  <2> QED BY <2>1, <2>2
<1> QED BY <1>2, <1>3 DEF Inside

LEMMA StoredNodesAreComponents ==
    ASSUME IsTree, StoredInv, loop # "children"
    PROVE  NodesAreComponents
<1> USE StoredFacts
<1>1. ASSUME NEW q \in Site
      PROVE  Cardinality({j \in DOMAIN nodes : Parts[nodes[j]] = Parts[q]}) = 1
  <2> DEFINE m == Representative(q)
  <2>1. m \in Nodes /\ m \in Site /\ Parts[q] = Sub(m)
    BY RepresentativeFacts, ComponentIsSub DEF Parts
  <2> HIDE DEF m
  <2>2. PICK j \in 1..Len(nodes) : nodes[j] = m
    BY <2>1
  <2>3. ASSUME NEW l \in 1..Len(nodes) PROVE Parts[nodes[l]] = Parts[q] <=> l = j
    <3> DEFINE u == nodes[l]
    <3>1. u \in Nodes /\ u \in Site /\ Parts[u] = Sub(u)
      <4>1. u \in Nodes
        OBVIOUS
      <4> HIDE DEF u
      <4> QED BY <4>1, InsideIsBelow
    <3> HIDE DEF u
    <3>2. Sub(u) = Sub(m) => u = m
      <4> SUFFICES ASSUME Sub(u) = Sub(m) PROVE u = m
        OBVIOUS
      <4>1. u \in Sub(m) /\ m \in Sub(u)
        BY <2>1, <3>1, SubFacts
      <4> QED BY <2>1, <4>1, SubNests
    <3>3. Parts[u] = Parts[q] <=> u = m
      BY <2>1, <3>1, <3>2
    <3>4. u = m <=> l = j
      BY <2>2 DEF u
    <3> QED BY <3>3, <3>4 DEF u
  <2>4. DOMAIN nodes = 1..Len(nodes)
    BY SequenceFacts
  <2>5. {l \in DOMAIN nodes : Parts[nodes[l]] = Parts[q]} = {j}
    BY <2>3, <2>4
  <2> QED BY <2>5, FS_Singleton
<1>2. ASSUME NEW q \in Nodes
      PROVE  /\ IsInjective(children[q])
             /\ ToSet(children[q]) = JustInside(Parts, Nodes, q)
  <2>1. q \in Site /\ ToSet(children[q]) = Child(q) /\ IsInjective(children[q])
    OBVIOUS
  <2>2. ASSUME NEW r \in Child(q) PROVE r \in JustInside(Parts, Nodes, q)
    <3>1. r \in Nodes /\ r \in Sub(q) /\ r # q /\ parent[r] = q
      BY <2>1, SubFacts DEF Child
    <3>2. r \in Inside(Parts, Nodes, q)
      BY <3>1, InsideIsBelow
    <3>3. ASSUME NEW m \in Inside(Parts, Nodes, q), r \in Inside(Parts, Nodes, m)
          PROVE  FALSE
      <4>1. m \in Nodes /\ m \in Sub(q) /\ m # q /\ m \in Site
        BY <3>3, InsideIsBelow
      <4>2. r \in Sub(m) /\ r # m
        BY <3>3, <4>1, InsideIsBelow
      <4>3. q \in Sub(m)
        BY <3>1, <4>1, <4>2, SubFacts
      <4> QED BY <2>1, <4>1, <4>3, SubNests
    <3> QED BY <3>2, <3>3 DEF JustInside
  <2>3. ASSUME NEW r \in JustInside(Parts, Nodes, q) PROVE r \in Child(q)
    <3>1. r \in Inside(Parts, Nodes, q)
          /\ \A m \in Inside(Parts, Nodes, q) : r \notin Inside(Parts, Nodes, m)
      BY DEF JustInside
    <3>2. r \in Nodes /\ r \in Sub(q) /\ r # q /\ r \in Site
      BY <3>1, InsideIsBelow
    <3>3. parent[r] \in Sub(q) /\ parent[r] # r /\ parent[r] \in Nodes /\ parent[r] \in Site
      BY <2>1, <3>2, SubFacts, TreeFacts
    <3>4. r \in Sub(parent[r])
      BY <3>2, <3>3, SubFacts
    <3>5. r \in Inside(Parts, Nodes, parent[r])
      BY <3>2, <3>3, <3>4, InsideIsBelow
    <3>6. parent[r] \notin Inside(Parts, Nodes, q)
      BY <3>1, <3>5
    <3>7. parent[r] = q
      BY <3>3, <3>6, InsideIsBelow
    <3> QED BY <3>2, <3>7 DEF Child
  <2>4. Child(q) = JustInside(Parts, Nodes, q)
    BY <2>2, <2>3
  <2> QED BY <2>1, <2>4
<1>3. ToSet(leaves) = {q \in Nodes : Inside(Parts, Nodes, q) = {}}
  <2>1. ASSUME NEW q \in Nodes PROVE Child(q) = {} <=> Inside(Parts, Nodes, q) = {}
    <3>1. ASSUME NEW r \in Child(q) PROVE r \in Inside(Parts, Nodes, q)
      <4>1. q \in Site /\ r \in Nodes /\ r # q /\ r \in Sub(q)
        BY SubFacts DEF Child
      <4> QED BY <4>1, InsideIsBelow
    <3>2. ASSUME NEW r \in Inside(Parts, Nodes, q) PROVE Child(q) # {}
      <4>1. q \in Site /\ r \in Sub(q) /\ r # q /\ IsNode(r)
        BY InsideIsBelow
      <4> QED BY <4>1, BelowHasChild
    <3> QED BY <3>1, <3>2
  <2> QED BY <2>1
<1>4. Nodes \ UNION {Inside(Parts, Nodes, q) : q \in Nodes} = {q \in Site : IsRoot(q)}
  <2>1. ASSUME NEW r \in Nodes, NEW q \in Nodes, r \in Inside(Parts, Nodes, q)
        PROVE  ~ IsRoot(r)
    <3>1. q \in Site /\ r \in Sub(q) /\ r # q
      BY <2>1, InsideIsBelow
    <3> QED BY <3>1, SubFacts DEF IsRoot
  <2>2. ASSUME NEW r \in Nodes, ~ IsRoot(r)
        PROVE  \E q \in Nodes : r \in Inside(Parts, Nodes, q)
    <3>1. r \in Site /\ parent[r] \in Nodes /\ parent[r] \in Site /\ parent[r] # r
      BY <2>2, TreeFacts DEF IsRoot
    <3>2. r \in Sub(parent[r])
      BY <3>1, SubFacts
    <3>3. r \in Inside(Parts, Nodes, parent[r])
      BY <3>1, <3>2, InsideIsBelow
    <3> QED BY <3>1, <3>3
  <2>3. \A r \in Site : IsRoot(r) => r \in Nodes
    BY DEF IsNode
  <2> QED BY <2>1, <2>2, <2>3
<1>5. IsInjective(leaves)
      /\ nroots = Cardinality(Nodes \ UNION {Inside(Parts, Nodes, q) : q \in Nodes})
  BY <1>4
<1> DEFINE Good(part) ==
        /\ \A q \in Site : Cardinality({j \in DOMAIN nodes : part[nodes[j]] = part[q]}) = 1
        /\ \A q \in Nodes :
             /\ IsInjective(children[q])
             /\ ToSet(children[q]) = JustInside(part, Nodes, q)
        /\ IsInjective(leaves)
        /\ ToSet(leaves) = {q \in Nodes : Inside(part, Nodes, q) = {}}
        /\ nroots = Cardinality(Nodes \ UNION {Inside(part, Nodes, q) : q \in Nodes})
<1>6. Good(Parts)
  BY <1>1, <1>2, <1>3, <1>5
<1>7. \E part \in {[q \in Site |-> ComponentOf(q)]} : Good(part)
  <2> HIDE DEF Good
  <2> QED BY <1>6 DEF Parts
<1> QED BY <1>7 DEF NodesAreComponents

\* tree::data: for every image, the nodes stored are the components of the
\* level sets, each once, with the largest components inside each as its
\* children, the leaves and the count of the roots.
THEOREM StoredTreeIsComponentTree == TreeSpec => []NodesAreComponents
<1>1. StoreInv => NodesAreComponents
  <2> SUFFICES ASSUME StoreInv, loop = "call" PROVE NodesAreComponents
    BY DEF NodesAreComponents
  <2>1. pc = "done" /\ StoredInv
    BY DEF StoreInv, DataInv, StartData
  <2>2. IsTree
    BY <2>1, DoneIsTree DEF StoreInv
  <2> QED BY <2>1, <2>2, StoredNodesAreComponents
<1> QED BY <1>1, StoreInit, StoreStep, PTL DEF TreeSpec

-----------------------------------------------------------------------------
(* Which routine a loop belongs to, and where its index is.                 *)

Filters == {"direct", "min", "max", "subtractive", "filter"}
Routines == Filters \cup {"desc", "asc", "descendants", "ancestors", "attribute"}
NodeLoops == {"direct", "min", "filter", "max_mark", "max", "desc", "subtractive", "asc"}

RunInv ==
    /\ loop \in {"direct", "min", "filter", "asc", "descendants", "ancestors",
                 "subtractive"} => routine = loop
    /\ loop \in {"max_mark", "max"} => routine = "max"
    /\ loop = "desc" => routine \in {"desc", "subtractive"}
    /\ loop = "representative" => routine \in Filters
    /\ loop \in {"attribute", "back"} => routine = "attribute"
    /\ loop = "returned" => routine \in Routines
    /\ loop \in {"children", "call"} => routine = "none"
    /\ loop \in NodeLoops => k \in 1..Len(nodes)
    /\ loop = "attribute" => k \in 1..N

Loop == NodeLoops \cup {"representative", "descendants", "ancestors", "attribute",
                        "back", "returned", "children", "call"}

LEMMA RunStep ==
    ASSUME StoreInv, loop \in Loop, RunInv, FiltersNext
    PROVE  RunInv' /\ loop' \in Loop
<1> USE DEF Loop, NodeLoops, Filters, Routines
<1>1. ASSUME Calls \/ Loops PROVE StoredInv /\ IsTree /\ Len(nodes) \in Nat \ {0}
  <2>1. loop # "children"
    BY <1>1, CallsReadTree
  <2>2. StoredInv /\ IsTree
    BY <2>1, DoneIsTree DEF StoreInv, DataInv, StartData
  <2> QED BY <2>1, <2>2, StoredFacts
<1>2. CASE Next /\ UNCHANGED <<data_vars, call_vars>>
  BY <1>2 DEF RunInv, data_vars, call_vars, args
<1>3. CASE DataNext /\ UNCHANGED call_vars
  <2>1. DownTo("call") /\ loop = "children" /\ routine' = routine
    BY <1>3 DEF DataNext, AddNode, AddRoot, SkipSite, Browsing, call_vars, args
  <2> QED BY <2>1 DEF RunInv, DownTo
<1>4. CASE Calls
  <2>1. nodes' = nodes /\ Len(nodes) \in 1..Len(nodes) /\ 1 \in 1..Len(nodes)
        /\ N \in 1..N
    BY <1>1, <1>4, CallsReadTree, NAssumption DEF tree_vars
  <2>2. CASE CallFilter
    BY <2>1, <2>2 DEF CallFilter, Call, RunInv
  <2>3. CASE CallPropagateIf
    BY <2>1, <2>3 DEF CallPropagateIf, Call, RunInv
  <2>4. CASE CallPropagateIfValue
    BY <2>1, <2>4 DEF CallPropagateIfValue, Call, RunInv
  <2>5. CASE CallDescendants
    BY <2>1, <2>5 DEF CallDescendants, Call, RunInv
  <2>6. CASE CallAncestors
    BY <2>1, <2>6 DEF CallAncestors, Call, RunInv
  <2>7. CASE CallAttribute
    BY <2>1, <2>7 DEF CallAttribute, Call, RunInv
  <2> QED BY <1>4, <2>2, <2>3, <2>4, <2>5, <2>6, <2>7 DEF Calls
<1>5. CASE Loops
  <2>1. nodes' = nodes /\ Len(nodes) \in Nat
    BY <1>1, <1>5, CallsReadTree DEF tree_vars
  <2>2. ASSUME NEW l, DownTo(l), k \in 1..Len(nodes)
        PROVE  k' \in 1..Len(nodes)' /\ loop' \in {loop, l}
    BY <2>1, <2>2 DEF DownTo
  <2>3. ASSUME NEW l, UpTo(l), k \in 1..Len(nodes)
        PROVE  k' \in 1..Len(nodes)' /\ loop' \in {loop, l}
    BY <2>1, <2>3 DEF UpTo
  <2>4. CASE Direct
    BY <2>2, <2>4 DEF Direct, Same, args, RunInv
  <2>5. CASE Prune
    BY <2>2, <2>5 DEF Prune, Same, args, RunInv
  <2>6. CASE MaxMark
    BY <2>3, <2>6 DEF MaxMark, Same, args, RunInv
  <2>7. CASE Max1
    BY <2>2, <2>7 DEF Max1, Same, args, RunInv
  <2>8. CASE PropagateDown
    <3>1. k \in 1..Len(nodes) /\ routine' = routine /\ loop = "desc"
          /\ routine \in {"desc", "subtractive"}
          /\ DownTo(IF routine = "subtractive" THEN "subtractive" ELSE "returned")
      BY <2>8 DEF PropagateDown, Same, args, RunInv
    <3>2. k' \in 1..Len(nodes)'
          /\ loop' \in {loop, IF routine = "subtractive" THEN "subtractive" ELSE "returned"}
      BY <2>2, <3>1
    <3> QED BY <3>1, <3>2 DEF RunInv
  <2>9. CASE Subtract
    BY <2>3, <2>9 DEF Subtract, Same, args, RunInv
  <2>10. CASE PropagateUp
    BY <2>3, <2>10 DEF PropagateUp, Same, args, RunInv
  <2>11. CASE PropagateRepresentative
    BY <2>11 DEF PropagateRepresentative, Same, args, RunInv
  <2>12. CASE PropagateDescendants
    BY <2>12 DEF PropagateDescendants, args, RunInv
  <2>13. CASE PropagateAncestors
    BY <2>13 DEF PropagateAncestors, args, RunInv
  <2>14. CASE Take
    <3>1. loop = "attribute" /\ k \in 1..N /\ routine' = routine /\ DownTo("back")
      BY <2>14 DEF Take, args, RunInv
    <3>2. k' \in 1..N /\ loop' \in {loop, "back"}
      BY <3>1, NAssumption DEF DownTo
    <3> QED BY <3>1, <3>2 DEF RunInv
  <2>15. CASE TakeBack
    BY <2>15 DEF TakeBack, args, RunInv
  <2> QED
    BY <1>5, <2>4, <2>5, <2>6, <2>7, <2>8, <2>9, <2>10, <2>11, <2>12, <2>13,
       <2>14, <2>15 DEF Loops
<1> QED BY <1>2, <1>3, <1>4, <1>5 DEF FiltersNext

RunsInv == StoreInv /\ loop \in Loop /\ RunInv

LEMMA RunsInit == TreeInit => RunsInv
<1> SUFFICES ASSUME TreeInit PROVE RunsInv
  OBVIOUS
<1>1. loop = "children" /\ routine = "none"
  BY DEF TreeInit, StartFilters, StartData
<1> QED BY <1>1, StoreInit DEF RunsInv, RunInv, Loop, NodeLoops

LEMMA RunsStep ==
    RunsInv /\ [FiltersNext]_<<vars, data_vars, call_vars>> => RunsInv'
<1>1. RunsInv /\ FiltersNext => RunsInv'
  BY StoreStep, RunStep DEF RunsInv
<1>2. RunsInv /\ UNCHANGED <<vars, data_vars, call_vars>> => RunsInv'
  BY StoreStep DEF RunsInv, RunInv, data_vars, call_vars, args
<1> QED BY <1>1, <1>2

-----------------------------------------------------------------------------
(* Attributes.                                                              *)

\* q has itself, and what its children after index L of s had.
Got(L, q, r) ==
    r = q \/ \E c \in Site : parent[c] = q /\ c # q /\ Rank(s, c) > L /\ r \in Sub(c)
One(b) == IF b THEN 1 ELSE 0
Took(L) == acc = [q \in Site |-> [r \in Site |-> One(Got(L, q, r))]]
AttributeInv ==
    /\ loop = "attribute" => Took(k)
    /\ loop = "back" => Took(0)
    /\ loop = "returned" /\ routine = "attribute" =>
         acc = [q \in Site |-> [r \in Site |-> One(r \in Sub(Representative(q)))]]

LEMMA GotAll ==
    ASSUME IsTree, NEW q \in Site, NEW L \in 0..N, L <= Rank(s, q), NEW r
    PROVE  Got(L, q, r) <=> r \in Sub(q)
<1> DEFINE C == {t \in Site : Got(L, q, t)}
<1>1. q \in C /\ C \in SUBSET Site
  BY DEF Got
<1>2. ASSUME NEW t \in Site, parent[t] \in C PROVE t \in C
  <2>1. CASE parent[t] = q
    <3>1. CASE t = q
      BY <1>1, <3>1
    <3>2. CASE t # q
      <4>1. Rank(s, t) > L
        BY <2>1, <3>2, TreeFacts, NAssumption
      <4>2. t \in Sub(t)
        BY SubFacts
      <4> QED BY <2>1, <3>2, <4>1, <4>2 DEF Got
    <3> QED BY <3>1, <3>2
  <2>2. CASE parent[t] # q
    <3>1. PICK c \in Site : parent[c] = q /\ c # q /\ Rank(s, c) > L /\ parent[t] \in Sub(c)
      BY <1>2, <2>2 DEF Got
    <3>2. t \in Sub(c)
      BY <3>1, SubFacts
    <3> QED BY <3>1, <3>2 DEF Got
  <2> QED BY <2>1, <2>2
<1>3. Sub(q) \subseteq C
  <2> HIDE DEF C
  <2> QED BY <1>1, <1>2, SubFacts DEF Downward
<1>4. ASSUME Got(L, q, r) PROVE r \in Sub(q)
  <2>1. CASE r = q
    BY <2>1, SubFacts
  <2>2. CASE r # q
    <3>1. PICK c \in Site : parent[c] = q /\ r \in Sub(c)
      BY <1>4, <2>2 DEF Got
    <3>2. c \in Sub(q)
      BY <3>1, SubFacts
    <3> QED BY <3>1, <3>2, SubNests
  <2> QED BY <2>1, <2>2
<1> QED BY <1>3, <1>4

\* What the site s[L] gives to its parent is not there yet.
LEMMA GotMore ==
    ASSUME IsTree, NEW L \in 1..N, NEW t \in Site, NEW r
    PROVE  IF parent[s[L]] = t /\ s[L] # t
             THEN /\ Got(L - 1, t, r) <=> Got(L, t, r) \/ r \in Sub(s[L])
                  /\ ~ (Got(L, t, r) /\ r \in Sub(s[L]))
             ELSE Got(L - 1, t, r) <=> Got(L, t, r)
<1> DEFINE q == s[L]
<1>1. /\ q \in Site
      /\ \A c \in Site : Rank(s, c) > L - 1 <=> Rank(s, c) > L \/ c = q
      /\ ~ (Rank(s, q) > L) /\ Rank(s, q) = L /\ L \in Int
  BY BrowseFacts, NAssumption
<1> HIDE DEF q
<1>2. Got(L - 1, t, r) <=> Got(L, t, r) \/ (parent[q] = t /\ q # t /\ r \in Sub(q))
  BY <1>1 DEF Got
<1>3. ASSUME parent[q] = t, q # t, Got(L, t, r), r \in Sub(q) PROVE FALSE
  <2>1. t \notin Sub(q)
    BY <1>1, <1>3, SubFacts, TreeFacts
  <2>2. r # t
    BY <1>3, <2>1
  <2>3. PICK c \in Site : parent[c] = t /\ c # t /\ Rank(s, c) > L /\ r \in Sub(c)
    BY <1>3, <2>2 DEF Got
  <2>4. c # q
    BY <1>1, <2>3
  <2>5. c \in Sub(q) \/ q \in Sub(c)
    BY <1>1, <1>3, <2>3, SubLinear
  <2>6. CASE c \in Sub(q)
    <3>1. t \in Sub(q)
      BY <1>1, <2>3, <2>4, <2>6, SubFacts
    <3> QED BY <2>1, <3>1
  <2>7. CASE q \in Sub(c)
    <3>1. t \in Sub(c)
      BY <1>3, <2>3, <2>4, <2>7, SubFacts
    <3>2. t \notin Sub(c)
      BY <2>3, SubFacts, TreeFacts
    <3> QED BY <3>1, <3>2
  <2> QED BY <2>5, <2>6, <2>7
<1> QED BY <1>2, <1>3 DEF q

LEMMA TakeTakes ==
    ASSUME IsTree, NEW L \in 1..N, Took(L),
           acc' = IF IsRoot(s[L]) THEN acc
                  ELSE [acc EXCEPT ![parent[s[L]]] =
                         [r \in Site |-> @[r] + acc[s[L]][r]]]
    PROVE  acc' = [q \in Site |-> [r \in Site |-> One(Got(L - 1, q, r))]]
<1> DEFINE q == s[L]
           u == parent[q]
<1>1. q \in Site /\ u \in Site /\ Rank(s, q) = L /\ L \in 0..N /\ L <= Rank(s, q)
  BY TreeFacts, NAssumption
<1>2. \A t, r \in Site : acc[t][r] = One(Got(L, t, r))
  BY DEF Took
<1>3. \A r \in Site : acc[q][r] = One(r \in Sub(q))
  <2> HIDE DEF q
  <2> QED BY <1>1, <1>2, GotAll DEF One
<1>4. \A t, r \in Site :
         IF u = t /\ q # t
           THEN /\ Got(L - 1, t, r) <=> Got(L, t, r) \/ r \in Sub(q)
                /\ ~ (Got(L, t, r) /\ r \in Sub(q))
           ELSE Got(L - 1, t, r) <=> Got(L, t, r)
  BY GotMore
<1>5. acc' = IF u = q THEN acc
             ELSE [acc EXCEPT ![u] = [r \in Site |-> acc[u][r] + acc[q][r]]]
  BY DEF IsRoot
<1> HIDE DEF q, u
<1>6. CASE u = q
  <2>1. \A t, r \in Site : One(Got(L - 1, t, r)) = One(Got(L, t, r))
    BY <1>4, <1>6 DEF One
  <2>2. acc' = [t \in Site |-> [r \in Site |-> One(Got(L, t, r))]]
    BY <1>5, <1>6 DEF Took
  <2> QED BY <2>1, <2>2
<1>7. CASE u # q
  <2> DEFINE total == [r \in Site |-> acc[u][r] + acc[q][r]]
  <2>1. acc' = [t \in Site |-> IF t = u THEN total ELSE [r \in Site |-> One(Got(L, t, r))]]
    BY <1>1, <1>5, <1>7 DEF Took
  <2>2. \A r \in Site : acc[u][r] + acc[q][r] = One(Got(L - 1, u, r))
    BY <1>1, <1>2, <1>3, <1>4, <1>7 DEF One
  <2>3. total = [r \in Site |-> One(Got(L - 1, u, r))]
    BY <2>2
  <2>4. ASSUME NEW t \in Site, t # u
        PROVE  [r \in Site |-> One(Got(L, t, r))] = [r \in Site |-> One(Got(L - 1, t, r))]
    BY <1>4, <2>4 DEF One
  <2> HIDE DEF total
  <2> QED BY <2>1, <2>3, <2>4
<1> QED BY <1>6, <1>7

\* The same, said of the next state.
LEMMA TookNext ==
    ASSUME UNCHANGED vars
    PROVE  /\ \A L, q, r : Got(L, q, r)' <=> Got(L, q, r)
           /\ \A q, r : (r \in Sub(q))' <=> r \in Sub(q)
           /\ \A q : Representative(q)' = Representative(q)
<1>1. f' = f /\ s' = s /\ parent' = parent
  BY DEF vars
<1>2. \A q : Sub(q)' = Sub(q)
  BY <1>1 DEF Sub, Downward
<1>3. \A q : Rank(s, q)' = Rank(s, q)
  BY <1>1 DEF Rank
<1>4. \A q : Representative(q)' = Representative(q)
  BY <1>1 DEF Representative, IsNode, IsRoot
<1> QED BY <1>1, <1>2, <1>3, <1>4 DEF Got

\* Once the tree is stored.
LEMMA CalledFacts ==
    ASSUME RunsInv, loop # "children"
    PROVE  pc = "done" /\ IsTree /\ StoredInv
<1>1. pc = "done" /\ StoredInv
  BY DEF RunsInv, StoreInv, DataInv, StartData
<1> QED BY <1>1, DoneIsTree DEF RunsInv, StoreInv

\* What a step of a routine leaves alone.
LEMMA CalledStep ==
    ASSUME RunsInv, FiltersNext, loop # "children"
    PROVE  /\ UNCHANGED tree_vars
           /\ Calls \/ Loops \/ UNCHANGED <<vars, data_vars, call_vars>>
<1>1. pc = "done"
  BY CalledFacts
<1>2. CASE Next /\ UNCHANGED <<data_vars, call_vars>>
  <2>1. UNCHANGED vars
    BY <1>1, <1>2, TreeStays DEF FiltersNext, RunsInv, StoreInv
  <2> QED BY <1>2, <2>1 DEF tree_vars, data_vars
<1>3. ~ DataNext
  BY DEF DataNext, AddNode, AddRoot, SkipSite, Browsing
<1> QED BY <1>2, <1>3, CallsReadTree DEF FiltersNext

LEMMA AttributeStutter ==
    ASSUME AttributeInv, UNCHANGED vars, UNCHANGED <<loop, k, routine, acc>>
    PROVE  AttributeInv'
<1>1. /\ \A L, q, r : Got(L, q, r)' <=> Got(L, q, r)
      /\ \A q, r : (r \in Sub(q))' <=> r \in Sub(q)
      /\ \A q : Representative(q)' = Representative(q)
  BY TookNext
<1>2. ASSUME NEW L, Took(L) PROVE acc = [q \in Site |-> [r \in Site |-> One(Got(L, q, r)')]]
  <2>1. \A q, r \in Site : One(Got(L, q, r)') = One(Got(L, q, r))
    BY <1>1 DEF One
  <2> QED BY <1>2, <2>1 DEF Took
<1>3. \A q, r \in Site : One((r \in Sub(Representative(q)))') = One(r \in Sub(Representative(q)))
  BY <1>1 DEF One
<1>4. (loop = "attribute" => Took(k))' /\ (loop = "back" => Took(0))'
  BY <1>2 DEF AttributeInv, Took, One
<1>5. (loop = "returned" /\ routine = "attribute" =>
         acc = [q \in Site |-> [r \in Site |-> One(r \in Sub(Representative(q)))]])'
  BY <1>3 DEF AttributeInv, One
<1> QED BY <1>4, <1>5 DEF AttributeInv

LEMMA AttributeStep ==
    ASSUME RunsInv, AttributeInv, FiltersNext
    PROVE  AttributeInv'
<1>0. RunsInv'
  BY RunsStep
<1>1. CASE loop = "children"
  <2>1. ~ (Calls \/ Loops)
    BY <1>1, CallsReadTree
  <2>2. loop' \in {"children", "call"}
    BY <1>1, <2>1 DEF FiltersNext, DataNext, AddNode, AddRoot, SkipSite, DownTo,
       data_vars
  <2> QED BY <2>2 DEF AttributeInv
<1>2. CASE loop # "children"
  <2>1. IsTree /\ StoredInv /\ UNCHANGED vars /\ RunInv /\ RunInv'
    BY <1>0, <1>2, CalledFacts, CalledStep DEF tree_vars, RunsInv
  <2>2. /\ \A L, q, r : Got(L, q, r)' <=> Got(L, q, r)
        /\ \A q, r : (r \in Sub(q))' <=> r \in Sub(q)
        /\ \A q : Representative(q)' = Representative(q)
    BY <2>1, TookNext
  <2>3. CASE UNCHANGED <<vars, data_vars, call_vars>>
    <3>1. UNCHANGED <<loop, k, routine, acc>>
      BY <2>3 DEF data_vars, call_vars, args
    <3> QED BY <2>1, <3>1, AttributeStutter
  <2>4. CASE CallAttribute
    <3>1. loop' = "attribute" /\ k' = N
          /\ acc' = [q \in Site |-> [r \in Site |-> IF r = q THEN 1 ELSE 0]]
      BY <2>4 DEF CallAttribute, Call
    <3>2. \A q, r \in Site : Got(N, q, r)' <=> r = q
      <4>1. \A c \in Site : ~ (Rank(s, c) > N)
        BY <2>1, TreeFacts, NAssumption
      <4> QED BY <2>2, <4>1 DEF Got
    <3>3. Took(k)'
      BY <3>1, <3>2 DEF Took, One
    <3> QED BY <3>1, <3>3 DEF AttributeInv
  <2>5. CASE Take
    <3>1. loop = "attribute" /\ k \in 1..N /\ Took(k) /\ DownTo("back")
      BY <2>1, <2>5 DEF Take, AttributeInv, RunInv
    <3>2. acc' = [q \in Site |-> [r \in Site |-> One(Got(k - 1, q, r))]]
      BY <2>1, <2>5, <3>1, TakeTakes DEF Take
    <3>3. \/ loop' = "attribute" /\ k' = k - 1
          \/ loop' = "back" /\ k - 1 = 0
      BY <3>1, NAssumption DEF DownTo
    <3>4. PICK L \in Int : L = k - 1
      BY <3>1, NAssumption
    <3>5. acc' = [q \in Site |-> [r \in Site |-> One(Got(L, q, r)')]]
      <4>1. \A q, r \in Site : One(Got(L, q, r)') = One(Got(L, q, r))
        BY <2>2 DEF One
      <4> QED BY <3>2, <3>4, <4>1
    <3>6. loop' = "attribute" => Took(k)'
      BY <3>3, <3>4, <3>5 DEF Took, One
    <3>7. loop' = "back" => Took(0)'
      BY <3>3, <3>4, <3>5 DEF Took, One
    <3> QED BY <3>3, <3>6, <3>7 DEF AttributeInv
  <2>6. CASE TakeBack
    <3>1. loop = "back" /\ loop' = "returned" /\ Took(0)
          /\ acc' = [q \in Site |-> acc[Representative(q)]]
      BY <2>6 DEF TakeBack, AttributeInv
    <3>2. \A q \in Site : Representative(q) \in Site /\ 0 \in 0..N
                          /\ 0 <= Rank(s, Representative(q))
      BY <2>1, RepresentativeFacts, TreeFacts, NAssumption
    <3>3. ASSUME NEW q \in Site, NEW r \in Site
          PROVE  One(Got(0, Representative(q), r)) = One((r \in Sub(Representative(q)))')
      BY <2>1, <2>2, <3>2, GotAll DEF One
    <3>4. acc' = [q \in Site |-> [r \in Site |-> One(Got(0, Representative(q), r))]]
      BY <3>1, <3>2 DEF Took
    <3>5. acc' = [q \in Site |-> [r \in Site |-> One((r \in Sub(Representative(q)))')]]
      BY <3>3, <3>4
    <3> QED BY <3>1, <3>5 DEF AttributeInv, One
  <2>7. CASE (Calls \/ Loops) /\ ~ CallAttribute /\ ~ Take /\ ~ TakeBack
    <3>1. loop' \notin {"attribute", "back"}
          /\ (loop' = "returned" => routine' # "attribute")
      <4>1. CASE Calls
        BY <2>7, <4>1 DEF Calls, CallFilter, CallPropagateIf, CallPropagateIfValue,
           CallDescendants, CallAncestors, Call
      <4>2. CASE Loops
        <5>1. CASE Direct \/ Prune \/ MaxMark \/ Max1
          BY <2>1, <5>1 DEF Direct, Prune, MaxMark, Max1, DownTo, UpTo
        <5>2. CASE PropagateDown \/ Subtract \/ PropagateUp
          BY <2>1, <5>2 DEF PropagateDown, Subtract, PropagateUp, DownTo, UpTo, Same,
             args, RunInv
        <5>3. CASE PropagateRepresentative \/ PropagateDescendants \/ PropagateAncestors
          BY <2>1, <5>3 DEF PropagateRepresentative, PropagateDescendants,
             PropagateAncestors, Same, args, RunInv, Filters
        <5> QED BY <2>7, <4>2, <5>1, <5>2, <5>3 DEF Loops
      <4> QED BY <2>7, <4>1, <4>2
    <3> QED BY <3>1 DEF AttributeInv
  <2> QED BY <1>2, <2>3, <2>4, <2>5, <2>6, <2>7, CalledStep
<1> QED BY <1>1, <1>2

\* compute_attribute_image: the accumulator of each site has taken each site of
\* its component, once, and no other.
THEOREM AttributesTakeComponents == TreeSpec => []AttributesAreComponents
<1> DEFINE AInv == RunsInv /\ AttributeInv
<1>1. TreeInit => AInv
  BY RunsInit DEF TreeInit, StartFilters, StartData, AttributeInv
<1>2. AInv /\ [FiltersNext]_<<vars, data_vars, call_vars>> => AInv'
  <2>1. CASE UNCHANGED <<vars, data_vars, call_vars>>
    <3>1. UNCHANGED vars /\ UNCHANGED <<loop, k, routine, acc>>
      BY <2>1 DEF data_vars, call_vars, args
    <3> QED BY <2>1, <3>1, RunsStep, AttributeStutter
  <2> QED BY <2>1, RunsStep, AttributeStep
<1>3. AInv => AttributesAreComponents
  <2> SUFFICES ASSUME AInv, loop = "returned", routine = "attribute", NEW q \in Site
               PROVE  acc[q] = [r \in Site |-> IF r \in ComponentOf(q) THEN 1 ELSE 0]
    BY DEF AttributesAreComponents
  <2>1. IsTree
    BY CalledFacts
  <2>2. ComponentOf(q) = Sub(Representative(q))
    BY <2>1, ComponentIsSub
  <2>3. acc[q] = [r \in Site |-> One(r \in Sub(Representative(q)))]
    BY DEF AttributeInv
  <2> QED BY <2>2, <2>3 DEF One
<1> QED BY <1>1, <1>2, <1>3, PTL DEF TreeSpec

-----------------------------------------------------------------------------
(* The sites that hold a site: it and those above it.                       *)

On(t) == {u \in Site : t \in Sub(u)}

LEMMA OnFacts ==
    ASSUME IsTree, NEW t \in Site
    PROVE  /\ t \in On(t) /\ On(t) \subseteq Site
           /\ IsRoot(t) => On(t) = {t}
           /\ ~ IsRoot(t) => On(t) = {t} \cup On(parent[t])
           /\ ~ IsRoot(t) => t \notin On(parent[t])
           /\ \A u \in On(t) : u # t => IsNode(u) /\ Rank(s, u) < Rank(s, t)
           /\ \A u \in On(t) : On(u) \subseteq On(t)
<1>1. t \in On(t) /\ On(t) \subseteq Site
  BY SubFacts DEF On
<1>2. ASSUME NEW u \in Site, ~ IsRoot(t)
      PROVE  t \in Sub(u) <=> u = t \/ parent[t] \in Sub(u)
  <2>1. t \in Sub(u) => u = t \/ parent[t] \in Sub(u)
    BY SubFacts
  <2>2. u = t \/ parent[t] \in Sub(u) => t \in Sub(u)
    BY SubFacts
  <2> QED BY <2>1, <2>2
<1>3. ASSUME NEW u \in Site, IsRoot(t), t \in Sub(u) PROVE u = t
  BY <1>3, SubFacts DEF IsRoot
<1>4. ASSUME ~ IsRoot(t) PROVE t \notin On(parent[t])
  <2>1. \A u \in Site : parent[t] \in Sub(u) => Rank(s, u) <= Rank(s, parent[t])
    BY SubFacts
  <2> QED BY <1>4, <2>1, TreeFacts DEF On, IsRoot
<1>5. ASSUME NEW u \in Site, t \in Sub(u), u # t
      PROVE  IsNode(u) /\ Rank(s, u) < Rank(s, t)
  <2> DEFINE C == {r \in Site : r # u /\ r \in Sub(u) => IsNode(u)}
  <2>1. u \in C /\ C \in SUBSET Site
    OBVIOUS
  <2>2. ASSUME NEW r \in Site, parent[r] \in C PROVE r \in C
    BY <2>2, SubFacts, TreeFacts
  <2>3. Sub(u) \subseteq C
    <3> HIDE DEF C
    <3> QED BY <2>1, <2>2, SubFacts DEF Downward
  <2>4. IsNode(u)
    BY <1>5, <2>3
  <2>5. Rank(s, u) <= Rank(s, t) /\ Rank(s, u) # Rank(s, t)
    BY <1>5, SubFacts, TreeFacts
  <2> QED BY <2>4, <2>5, TreeFacts
<1>6. ASSUME NEW u \in On(t), NEW r \in On(u) PROVE r \in On(t)
  <2>1. u \in Site /\ r \in Site /\ t \in Sub(u) /\ u \in Sub(r)
    BY DEF On
  <2> QED BY <2>1, SubNests DEF On
<1>7. IsRoot(t) => On(t) = {t}
  BY <1>1, <1>3 DEF On
<1>8. ~ IsRoot(t) => On(t) = {t} \cup On(parent[t])
  BY <1>1, <1>2 DEF On
<1> QED BY <1>1, <1>4, <1>5, <1>6, <1>7, <1>8 DEF On

LEMMA WayIsOn ==
    ASSUME IsTree, NEW q \in Site
    PROVE  Way(q) = On(Representative(q))
<1> DEFINE Rec(g) == [r \in Site |-> IF IsRoot(r) THEN {r} ELSE {r} \cup g[parent[r]]]
           h == [r \in Site |-> On(r)]
<1>1. h = Rec(h)
  <2>1. ASSUME NEW r \in Site
        PROVE  On(r) = IF IsRoot(r) THEN {r} ELSE {r} \cup h[parent[r]]
    <3>1. h[parent[r]] = On(parent[r])
      BY TreeFacts
    <3> HIDE DEF h
    <3> QED BY <3>1, OnFacts
  <2> QED BY <2>1
<1>2. ASSUME NEW g, g = Rec(g), NEW r \in Site PROVE g[r] = On(r)
  <2> DEFINE S == {t \in Site : g[t] # On(t)}
             R == {Rank(s, t) : t \in S}
  <2>1. SUFFICES ASSUME r \in S PROVE FALSE
    OBVIOUS
  <2>2. Rank(s, r) \in R /\ R \in SUBSET Nat
    BY <2>1, TreeFacts
  <2>3. PICK m \in R : \A j \in R : m <= j
    <3> HIDE DEF R
    <3> QED BY <2>2, LeastNat
  <2>4. PICK t \in S : m = Rank(s, t)
    OBVIOUS
  <2>5. t \in Site /\ g[t] # On(t)
    OBVIOUS
  <2>6. g[t] = IF IsRoot(t) THEN {t} ELSE {t} \cup g[parent[t]]
    BY <1>2, <2>5
  <2>7. ASSUME ~ IsRoot(t) PROVE g[parent[t]] = On(parent[t])
    <3>1. parent[t] \in Site /\ Rank(s, parent[t]) < Rank(s, t)
      BY <2>5, <2>7, TreeFacts DEF IsRoot
    <3>2. Rank(s, parent[t]) \notin R
      <4>1. m \in Int /\ Rank(s, parent[t]) \in Int /\ Rank(s, parent[t]) < m
        BY <2>2, <2>4, <2>5, <3>1, TreeFacts
      <4> HIDE DEF R, S
      <4> QED BY <2>3, <4>1
    <3> QED BY <3>1, <3>2
  <2> HIDE DEF S, R
  <2> QED BY <2>5, <2>6, <2>7, OnFacts
<1>3. Way(q) = (CHOOSE g : g = Rec(g))[Representative(q)]
  BY DEF Way
<1> DEFINE up == CHOOSE g : g = Rec(g)
<1>4. up = Rec(up)
  <2> HIDE DEF Rec, h
  <2> QED BY <1>1
<1> HIDE DEF up, Rec
<1> QED BY <1>2, <1>3, <1>4, RepresentativeFacts DEF up

LEMMA LowestIs ==
    ASSUME IsTree, NEW S \in SUBSET Site, NEW q \in S,
           \A r \in S : Rank(s, r) <= Rank(s, q)
    PROVE  Lowest(S) = q
<1>1. \A u \in S : (\A r \in S : Rank(s, r) <= Rank(s, u)) => u = q
  <2> SUFFICES ASSUME NEW u \in S, \A r \in S : Rank(s, r) <= Rank(s, u) PROVE u = q
    OBVIOUS
  <2>1. Rank(s, u) <= Rank(s, q) /\ Rank(s, q) <= Rank(s, u)
    OBVIOUS
  <2>2. Rank(s, u) = Rank(s, q)
    BY <2>1, TreeFacts
  <2> QED BY <2>2, TreeFacts
<1> QED BY <1>1 DEF Lowest

LEMMA HighestIs ==
    ASSUME IsTree, NEW S \in SUBSET Site, NEW q \in S,
           \A r \in S : Rank(s, q) <= Rank(s, r)
    PROVE  Highest(S) = q
<1>1. \A u \in S : (\A r \in S : Rank(s, u) <= Rank(s, r)) => u = q
  <2> SUFFICES ASSUME NEW u \in S, \A r \in S : Rank(s, u) <= Rank(s, r) PROVE u = q
    OBVIOUS
  <2>1. Rank(s, u) <= Rank(s, q) /\ Rank(s, q) <= Rank(s, u)
    OBVIOUS
  <2>2. Rank(s, u) = Rank(s, q)
    BY <2>1, TreeFacts
  <2> QED BY <2>2, TreeFacts
<1> QED BY <1>1 DEF Highest

\* Each set of sites has a highest one.
LEMMA HasHighest ==
    ASSUME IsTree, NEW S \in SUBSET Site, S # {}
    PROVE  /\ Highest(S) \in S
           /\ \A r \in S : Rank(s, Highest(S)) <= Rank(s, r)
<1> DEFINE R == {Rank(s, t) : t \in S}
<1>1. R \in SUBSET Nat /\ R # {}
  BY TreeFacts
<1>2. PICK m \in R : \A j \in R : m <= j
  <2> HIDE DEF R
  <2> QED BY <1>1, LeastNat
<1>3. PICK t \in S : m = Rank(s, t)
  OBVIOUS
<1>4. \A r \in S : Rank(s, t) <= Rank(s, r)
  BY <1>2, <1>3
<1> QED BY <1>4, HighestIs

-----------------------------------------------------------------------------
(* The nodes a loop has dealt with: downward from the roots, or upward.     *)

DoneDown == {q \in Nodes : Rank(s, q) < Rank(s, Node)}
DoneUp == {q \in Nodes : Rank(s, q) > Rank(s, Node)}

LEMMA DoneFacts ==
    ASSUME IsTree, StoredInv, loop # "children", k \in 1..Len(nodes)
    PROVE  /\ Node \in Nodes /\ Node \in Site /\ IsNode(Node)
           /\ Up \in Nodes /\ Up \in Site
           /\ Node \notin DoneDown /\ Node \notin DoneUp
           /\ ~ IsRoot(Node) => Up \in DoneDown /\ Up # Node
           /\ Up \notin DoneUp
           /\ Child(Node) \subseteq DoneUp
           /\ DoneDown \subseteq Nodes /\ DoneUp \subseteq Nodes /\ Nodes \subseteq Site
           /\ k = Len(nodes) => DoneDown = {}
           /\ k = 1 => DoneUp = {}
<1>1. Nodes = {q \in Site : IsNode(q)} /\ Node \in Nodes /\ Len(nodes) \in Nat
  BY StoredFacts DEF Node
<1>2. Up \in Nodes /\ Up \in Site /\ Rank(s, Up) <= Rank(s, Node)
  BY <1>1, TreeFacts DEF Up, IsTree
<1>3. ~ IsRoot(Node) => Rank(s, Up) < Rank(s, Node)
  BY <1>1, TreeFacts DEF Up, IsRoot
<1>4. \A q \in Nodes : Rank(s, q) \in Int
  BY <1>1, TreeFacts
<1>5. ASSUME NEW q \in Child(Node) PROVE q \in DoneUp
  <2>1. q \in Nodes /\ Rank(s, q) > Rank(s, Node)
    BY <1>1, TreeFacts DEF Child
  <2> QED BY <2>1 DEF DoneUp
<1>6. ASSUME NEW q \in Nodes
      PROVE  /\ k = Len(nodes) => ~ (Rank(s, q) < Rank(s, Node))
             /\ k = 1 => ~ (Rank(s, q) > Rank(s, Node))
  <2>1. PICK j \in 1..Len(nodes) : nodes[j] = q
    BY StoredFacts
  <2>2. \/ j = k
        \/ (j < k => Rank(s, q) > Rank(s, Node)) /\ (k < j => Rank(s, Node) > Rank(s, q))
    BY <2>1, StoredFacts DEF Node
  <2> QED BY <1>1, <1>4, <2>1, <2>2 DEF Node
<1>7. Node \notin DoneDown /\ Node \notin DoneUp /\ Up \notin DoneUp
  BY <1>1, <1>2, <1>4 DEF DoneDown, DoneUp
<1>8. ~ IsRoot(Node) => Up \in DoneDown /\ Up # Node
  BY <1>1, <1>2, <1>3, <1>4 DEF DoneDown
<1>9. k = Len(nodes) => DoneDown = {}
  BY <1>6 DEF DoneDown
<1>10. k = 1 => DoneUp = {}
  BY <1>6 DEF DoneUp
<1>11. DoneDown \subseteq Nodes /\ DoneUp \subseteq Nodes /\ Nodes \subseteq Site
  BY <1>1 DEF DoneDown, DoneUp
<1> QED BY <1>1, <1>2, <1>5, <1>7, <1>8, <1>9, <1>10, <1>11

LEMMA NodeOrder ==
    ASSUME IsTree, StoredInv, loop # "children", NEW j \in 1..Len(nodes), NEW q \in Nodes
    PROVE  /\ j > 1 => (Rank(s, q) < Rank(s, nodes[j - 1])
                          <=> Rank(s, q) < Rank(s, nodes[j]) \/ q = nodes[j])
           /\ j = 1 => Rank(s, q) < Rank(s, nodes[1]) \/ q = nodes[1]
           /\ j < Len(nodes) => (Rank(s, q) > Rank(s, nodes[j + 1])
                          <=> Rank(s, q) > Rank(s, nodes[j]) \/ q = nodes[j])
           /\ j = Len(nodes) => Rank(s, q) > Rank(s, nodes[j]) \/ q = nodes[j]
<1>1. PICK l \in 1..Len(nodes) : nodes[l] = q
  BY StoredFacts
<1>2. Len(nodes) \in Nat /\ l \in Int /\ j \in Int
  BY StoredFacts
<1>3. \A b \in 1..Len(nodes) : Rank(s, nodes[b]) \in Int
  BY SMTT(60), StoredFacts, TreeFacts
<1>4. \A b, c \in 1..Len(nodes) : b < c => Rank(s, nodes[b]) > Rank(s, nodes[c])
  BY StoredFacts
<1>5. \A b \in 1..Len(nodes) :
         /\ Rank(s, nodes[l]) < Rank(s, nodes[b]) <=> b < l
         /\ Rank(s, nodes[l]) > Rank(s, nodes[b]) <=> l < b
         /\ nodes[l] = nodes[b] <=> l = b
  <2> SUFFICES ASSUME NEW b \in 1..Len(nodes)
               PROVE  /\ Rank(s, nodes[l]) < Rank(s, nodes[b]) <=> b < l
                      /\ Rank(s, nodes[l]) > Rank(s, nodes[b]) <=> l < b
                      /\ nodes[l] = nodes[b] <=> l = b
    OBVIOUS
  <2>1. b < l \/ l < b \/ l = b
    BY <1>2
  <2>2. b < l => Rank(s, nodes[b]) > Rank(s, nodes[l])
    BY <1>4
  <2>3. l < b => Rank(s, nodes[l]) > Rank(s, nodes[b])
    BY <1>4
  <2> QED BY <1>2, <1>3, <2>1, <2>2, <2>3
<1>6. j > 1 => j - 1 \in 1..Len(nodes)
  BY <1>2
<1>7. j < Len(nodes) => j + 1 \in 1..Len(nodes)
  BY <1>2
<1> QED BY <1>1, <1>2, <1>5, <1>6, <1>7

LEMMA DownStep ==
    ASSUME IsTree, StoredInv, loop # "children", k \in 1..Len(nodes),
           NEW l, DownTo(l), UNCHANGED tree_vars
    PROVE  \/ loop' = loop /\ DoneDown' = DoneDown \cup {Node}
           \/ loop' = l /\ Nodes = DoneDown \cup {Node} /\ k' = 1
<1>1. Node \in Nodes /\ Nodes' = Nodes /\ s' = s /\ nodes' = nodes /\ Len(nodes) \in Nat
  BY DoneFacts, StoredFacts DEF tree_vars, vars, Nodes, ToSet
<1>2. CASE k > 1
  <2>1. k' = k - 1 /\ loop' = loop
    BY <1>2 DEF DownTo
  <2>2. DoneDown' = {q \in Nodes : Rank(s, q) < Rank(s, nodes[k - 1])}
    BY <1>1, <2>1 DEF DoneDown, Node, Rank
  <2>3. \A q \in Nodes : Rank(s, q) < Rank(s, nodes[k - 1])
                           <=> Rank(s, q) < Rank(s, nodes[k]) \/ q = nodes[k]
    BY <1>2, NodeOrder
  <2>4. DoneDown' = DoneDown \cup {Node}
    BY <1>1, <2>2, <2>3 DEF DoneDown, Node
  <2> QED BY <2>1, <2>4
<1>3. CASE ~ (k > 1)
  <2>1. k = 1 /\ k' = 1 /\ loop' = l
    BY <1>1, <1>3 DEF DownTo
  <2>2. \A q \in Nodes : Rank(s, q) < Rank(s, nodes[1]) \/ q = nodes[1]
    BY <2>1, NodeOrder
  <2> QED BY <1>1, <2>1, <2>2 DEF DoneDown, Node
<1> QED BY <1>2, <1>3

LEMMA UpStep ==
    ASSUME IsTree, StoredInv, loop # "children", k \in 1..Len(nodes),
           NEW l, UpTo(l), UNCHANGED tree_vars
    PROVE  \/ loop' = loop /\ DoneUp' = DoneUp \cup {Node}
           \/ loop' = l /\ Nodes = DoneUp \cup {Node} /\ k' = Len(nodes)
<1>1. Node \in Nodes /\ Nodes' = Nodes /\ s' = s /\ nodes' = nodes /\ Len(nodes) \in Nat
  BY DoneFacts, StoredFacts DEF tree_vars, vars, Nodes, ToSet
<1>2. CASE k < Len(nodes)
  <2>1. k' = k + 1 /\ loop' = loop
    BY <1>2 DEF UpTo
  <2>2. DoneUp' = {q \in Nodes : Rank(s, q) > Rank(s, nodes[k + 1])}
    BY <1>1, <2>1 DEF DoneUp, Node, Rank
  <2>3. \A q \in Nodes : Rank(s, q) > Rank(s, nodes[k + 1])
                           <=> Rank(s, q) > Rank(s, nodes[k]) \/ q = nodes[k]
    BY <1>2, NodeOrder
  <2>4. DoneUp' = DoneUp \cup {Node}
    BY <1>1, <2>2, <2>3 DEF DoneUp, Node
  <2> QED BY <2>1, <2>4
<1>3. CASE ~ (k < Len(nodes))
  <2>1. k = Len(nodes) /\ k' = k /\ loop' = l
    BY <1>1, <1>3 DEF UpTo
  <2>2. \A q \in Nodes : Rank(s, q) > Rank(s, nodes[k]) \/ q = nodes[k]
    BY <2>1, NodeOrder
  <2> QED BY <1>1, <2>1, <2>2 DEF DoneUp, Node
<1> QED BY <1>2, <1>3

LEMMA DoneNone ==
    ASSUME IsTree, StoredInv, loop # "children", UNCHANGED tree_vars
    PROVE  /\ k' = Len(nodes) => DoneDown' = {}
           /\ k' = 1 => DoneUp' = {}
<1>1. Nodes' = Nodes /\ s' = s /\ nodes' = nodes /\ Len(nodes) \in Nat \ {0}
  BY StoredFacts DEF tree_vars, vars, Nodes, ToSet
<1> DEFINE j == Len(nodes)
<1>2. /\ j \in 1..Len(nodes) /\ 1 \in 1..Len(nodes)
      /\ nodes[j] \in Nodes /\ nodes[1] \in Nodes
      /\ \A q \in Nodes : Rank(s, q) \in Int
  BY <1>1, StoredFacts, TreeFacts
<1>3. ASSUME NEW q \in Nodes
      PROVE  ~ (Rank(s, q) < Rank(s, nodes[j])) /\ ~ (Rank(s, q) > Rank(s, nodes[1]))
  <2>1. Rank(s, q) > Rank(s, nodes[j]) \/ q = nodes[j]
    BY <1>2, NodeOrder
  <2>2. Rank(s, q) < Rank(s, nodes[1]) \/ q = nodes[1]
    BY <1>2, NodeOrder
  <2> QED BY <1>2, <2>1, <2>2
<1>4. ASSUME k' = Len(nodes) PROVE DoneDown' = {}
  <2>1. DoneDown' = {q \in Nodes : Rank(s, q) < Rank(s, nodes[Len(nodes)])}
    BY <1>1, <1>4 DEF DoneDown, Node, Rank
  <2> QED BY <1>3, <2>1
<1>5. ASSUME k' = 1 PROVE DoneUp' = {}
  <2>1. DoneUp' = {q \in Nodes : Rank(s, q) > Rank(s, nodes[1])}
    BY <1>1, <1>5 DEF DoneUp, Node, Rank
  <2> QED BY <1>3, <2>1
<1> QED BY <1>4, <1>5

-----------------------------------------------------------------------------
(* Filters that let a node fall: direct, min, max and filter.               *)

Stay(gone) == (Nodes \ gone) \cup {q \in Nodes : IsRoot(q)}
Fallen(gone, q) == f[Lowest(On(q) \cap Stay(gone))]
Falls(gone, E) == [q \in Site |-> IF q \in E THEN Fallen(gone, q) ELSE f[q]]

LEMMA FallenFacts ==
    ASSUME IsTree, Nodes = {q \in Site : IsNode(q)}, NEW gone, NEW m \in Nodes
    PROVE  /\ m \notin gone \/ IsRoot(m) => Fallen(gone, m) = f[m]
           /\ m \in gone /\ ~ IsRoot(m) => Fallen(gone, m) = Fallen(gone, parent[m])
<1>1. m \in Site /\ m \in On(m) /\ On(m) \in SUBSET Site
  BY OnFacts
<1>2. ASSUME m \notin gone \/ IsRoot(m) PROVE Fallen(gone, m) = f[m]
  <2> DEFINE S == On(m) \cap Stay(gone)
  <2>1. m \in S /\ S \in SUBSET Site
    BY <1>1, <1>2 DEF Stay
  <2>2. \A r \in S : Rank(s, r) <= Rank(s, m)
    BY <1>1, OnFacts, TreeFacts
  <2> HIDE DEF S
  <2>3. Lowest(S) = m
    BY <2>1, <2>2, LowestIs
  <2> QED BY <2>3 DEF S, Fallen
<1>3. ASSUME m \in gone, ~ IsRoot(m) PROVE Fallen(gone, m) = Fallen(gone, parent[m])
  <2>1. On(m) = {m} \cup On(parent[m])
    BY <1>1, <1>3, OnFacts
  <2>2. On(m) \cap Stay(gone) = On(parent[m]) \cap Stay(gone)
    BY <1>3, <2>1 DEF Stay
  <2> QED BY <2>2 DEF Fallen
<1> QED BY <1>2, <1>3

LEMMA FallsMore ==
    ASSUME IsTree, Nodes = {q \in Site : IsNode(q)}, NEW gone, NEW m \in Nodes,
           NEW E, m \notin E, ~ IsRoot(m) => parent[m] \in E,
           NEW b, b = Falls(gone, E)
    PROVE  /\ m \in gone => [b EXCEPT ![m] = b[parent[m]]] = Falls(gone, E \cup {m})
           /\ m \notin gone => b = Falls(gone, E \cup {m})
<1>1. m \in Site /\ parent[m] \in Site
  BY TreeFacts
<1>2. /\ m \notin gone \/ IsRoot(m) => Fallen(gone, m) = f[m]
      /\ m \in gone /\ ~ IsRoot(m) => Fallen(gone, m) = Fallen(gone, parent[m])
  BY FallenFacts
<1>3. b = [q \in Site |-> IF q \in E THEN Fallen(gone, q) ELSE f[q]]
  BY DEF Falls
<1>4. b[parent[m]] = IF IsRoot(m) THEN f[m] ELSE Fallen(gone, parent[m])
  BY <1>1, <1>3 DEF IsRoot
<1>5. ASSUME m \in gone
      PROVE  [b EXCEPT ![m] = b[parent[m]]] = Falls(gone, E \cup {m})
  <2>1. b[parent[m]] = Fallen(gone, m)
    BY <1>2, <1>4, <1>5
  <2>2. [b EXCEPT ![m] = b[parent[m]]]
          = [q \in Site |-> IF q = m THEN Fallen(gone, m) ELSE b[q]]
    BY <1>1, <1>3, <2>1
  <2> QED BY <1>3, <2>2 DEF Falls
<1>6. ASSUME m \notin gone PROVE b = Falls(gone, E \cup {m})
  <2>1. \A q \in Site : b[q] = IF q \in E \cup {m} THEN Fallen(gone, q) ELSE f[q]
    BY <1>2, <1>3, <1>6
  <2> QED BY <1>3, <2>1 DEF Falls
<1> QED BY <1>5, <1>6

MinGone == {q \in Nodes : On(q) \cap Rejected # {}}
MaxGone == {q \in Nodes : \A r \in pred : q \notin On(r)}

\* The nodes that hold one of S, itself included.
HitBy(S) == {q \in Nodes : \E r \in S : q \in On(r)}

LEMMA HitFacts ==
    ASSUME IsTree, Nodes = {q \in Site : IsNode(q)}, NEW S, S \subseteq Nodes,
           NEW m \in Nodes
    PROVE  /\ (\E r \in S : m \in On(r) \ {r}) <=> Child(m) \cap HitBy(S) # {}
           /\ m \in HitBy(S) <=> m \in S \/ Child(m) \cap HitBy(S) # {}
<1>1. m \in Site /\ m \in On(m) /\ Child(m) \subseteq Nodes
  BY OnFacts DEF Child
<1>2. ASSUME NEW r \in S, m \in On(r), m # r
      PROVE  Child(m) \cap HitBy(S) # {}
  <2>1. r \in Site /\ r \in Sub(m) /\ IsNode(r)
    BY <1>2 DEF On
  <2>2. Got(0, m, r)
    BY <1>1, <2>1, GotAll, TreeFacts, NAssumption
  <2>3. PICK c \in Site : parent[c] = m /\ c # m /\ r \in Sub(c)
    BY <1>2, <2>2 DEF Got
  <2>4. c \in On(r)
    BY <2>1, <2>3 DEF On
  <2>5. IsNode(c)
    BY <2>1, <2>4, OnFacts
  <2> QED BY <2>3, <2>4, <2>5 DEF Child, HitBy
<1>3. ASSUME NEW c \in Child(m), NEW r \in S, c \in On(r) PROVE m \in On(r) \ {r}
  <2>1. c \in Site /\ parent[c] = m /\ c # m /\ r \in Site
    BY DEF Child
  <2>2. m \in On(c)
    BY <1>1, <2>1, OnFacts DEF IsRoot
  <2>3. Rank(s, m) < Rank(s, c) /\ Rank(s, c) \in Int /\ Rank(s, r) \in Int
    BY <2>1, TreeFacts
  <2>4. m # r
    BY <1>3, <2>1, <2>3, OnFacts
  <2> QED BY <1>3, <2>1, <2>2, <2>4, OnFacts
<1>4. (\E r \in S : m \in On(r) \ {r}) <=> Child(m) \cap HitBy(S) # {}
  BY <1>2, <1>3 DEF HitBy
<1> QED BY <1>1, <1>4 DEF HitBy

LEMMA GoneFacts ==
    ASSUME IsTree, Nodes = {q \in Site : IsNode(q)}, pred \subseteq Nodes,
           NEW m \in Nodes
    PROVE  /\ m \in MinGone <=> m \notin pred \/ (~ IsRoot(m) /\ parent[m] \in MinGone)
           /\ m \notin MaxGone <=> m \in pred \/ \E c \in Child(m) : c \notin MaxGone
           /\ m \notin MaxGone => parent[m] \notin MaxGone
<1>1. m \in Site /\ parent[m] \in Nodes /\ parent[m] \in Site /\ m \in On(m)
  BY TreeFacts, OnFacts
<1>2. m \in MinGone <=> m \notin pred \/ (~ IsRoot(m) /\ parent[m] \in MinGone)
  <2>1. CASE IsRoot(m)
    <3>1. On(m) = {m}
      BY <1>1, <2>1, OnFacts
    <3> QED BY <2>1, <3>1 DEF MinGone, Rejected
  <2>2. CASE ~ IsRoot(m)
    <3>1. On(m) = {m} \cup On(parent[m])
      BY <1>1, <2>2, OnFacts
    <3> QED BY <1>1, <2>2, <3>1 DEF MinGone, Rejected
  <2> QED BY <2>1, <2>2
<1>3. MaxGone = Nodes \ HitBy(pred)
  BY DEF MaxGone, HitBy
<1>4. Child(m) \subseteq Nodes
  BY DEF Child
<1>5. m \notin MaxGone <=> m \in pred \/ \E c \in Child(m) : c \notin MaxGone
  <2>1. m \in HitBy(pred) <=> m \in pred \/ Child(m) \cap HitBy(pred) # {}
    BY <1>1, HitFacts
  <2> QED BY <1>3, <1>4, <2>1
<1>6. ASSUME NEW r \in pred, m \in On(r) PROVE parent[m] \in On(r)
  <2>1. parent[m] \in On(m)
    <3>1. CASE IsRoot(m)
      BY <1>1, <3>1 DEF IsRoot
    <3>2. CASE ~ IsRoot(m)
      BY <1>1, <3>2, OnFacts
    <3> QED BY <3>1, <3>2
  <2>2. r \in Site
    OBVIOUS
  <2> QED BY <1>6, <2>1, <2>2, OnFacts
<1> QED BY <1>1, <1>2, <1>5, <1>6 DEF MaxGone

Flagged(b, S) == b \in [Site -> BOOLEAN] /\ \A q \in Site : b[q] <=> q \in S

LEMMA FlaggedFacts ==
    ASSUME NEW b, NEW S, Flagged(b, S), NEW m \in Site
    PROVE  /\ b[m] <=> m \in S
           /\ Flagged([b EXCEPT ![m] = TRUE], S \cup {m})
           /\ Flagged([b EXCEPT ![m] = FALSE], S \ {m})
<1>1. b[m] <=> m \in S
  BY DEF Flagged
<1>2. Flagged([b EXCEPT ![m] = TRUE], S \cup {m})
  <2>1. \A q \in Site : [b EXCEPT ![m] = TRUE][q] <=> q \in S \cup {m}
    BY DEF Flagged
  <2>2. [b EXCEPT ![m] = TRUE] \in [Site -> BOOLEAN]
    BY DEF Flagged
  <2> QED BY <2>1, <2>2 DEF Flagged
<1>3. Flagged([b EXCEPT ![m] = FALSE], S \ {m})
  <2>1. \A q \in Site : [b EXCEPT ![m] = FALSE][q] <=> q \in S \ {m}
    BY DEF Flagged
  <2>2. [b EXCEPT ![m] = FALSE] \in [Site -> BOOLEAN]
    BY DEF Flagged
  <2> QED BY <2>1, <2>2 DEF Flagged
<1> QED BY <1>1, <1>2, <1>3

LEMMA FlaggedAll ==
    /\ Flagged([q \in Site |-> FALSE], {})
    /\ Flagged([q \in Site |-> TRUE], Site)
BY DEF Flagged

Pruned(E) == [q \in Site |-> IF q \in E \cap MinGone THEN v ELSE f[q]]
\* The nodes that stay and their parents, once the nodes E are seen.
Held(E) == {q \in Site : \E c \in E \ MaxGone : c = q \/ parent[c] = q}
ByNode(b) == [q \in Site |-> b[Representative(q)]]

FallInv ==
    /\ loop = "direct" => a = Falls(Rejected, DoneDown)
    /\ loop = "min" => Flagged(mark, DoneDown \cap MinGone) /\ a = Falls(MinGone, DoneDown)
    /\ loop = "filter" => Flagged(mark, DoneDown \cap MinGone) /\ a = Pruned(DoneDown)
    /\ loop = "max_mark" => Flagged(mark, Site \ Held(DoneUp)) /\ a = f
    /\ loop = "max" => Flagged(mark, Site \ Held(Nodes)) /\ a = Falls(MaxGone, DoneDown)
    /\ loop = "representative" =>
         /\ routine = "direct" => a = Falls(Rejected, Nodes)
         /\ routine = "min" => a = Falls(MinGone, Nodes)
         /\ routine = "max" => a = Falls(MaxGone, Nodes)
         /\ routine = "filter" => a = Pruned(Nodes)
    /\ loop = "returned" =>
         /\ routine = "direct" => a = ByNode(Falls(Rejected, Nodes))
         /\ routine = "min" => a = ByNode(Falls(MinGone, Nodes))
         /\ routine = "max" => a = ByNode(Falls(MaxGone, Nodes))
         /\ routine = "filter" => a = ByNode(Pruned(Nodes))

\* The tree and the arguments stay, and so does all that is said of them.
LEMMA SameTree ==
    ASSUME UNCHANGED tree_vars
    PROVE  /\ f' = f /\ parent' = parent /\ Nodes' = Nodes /\ nodes' = nodes
           /\ \A q : (IsRoot(q)' <=> IsRoot(q)) /\ (IsNode(q)' <=> IsNode(q))
           /\ \A q : Representative(q)' = Representative(q)
           /\ \A q : Rank(s, q)' = Rank(s, q)
           /\ \A q : On(q)' = On(q) /\ Child(q)' = Child(q)
           /\ \A S : Lowest(S)' = Lowest(S) /\ Highest(S)' = Highest(S)
           /\ \A b : ByNode(b)' = ByNode(b)
           /\ \A G, E : Falls(G, E)' = Falls(G, E)
<1>1. /\ f' = f /\ s' = s /\ parent' = parent /\ nodes' = nodes
      /\ Nodes' = Nodes
  BY DEF tree_vars, vars, Nodes, ToSet
<1>2. \A q : (IsRoot(q)' <=> IsRoot(q)) /\ (IsNode(q)' <=> IsNode(q))
  BY <1>1 DEF IsRoot, IsNode
<1>3. \A q : Representative(q)' = Representative(q)
  BY <1>1 DEF Representative, IsNode, IsRoot
<1>4. \A q : Rank(s, q)' = Rank(s, q)
  BY <1>1 DEF Rank
<1>5. \A q : On(q)' = On(q)
  BY <1>1 DEF On, Sub, Downward
<1>6. \A q : Child(q)' = Child(q)
  BY <1>1 DEF Child, IsNode, IsRoot
<1>7. \A S : Lowest(S)' = Lowest(S) /\ Highest(S)' = Highest(S)
  BY <1>1, <1>4 DEF Lowest, Highest
<1>8. \A b : ByNode(b)' = ByNode(b)
  BY <1>3 DEF ByNode
<1>9. ASSUME NEW G, NEW E PROVE Falls(G, E)' = Falls(G, E)
  <2>1. Stay(G)' = Stay(G)
    BY <1>1, <1>2 DEF Stay
  <2>2. ASSUME NEW q PROVE Fallen(G, q)' = Fallen(G, q)
    <3>1. (On(q) \cap Stay(G))' = On(q) \cap Stay(G)
      BY <1>5, <2>1
    <3> QED BY <1>1, <1>7, <3>1 DEF Fallen
  <2> QED BY <1>1, <2>2 DEF Falls
<1> QED BY <1>1, <1>2, <1>3, <1>4, <1>5, <1>6, <1>7, <1>8, <1>9

LEMMA SameGone ==
    ASSUME UNCHANGED tree_vars, UNCHANGED args
    PROVE  /\ Rejected' = Rejected /\ MinGone' = MinGone /\ MaxGone' = MaxGone
           /\ \A E : Pruned(E)' = Pruned(E) /\ Held(E)' = Held(E)
<1>1. /\ f' = f /\ parent' = parent /\ Nodes' = Nodes
      /\ \A q : On(q)' = On(q)
      /\ pred' = pred /\ v' = v
  BY SameTree DEF args
<1>2. Rejected' = Rejected
  BY <1>1 DEF Rejected
<1>3. MinGone' = MinGone
  BY <1>1, <1>2 DEF MinGone
<1>4. MaxGone' = MaxGone
  BY <1>1 DEF MaxGone
<1>5. \A E : Pruned(E)' = Pruned(E) /\ Held(E)' = Held(E)
  BY <1>1, <1>3, <1>4 DEF Pruned, Held
<1> QED BY <1>2, <1>3, <1>4, <1>5

\* The arguments of a call.
ArgsInv ==
    /\ pred \subseteq Nodes
    /\ routine = "none" => pred = {}
    /\ routine \notin {"desc", "asc"} => w = Unset
    /\ routine \in {"none", "direct", "min", "max", "subtractive"} => v = Unset

LEMMA ArgsStep ==
    ASSUME RunsInv, ArgsInv, FiltersNext
    PROVE  ArgsInv'
<1>1. RunInv
  BY DEF RunsInv
<1>2. CASE UNCHANGED call_vars /\ loop = "children"
  <2>1. routine = "none" /\ routine' = "none" /\ pred' = {} /\ w' = w /\ v' = v
    BY <1>1, <1>2 DEF RunInv, ArgsInv, call_vars, args
  <2> QED BY <2>1 DEF ArgsInv
<1>3. CASE UNCHANGED call_vars /\ loop # "children"
  <2>1. Nodes' = Nodes /\ UNCHANGED <<routine, pred, w, v>>
    BY <1>3, CalledStep, SameTree DEF call_vars, args
  <2> QED BY <2>1 DEF ArgsInv
<1>4. CASE Calls
  <2>1. Nodes' = Nodes /\ routine = "none"
    <3>1. loop = "call"
      BY <1>4 DEF Calls, CallFilter, CallPropagateIf, CallPropagateIfValue,
         CallDescendants, CallAncestors, CallAttribute, Call
    <3> QED BY <1>1, <1>4, <3>1, CallsReadTree, SameTree DEF RunInv
  <2>2. CASE CallFilter
    BY <2>1, <2>2 DEF CallFilter, Call, ArgsInv
  <2>3. CASE CallPropagateIf
    BY <2>1, <2>3 DEF CallPropagateIf, Call, ArgsInv
  <2>4. CASE CallPropagateIfValue
    BY <2>1, <2>4 DEF CallPropagateIfValue, Call, ArgsInv
  <2>5. CASE CallDescendants
    BY <2>1, <2>5 DEF CallDescendants, Call, ArgsInv
  <2>6. CASE CallAncestors
    BY <2>1, <2>6 DEF CallAncestors, Call, ArgsInv
  <2>7. CASE CallAttribute
    BY <2>1, <2>7 DEF CallAttribute, Call, ArgsInv
  <2> QED BY <1>4, <2>2, <2>3, <2>4, <2>5, <2>6, <2>7 DEF Calls
<1>5. CASE Loops
  <2>1. UNCHANGED args
    BY <1>5 DEF Loops, Direct, Prune, MaxMark, Max1, PropagateDown, Subtract, PropagateUp,
       PropagateRepresentative, PropagateDescendants, PropagateAncestors, Take, TakeBack,
       Same
  <2>2. Nodes' = Nodes
    BY <1>5, CallsReadTree, SameTree
  <2> QED BY <2>1, <2>2 DEF ArgsInv, args
<1> QED BY <1>2, <1>3, <1>4, <1>5 DEF FiltersNext

\* A step of a call or of a loop happens on the stored tree.
LEMMA OnTree ==
    ASSUME RunsInv, Calls \/ Loops
    PROVE  /\ IsTree /\ StoredInv /\ loop # "children" /\ RunInv
           /\ UNCHANGED tree_vars
           /\ Nodes = {q \in Site : IsNode(q)} /\ Nodes \subseteq Site
           /\ f = [q \in Site |-> f[q]]
<1>1. loop # "children" /\ UNCHANGED tree_vars
  BY CallsReadTree
<1>2. IsTree /\ StoredInv /\ RunInv
  BY <1>1, CalledFacts DEF RunsInv
<1>3. Nodes = {q \in Site : IsNode(q)}
  BY <1>1, <1>2, StoredFacts
<1> QED BY <1>1, <1>2, <1>3 DEF IsTree

\* A step of a loop, and the loops it may lead to.
LEMMA LoopsLead ==
    ASSUME RunsInv, Loops
    PROVE  /\ UNCHANGED args
           /\ Direct => loop' \in {"direct", "representative"} /\ routine = "direct"
           /\ Prune => loop' \in {loop, "representative"} /\ routine \in {"min", "filter"}
                       /\ loop = routine
           /\ MaxMark \/ Max1 => loop' \in {"max_mark", "max", "representative"} /\ routine = "max"
           /\ PropagateDown => /\ loop' \in {"desc", "subtractive", "returned"}
                               /\ routine \in {"desc", "subtractive"}
           /\ Subtract => loop' \in {"subtractive", "representative"} /\ routine = "subtractive"
           /\ PropagateUp => loop' \in {"asc", "returned"} /\ routine = "asc"
           /\ PropagateRepresentative => loop' = "returned" /\ routine \in Filters
           /\ PropagateDescendants => /\ loop' \in {"descendants", "returned"}
                                      /\ routine = "descendants"
           /\ PropagateAncestors => loop' \in {"ancestors", "returned"} /\ routine = "ancestors"
           /\ Take \/ TakeBack => /\ loop' \in {"attribute", "back", "returned"}
                                  /\ routine = "attribute"
<1>1. RunInv
  BY DEF RunsInv
<1>2. UNCHANGED args
  BY DEF Loops, Direct, Prune, MaxMark, Max1, PropagateDown, Subtract, PropagateUp,
     PropagateRepresentative, PropagateDescendants, PropagateAncestors, Take, TakeBack, Same
<1>3. Direct => loop' \in {"direct", "representative"} /\ routine = "direct"
  BY <1>1 DEF Direct, RunInv, DownTo
<1>4. Prune => loop' \in {loop, "representative"} /\ routine \in {"min", "filter"}
               /\ loop = routine
  BY <1>1 DEF Prune, RunInv, DownTo
<1>5. MaxMark \/ Max1 => loop' \in {"max_mark", "max", "representative"} /\ routine = "max"
  BY <1>1 DEF MaxMark, Max1, RunInv, DownTo, UpTo
<1>6. PropagateDown => /\ loop' \in {"desc", "subtractive", "returned"}
                       /\ routine \in {"desc", "subtractive"}
  BY <1>1 DEF PropagateDown, RunInv, DownTo
<1>7. Subtract => loop' \in {"subtractive", "representative"} /\ routine = "subtractive"
  BY <1>1 DEF Subtract, RunInv, UpTo
<1>8. PropagateUp => loop' \in {"asc", "returned"} /\ routine = "asc"
  BY <1>1 DEF PropagateUp, RunInv, UpTo
<1>9. PropagateRepresentative => loop' = "returned" /\ routine \in Filters
  BY <1>1 DEF PropagateRepresentative, RunInv
<1>10. PropagateDescendants => /\ loop' \in {"descendants", "returned"}
                               /\ routine = "descendants"
  BY <1>1 DEF PropagateDescendants, RunInv
<1>11. PropagateAncestors => loop' \in {"ancestors", "returned"} /\ routine = "ancestors"
  BY <1>1 DEF PropagateAncestors, RunInv
<1>12. Take \/ TakeBack => /\ loop' \in {"attribute", "back", "returned"}
                           /\ routine = "attribute"
  BY <1>1 DEF Take, TakeBack, RunInv, DownTo
<1> QED BY <1>2, <1>3, <1>4, <1>5, <1>6, <1>7, <1>8, <1>9, <1>10, <1>11, <1>12

\* While the children are stored, no routine runs.
LEMMA StoringLeads ==
    ASSUME RunsInv, FiltersNext, loop = "children"
    PROVE  loop' \in {"children", "call"}
<1>1. ~ (Calls \/ Loops)
  BY CallsReadTree
<1> QED BY <1>1 DEF FiltersNext, DataNext, AddNode, AddRoot, SkipSite, DownTo, data_vars

LEMMA FallCall ==
    ASSUME RunsInv, CallFilter
    PROVE  FallInv'
<1>1. /\ IsTree /\ StoredInv /\ loop # "children" /\ UNCHANGED tree_vars
      /\ f = [q \in Site |-> f[q]]
  BY OnTree DEF Calls
<1>2. \A G, E : Falls(G, E)' = Falls(G, E)
  BY <1>1, SameTree
<1>3. /\ k' = Len(nodes) => DoneDown' = {}
      /\ k' = 1 => DoneUp' = {}
  BY <1>1, DoneNone
<1>4. a' = f /\ f' = f
  BY <1>1, SameTree DEF CallFilter, Call
<1>5. \A G : Falls(G, {}) = f
  BY <1>1 DEF Falls
<1>6. CASE Call("direct", "direct", Len(nodes))
  <2>1. loop' = "direct" /\ k' = Len(nodes)
    BY <1>6 DEF Call
  <2> QED BY <1>2, <1>3, <1>4, <1>5, <2>1 DEF FallInv
<1>7. CASE Call("min", "min", Len(nodes)) /\ Marks(FALSE)
  <2>1. loop' = "min" /\ k' = Len(nodes) /\ mark' = [q \in Site |-> FALSE]
    BY <1>7 DEF Call, Marks
  <2>2. DoneDown' = {} /\ (DoneDown \cap MinGone)' = {}
    BY <1>3, <2>1
  <2>3. (Flagged(mark, DoneDown \cap MinGone))'
    BY <2>1, <2>2, FlaggedAll DEF Flagged
  <2> QED BY <1>2, <1>4, <1>5, <2>1, <2>2, <2>3 DEF FallInv
<1>8. CASE Call("max", "max_mark", 1) /\ Marks(TRUE)
  <2>1. loop' = "max_mark" /\ k' = 1 /\ mark' = [q \in Site |-> TRUE]
    BY <1>8 DEF Call, Marks
  <2>2. Held(DoneUp)' = {}
    BY <1>3, <2>1 DEF Held
  <2>3. (Flagged(mark, Site \ Held(DoneUp)))'
    BY <2>1, <2>2, FlaggedAll DEF Flagged
  <2> QED BY <1>4, <2>1, <2>3 DEF FallInv
<1>9. CASE Call("subtractive", "desc", Len(nodes))
  BY <1>9 DEF Call, FallInv
<1>10. CASE Call("filter", "filter", Len(nodes)) /\ Marks(FALSE)
  <2>1. loop' = "filter" /\ k' = Len(nodes) /\ mark' = [q \in Site |-> FALSE]
    BY <1>10 DEF Call, Marks
  <2>2. DoneDown' = {} /\ (DoneDown \cap MinGone)' = {}
    BY <1>3, <2>1
  <2>3. (Flagged(mark, DoneDown \cap MinGone))'
    BY <2>1, <2>2, FlaggedAll DEF Flagged
  <2>4. (a = Pruned(DoneDown))'
    BY <1>1, <1>4, <2>2 DEF Pruned
  <2> QED BY <2>1, <2>3, <2>4 DEF FallInv
<1> QED BY <1>6, <1>7, <1>8, <1>9, <1>10 DEF CallFilter

LEMMA NodeStep ==
    ASSUME RunsInv, loop \in NodeLoops, Loops
    PROVE  /\ k \in 1..Len(nodes)
           /\ Node \in Nodes /\ Node \in Site /\ Up \in Nodes /\ Up \in Site
           /\ Node \notin DoneDown /\ Node \notin DoneUp /\ Up \notin DoneUp
           /\ ~ IsRoot(Node) => Up \in DoneDown /\ Up # Node
           /\ IsRoot(Node) <=> Up = Node
           /\ Child(Node) \subseteq DoneUp
           /\ DoneDown \subseteq Nodes /\ DoneUp \subseteq Nodes
           /\ \A l : DownTo(l) =>
                \/ loop' = loop /\ DoneDown' = DoneDown \cup {Node}
                \/ loop' = l /\ Nodes = DoneDown \cup {Node} /\ k' = 1
           /\ \A l : UpTo(l) =>
                \/ loop' = loop /\ DoneUp' = DoneUp \cup {Node}
                \/ loop' = l /\ Nodes = DoneUp \cup {Node} /\ k' = Len(nodes)
<1>1. /\ IsTree /\ StoredInv /\ loop # "children" /\ RunInv /\ UNCHANGED tree_vars
  BY OnTree
<1>2. k \in 1..Len(nodes)
  BY <1>1 DEF RunInv
<1>3. IsRoot(Node) <=> Up = Node
  BY DEF IsRoot, Up
<1> QED BY <1>1, <1>2, <1>3, DoneFacts, DownStep, UpStep

LEMMA FallDirect ==
    ASSUME RunsInv, ArgsInv, FallInv, Direct
    PROVE  FallInv'
<1>1. /\ IsTree /\ StoredInv /\ RunInv /\ UNCHANGED tree_vars
      /\ Nodes = {q \in Site : IsNode(q)}
  BY OnTree DEF Loops
<1>2. loop = "direct" /\ routine = "direct" /\ DownTo("representative") /\ UNCHANGED args
      /\ a' = IF Node \in pred THEN a ELSE [a EXCEPT ![Node] = a[Up]]
  BY <1>1 DEF Direct, Same, RunInv
<1>3. a = Falls(Rejected, DoneDown)
  BY <1>2 DEF FallInv
<1>4. /\ Node \in Nodes /\ Node \notin DoneDown
      /\ ~ IsRoot(Node) => Up \in DoneDown
      /\ \/ loop' = "direct" /\ DoneDown' = DoneDown \cup {Node}
         \/ loop' = "representative" /\ Nodes = DoneDown \cup {Node}
  BY <1>2, NodeStep DEF Loops, NodeLoops
<1>5. a' = Falls(Rejected, DoneDown \cup {Node})
  <2>1. Node \in pred <=> Node \notin Rejected
    BY <1>4 DEF Rejected
  <2>2. ~ IsRoot(Node) => parent[Node] \in DoneDown
    BY <1>4 DEF Up
  <2>3. /\ Node \in Rejected =>
             [a EXCEPT ![Node] = a[parent[Node]]] = Falls(Rejected, DoneDown \cup {Node})
        /\ Node \notin Rejected => a = Falls(Rejected, DoneDown \cup {Node})
    BY <1>1, <1>3, <1>4, <2>2, FallsMore
  <2> QED BY <1>2, <2>1, <2>3 DEF Up
<1>6. Rejected' = Rejected /\ Nodes' = Nodes /\ (\A G, E : Falls(G, E)' = Falls(G, E))
      /\ routine' = routine
  BY <1>1, <1>2, SameTree, SameGone DEF args
<1>7. CASE loop' = "direct" /\ DoneDown' = DoneDown \cup {Node}
  BY <1>5, <1>6, <1>7 DEF FallInv
<1>8. CASE loop' = "representative" /\ Nodes = DoneDown \cup {Node}
  <2>1. a' = Falls(Rejected', Nodes')
    BY <1>5, <1>6, <1>8
  <2> QED BY <1>2, <1>6, <1>8, <2>1 DEF FallInv
<1> QED BY <1>4, <1>7, <1>8

LEMMA FallPrune ==
    ASSUME RunsInv, ArgsInv, FallInv, Prune
    PROVE  FallInv'
<1>1. /\ IsTree /\ StoredInv /\ RunInv /\ UNCHANGED tree_vars
      /\ Nodes = {q \in Site : IsNode(q)} /\ Nodes \subseteq Site
  BY OnTree DEF Loops
<1>2. /\ loop \in {"min", "filter"} /\ routine = loop
      /\ DownTo("representative") /\ UNCHANGED args
      /\ IF mark[Up] \/ Node \notin pred
           THEN /\ a' = [a EXCEPT ![Node] = IF loop = "min" THEN a[Up] ELSE v]
                /\ mark' = [mark EXCEPT ![Node] = TRUE]
           ELSE UNCHANGED <<a, mark>>
  BY <1>1 DEF Prune, Same, RunInv
<1>3. /\ Flagged(mark, DoneDown \cap MinGone)
      /\ loop = "min" => a = Falls(MinGone, DoneDown)
      /\ loop = "filter" => a = Pruned(DoneDown)
  BY <1>2 DEF FallInv
<1>4. /\ Node \in Nodes /\ Node \in Site /\ Node \notin DoneDown
      /\ Up \in Nodes /\ Up \in Site
      /\ ~ IsRoot(Node) => Up \in DoneDown
      /\ IsRoot(Node) <=> Up = Node
      /\ \/ loop' = loop /\ DoneDown' = DoneDown \cup {Node}
         \/ loop' = "representative" /\ Nodes = DoneDown \cup {Node}
  BY <1>2, NodeStep DEF Loops, NodeLoops
<1>5. Node \in MinGone <=> mark[Up] \/ Node \notin pred
  <2>1. Node \in MinGone <=> Node \notin pred \/ (~ IsRoot(Node) /\ Up \in MinGone)
    BY <1>1, <1>4, GoneFacts DEF ArgsInv, Up
  <2>2. mark[Up] <=> Up \in DoneDown /\ Up \in MinGone
    BY <1>3, <1>4 DEF Flagged
  <2> QED BY <1>4, <2>1, <2>2
<1>6. Flagged(mark', (DoneDown \cup {Node}) \cap MinGone)
  <2>1. CASE Node \in MinGone
    <3>1. mark' = [mark EXCEPT ![Node] = TRUE]
      BY <1>2, <1>5, <2>1
    <3>2. Flagged(mark', (DoneDown \cap MinGone) \cup {Node})
      BY <1>3, <1>4, <3>1, FlaggedFacts
    <3>3. (DoneDown \cap MinGone) \cup {Node} = (DoneDown \cup {Node}) \cap MinGone
      BY <2>1
    <3> QED BY <3>2, <3>3
  <2>2. CASE Node \notin MinGone
    <3>1. mark' = mark
      BY <1>2, <1>5, <2>2
    <3>2. (DoneDown \cup {Node}) \cap MinGone = DoneDown \cap MinGone
      BY <2>2
    <3> QED BY <1>3, <3>1, <3>2
  <2> QED BY <2>1, <2>2
<1>7. loop = "min" => a' = Falls(MinGone, DoneDown \cup {Node})
  <2> SUFFICES ASSUME loop = "min" PROVE a' = Falls(MinGone, DoneDown \cup {Node})
    OBVIOUS
  <2>1. ~ IsRoot(Node) => parent[Node] \in DoneDown
    BY <1>4 DEF Up
  <2>2. /\ Node \in MinGone =>
             [a EXCEPT ![Node] = a[parent[Node]]] = Falls(MinGone, DoneDown \cup {Node})
        /\ Node \notin MinGone => a = Falls(MinGone, DoneDown \cup {Node})
    BY <1>1, <1>3, <1>4, <2>1, FallsMore
  <2>3. a' = IF Node \in MinGone THEN [a EXCEPT ![Node] = a[parent[Node]]] ELSE a
    BY <1>2, <1>5 DEF Up
  <2> QED BY <2>2, <2>3
<1>8. loop = "filter" => a' = Pruned(DoneDown \cup {Node})
  <2> SUFFICES ASSUME loop = "filter" PROVE a' = Pruned(DoneDown \cup {Node})
    OBVIOUS
  <2>1. a' = IF Node \in MinGone THEN [a EXCEPT ![Node] = v] ELSE a
    BY <1>2, <1>5
  <2>2. a = [q \in Site |-> IF q \in DoneDown \cap MinGone THEN v ELSE f[q]]
    BY <1>3 DEF Pruned
  <2>3. a' = [q \in Site |-> IF q \in (DoneDown \cup {Node}) \cap MinGone THEN v ELSE f[q]]
    BY <1>4, <2>1, <2>2
  <2> QED BY <2>3 DEF Pruned
<1>9. /\ MinGone' = MinGone /\ Nodes' = Nodes /\ routine' = routine
      /\ \A G, E : Falls(G, E)' = Falls(G, E)
      /\ \A E : Pruned(E)' = Pruned(E)
  BY <1>1, <1>2, SameTree, SameGone DEF args
<1>10. CASE loop' = loop /\ DoneDown' = DoneDown \cup {Node}
  <2>1. Flagged(mark, DoneDown \cap MinGone)'
    BY <1>6, <1>9, <1>10 DEF Flagged
  <2> QED BY <1>2, <1>7, <1>8, <1>9, <1>10, <2>1 DEF FallInv
<1>11. CASE loop' = "representative" /\ Nodes = DoneDown \cup {Node}
  BY <1>2, <1>7, <1>8, <1>9, <1>11 DEF FallInv
<1> QED BY <1>4, <1>10, <1>11

LEMMA FallMaxMark ==
    ASSUME RunsInv, ArgsInv, FallInv, MaxMark
    PROVE  FallInv'
<1>1. /\ IsTree /\ StoredInv /\ loop # "children" /\ RunInv /\ UNCHANGED tree_vars
      /\ Nodes = {q \in Site : IsNode(q)} /\ Nodes \subseteq Site
      /\ f = [q \in Site |-> f[q]]
  BY OnTree DEF Loops
<1>2. /\ loop = "max_mark" /\ routine = "max" /\ UpTo("max") /\ UNCHANGED args /\ a' = a
      /\ ~ mark[Node] => mark' = [mark EXCEPT ![Up] = FALSE]
      /\ mark[Node] /\ Node \in pred => mark' = [mark EXCEPT ![Up] = FALSE, ![Node] = FALSE]
      /\ mark[Node] /\ Node \notin pred => mark' = mark
  BY <1>1 DEF MaxMark, Same, RunInv
<1>3. Flagged(mark, Site \ Held(DoneUp)) /\ a = f
  BY <1>2 DEF FallInv
<1>4. /\ Node \in Nodes /\ Node \in Site /\ Node \notin DoneUp /\ Up \in Site
      /\ Child(Node) \subseteq DoneUp /\ DoneUp \subseteq Nodes
      /\ \/ loop' = loop /\ DoneUp' = DoneUp \cup {Node}
         \/ loop' = "max" /\ Nodes = DoneUp \cup {Node} /\ k' = Len(nodes)
  BY <1>2, NodeStep DEF Loops, NodeLoops
<1>5. ~ mark[Node] <=> \E c \in Child(Node) : c \notin MaxGone
  <2>1. ~ mark[Node] <=> \E c \in DoneUp \ MaxGone : c = Node \/ parent[c] = Node
    BY <1>3, <1>4 DEF Flagged, Held
  <2>2. \A c \in DoneUp : parent[c] = Node <=> c \in Child(Node)
    BY <1>1, <1>4 DEF Child
  <2> QED BY <1>4, <2>1, <2>2
<1>6. Node \notin MaxGone <=> Node \in pred \/ ~ mark[Node]
  BY <1>1, <1>4, <1>5, GoneFacts DEF ArgsInv
<1>7. Held(DoneUp \cup {Node}) =
        IF Node \in MaxGone THEN Held(DoneUp) ELSE Held(DoneUp) \cup {Node, Up}
  BY <1>4 DEF Held, Up
<1>8. Flagged(mark', Site \ Held(DoneUp \cup {Node}))
  <2>1. CASE Node \in MaxGone
    <3>1. mark' = mark
      BY <1>2, <1>6, <2>1
    <3> QED BY <1>3, <1>7, <2>1, <3>1
  <2>2. CASE Node \notin MaxGone
    <3> DEFINE S == Site \ Held(DoneUp)
    <3>1. S \ {Up, Node} = Site \ Held(DoneUp \cup {Node})
      BY <1>7, <2>2
    <3>2. Flagged([mark EXCEPT ![Up] = FALSE], S \ {Up})
      BY <1>3, <1>4, FlaggedFacts
    <3>3. CASE ~ mark[Node]
      <4>1. mark' = [mark EXCEPT ![Up] = FALSE]
        BY <1>2, <3>3
      <4>2. Node \notin S
        BY <1>3, <1>4, <3>3, FlaggedFacts
      <4>3. S \ {Up} = S \ {Up, Node}
        BY <4>2
      <4> QED BY <3>1, <3>2, <4>1, <4>3
    <3>4. CASE mark[Node]
      <4> DEFINE b == [mark EXCEPT ![Up] = FALSE]
      <4>1. mark' = [b EXCEPT ![Node] = FALSE]
        BY <1>2, <1>6, <2>2, <3>4
      <4>2. Flagged([b EXCEPT ![Node] = FALSE], (S \ {Up}) \ {Node})
        <5> HIDE DEF b, S
        <5>1. Flagged(b, S \ {Up})
          BY <3>2 DEF b
        <5> QED BY <1>4, <5>1, FlaggedFacts
      <4>3. (S \ {Up}) \ {Node} = S \ {Up, Node}
        OBVIOUS
      <4> QED BY <3>1, <4>1, <4>2, <4>3
    <3> QED BY <3>3, <3>4
  <2> QED BY <2>1, <2>2
<1>9. /\ MaxGone' = MaxGone /\ Nodes' = Nodes /\ f' = f
      /\ \A G, E : Falls(G, E)' = Falls(G, E)
      /\ \A E : Held(E)' = Held(E)
  BY <1>1, <1>2, SameTree, SameGone
<1>10. CASE loop' = loop /\ DoneUp' = DoneUp \cup {Node}
  <2>1. Held(DoneUp)' = Held(DoneUp \cup {Node})
    BY <1>9, <1>10
  <2>2. Flagged(mark, Site \ Held(DoneUp))'
    BY <1>8, <2>1 DEF Flagged
  <2> QED BY <1>2, <1>3, <1>9, <1>10, <2>2 DEF FallInv
<1>11. CASE loop' = "max" /\ Nodes = DoneUp \cup {Node} /\ k' = Len(nodes)
  <2>1. DoneDown' = {}
    BY <1>1, <1>11, DoneNone
  <2>2. (Falls(MaxGone, DoneDown) = f)'
    <3>1. Falls(MaxGone, {}) = f
      BY <1>1 DEF Falls
    <3> QED BY <1>9, <2>1, <3>1
  <2>3. Flagged(mark, Site \ Held(Nodes))'
    <3>1. Held(Nodes)' = Held(DoneUp \cup {Node})
      BY <1>9, <1>11
    <3> QED BY <1>8, <3>1 DEF Flagged
  <2> QED BY <1>2, <1>3, <1>9, <1>11, <2>2, <2>3 DEF FallInv
<1> QED BY <1>4, <1>10, <1>11

LEMMA FallMax ==
    ASSUME RunsInv, ArgsInv, FallInv, Max1
    PROVE  FallInv'
<1>1. /\ IsTree /\ StoredInv /\ RunInv /\ UNCHANGED tree_vars
      /\ Nodes = {q \in Site : IsNode(q)} /\ Nodes \subseteq Site
  BY OnTree DEF Loops
<1>2. /\ loop = "max" /\ routine = "max" /\ DownTo("representative") /\ UNCHANGED args
      /\ mark' = mark
      /\ a' = IF mark[Node] THEN [a EXCEPT ![Node] = a[Up]] ELSE a
  BY <1>1 DEF Max1, Same, RunInv
<1>3. Flagged(mark, Site \ Held(Nodes)) /\ a = Falls(MaxGone, DoneDown)
  BY <1>2 DEF FallInv
<1>4. /\ Node \in Nodes /\ Node \in Site /\ Node \notin DoneDown
      /\ ~ IsRoot(Node) => Up \in DoneDown
      /\ \/ loop' = "max" /\ DoneDown' = DoneDown \cup {Node}
         \/ loop' = "representative" /\ Nodes = DoneDown \cup {Node}
  BY <1>2, NodeStep DEF Loops, NodeLoops
<1>5. mark[Node] <=> Node \in MaxGone
  <2>1. \A c \in Nodes : c \notin MaxGone => parent[c] \notin MaxGone
    BY <1>1, GoneFacts DEF ArgsInv
  <2>2. Node \in Held(Nodes) <=> Node \notin MaxGone
    BY <1>4, <2>1 DEF Held
  <2> QED BY <1>3, <1>4, <2>2 DEF Flagged
<1>6. a' = Falls(MaxGone, DoneDown \cup {Node})
  <2>1. ~ IsRoot(Node) => parent[Node] \in DoneDown
    BY <1>4 DEF Up
  <2>2. /\ Node \in MaxGone =>
             [a EXCEPT ![Node] = a[parent[Node]]] = Falls(MaxGone, DoneDown \cup {Node})
        /\ Node \notin MaxGone => a = Falls(MaxGone, DoneDown \cup {Node})
    BY <1>1, <1>3, <1>4, <2>1, FallsMore
  <2> QED BY <1>2, <1>5, <2>2 DEF Up
<1>7. /\ MaxGone' = MaxGone /\ Nodes' = Nodes /\ routine' = routine
      /\ \A G, E : Falls(G, E)' = Falls(G, E)
      /\ \A E : Held(E)' = Held(E)
  BY <1>1, <1>2, SameTree, SameGone DEF args
<1>8. CASE loop' = "max" /\ DoneDown' = DoneDown \cup {Node}
  <2>1. Flagged(mark, Site \ Held(Nodes))'
    BY <1>2, <1>3, <1>7 DEF Flagged
  <2> QED BY <1>6, <1>7, <1>8, <2>1 DEF FallInv
<1>9. CASE loop' = "representative" /\ Nodes = DoneDown \cup {Node}
  BY <1>2, <1>6, <1>7, <1>9 DEF FallInv
<1> QED BY <1>4, <1>8, <1>9

LEMMA FallRepresentative ==
    ASSUME RunsInv, ArgsInv, FallInv, PropagateRepresentative
    PROVE  FallInv'
<1>1. UNCHANGED tree_vars
  BY OnTree DEF Loops
<1>2. /\ loop = "representative" /\ loop' = "returned" /\ UNCHANGED args
      /\ a' = ByNode(a)
  BY DEF PropagateRepresentative, Same, ByNode
<1>3. /\ Rejected' = Rejected /\ MinGone' = MinGone /\ MaxGone' = MaxGone
      /\ Nodes' = Nodes /\ routine' = routine
      /\ \A b : ByNode(b)' = ByNode(b)
      /\ \A G, E : Falls(G, E)' = Falls(G, E)
      /\ \A E : Pruned(E)' = Pruned(E)
  BY <1>1, <1>2, SameTree, SameGone DEF args
<1>4. /\ routine = "direct" => a = Falls(Rejected, Nodes)
      /\ routine = "min" => a = Falls(MinGone, Nodes)
      /\ routine = "max" => a = Falls(MaxGone, Nodes)
      /\ routine = "filter" => a = Pruned(Nodes)
  BY <1>2 DEF FallInv
<1> QED BY <1>2, <1>3, <1>4 DEF FallInv

LEMMA FallStutter ==
    ASSUME RunsInv, FallInv, UNCHANGED <<vars, data_vars, call_vars>>
    PROVE  FallInv'
<1>1. UNCHANGED tree_vars /\ UNCHANGED args /\ UNCHANGED <<loop, k, mark, a, routine>>
  BY DEF tree_vars, data_vars, call_vars, args
<1>2. /\ Rejected' = Rejected /\ MinGone' = MinGone /\ MaxGone' = MaxGone
      /\ Nodes' = Nodes /\ f' = f
      /\ \A b : ByNode(b)' = ByNode(b)
      /\ \A G, E : Falls(G, E)' = Falls(G, E)
      /\ \A E : Pruned(E)' = Pruned(E)
      /\ \A E : Held(E)' = Held(E)
  BY <1>1, SameTree, SameGone
<1>3. DoneDown' = DoneDown /\ DoneUp' = DoneUp
  BY <1>1, SameTree DEF DoneDown, DoneUp, Node
<1>4. \A S : Flagged(mark, S)' <=> Flagged(mark, S)
  BY <1>1 DEF Flagged
<1> QED BY <1>1, <1>2, <1>3, <1>4 DEF FallInv

FallRoutines == {"direct", "min", "max", "filter"}

LEMMA FallStep ==
    ASSUME RunsInv, ArgsInv, FallInv, FiltersNext
    PROVE  FallInv'
<1>1. CASE loop = "children"
  BY <1>1, StoringLeads DEF FallInv
<1>2. CASE loop # "children" /\ UNCHANGED <<vars, data_vars, call_vars>>
  BY <1>2, FallStutter
<1>3. CASE Calls
  <2>1. CASE CallFilter
    BY <2>1, FallCall
  <2>2. CASE ~ CallFilter
    BY <1>3, <2>2 DEF Calls, CallPropagateIf, CallPropagateIfValue, CallDescendants,
       CallAncestors, CallAttribute, Call, FallInv
  <2> QED BY <2>1, <2>2
<1>4. CASE Loops
  <2>1. CASE Direct \/ Prune \/ MaxMark \/ Max1 \/ PropagateRepresentative
    BY <2>1, FallDirect, FallPrune, FallMaxMark, FallMax, FallRepresentative
  <2>2. CASE Subtract
    <3>1. loop' \in {"subtractive", "representative"} /\ routine' = "subtractive"
      BY <1>4, <2>2, LoopsLead DEF args
    <3> QED BY <3>1 DEF FallInv
  <2>3. CASE ~ (Direct \/ Prune \/ MaxMark \/ Max1 \/ PropagateRepresentative \/ Subtract)
    <3>1. /\ loop' \notin {"direct", "min", "filter", "max_mark", "max", "representative"}
          /\ routine' \notin FallRoutines
      BY <1>4, <2>3, LoopsLead DEF Loops, args, FallRoutines
    <3> QED BY <3>1 DEF FallInv, FallRoutines
  <2> QED BY <2>1, <2>2, <2>3
<1> QED BY <1>1, <1>2, <1>3, <1>4, CalledStep

\* What these filters return.
LEMMA FallReturns ==
    ASSUME RunsInv, ArgsInv, FallInv, loop = "returned", routine \in FallRoutines
    PROVE  FilteredAsDefined
<1>1. IsTree /\ StoredInv /\ Nodes = {q \in Site : IsNode(q)}
  BY CalledFacts, StoredFacts
<1>2. \A q \in Site : /\ Representative(q) \in Nodes
                      /\ Way(q) = On(Representative(q))
                      /\ f[Representative(q)] = f[q]
                      /\ q \in Nodes => Representative(q) = q
  BY <1>1, RepresentativeFacts, WayIsOn
<1>3. /\ routine \in {"direct", "max"} => Removed = Rejected
      /\ routine \in {"min", "filter"} => Removed = MinGone
  <2>1. MinGone = {q \in Nodes : Way(q) \cap Rejected # {}}
    BY <1>1, <1>2 DEF MinGone
  <2> QED BY <2>1 DEF Removed
<1>4. ASSUME routine \in {"direct", "min", "max"}, NEW q \in Site, Settled(q)
      PROVE  a[q] = f[Lowest(Way(q) \cap ((Nodes \ Removed)
                                            \cup {t \in Nodes : IsRoot(t)}))]
  <2> DEFINE gone == IF routine = "max" THEN MaxGone ELSE Removed
             r == Representative(q)
  <2>1. a = ByNode(Falls(gone, Nodes))
    BY <1>3, <1>4 DEF FallInv
  <2> HIDE DEF gone
  <2>2. Falls(gone, Nodes)[r] = Fallen(gone, r)
    BY <1>1, <1>2 DEF Falls
  <2>3. a[q] = f[Lowest(Way(q) \cap Stay(gone))]
    BY <1>2, <2>1, <2>2 DEF ByNode, Fallen
  <2>4. Way(q) \cap Stay(gone) = Way(q) \cap Stay(Removed)
    <3>1. CASE routine # "max"
      BY <3>1 DEF gone
    <3>2. CASE routine = "max"
      <4>1. gone = MaxGone /\ Removed = Rejected
        BY <1>3, <3>2 DEF gone
      <4>2. \A t \in pred : t \in Nodes /\ Way(t) = On(t) /\ t \in On(t)
        BY <1>1, <1>2, OnFacts DEF ArgsInv
      <4>3. ASSUME NEW t \in Way(q), t \in Nodes, ~ IsRoot(t)
            PROVE  t \in MaxGone <=> t \in Rejected
        BY <1>4, <3>2, <4>2, <4>3 DEF Settled, MaxGone, Rejected
      <4> QED BY <4>1, <4>3 DEF Stay
    <3> QED BY <3>1, <3>2
  <2> QED BY <2>3, <2>4 DEF Stay
<1>5. ASSUME routine = "filter"
      PROVE  a = [q \in Site |-> IF q \in {t \in Site : Representative(t) \in Removed}
                                   THEN v ELSE f[q]]
  <2>1. a = ByNode(Pruned(Nodes)) /\ Removed = MinGone
    BY <1>3, <1>5 DEF FallInv
  <2>2. \A q \in Site : Pruned(Nodes)[Representative(q)]
                          = IF Representative(q) \in MinGone THEN v ELSE f[q]
    BY <1>1, <1>2 DEF Pruned
  <2> QED BY <2>1, <2>2 DEF ByNode
<1>6. CASE routine \in {"direct", "min", "max"}
  BY <1>4, <1>6 DEF FilteredAsDefined
<1>7. CASE routine = "filter"
  BY <1>5, <1>7 DEF FilteredAsDefined, Changed
<1> QED BY <1>6, <1>7 DEF FallRoutines

-----------------------------------------------------------------------------
(* Downward propagations: propagate_if, and subtractive that begins so.     *)

\* What a node gets from the topmost of the nodes S strictly above it.
TopGiven(S, q) ==
    LET over == (On(q) \ {q}) \cap S IN
    IF over = {} THEN f[q] ELSE IF v = Unset THEN f[Highest(over)] ELSE v
\* The image, once the nodes E are done.
Tops(S, E) == [q \in Site |-> IF q \in E THEN TopGiven(S, q) ELSE f[q]]
\* Where the predicate that is propagated holds.
Source == IF routine = "subtractive" THEN Rejected ELSE Chosen
Under(S) == {q \in Nodes : On(q) \cap S # {}}
\* What subtractive gives to a node.
Subtracted(q) == TopGiven(Rejected, IF q \in pred THEN q ELSE parent[q])
SubtractedOn(E) ==
    [q \in Site |-> IF q \in E THEN Subtracted(q)
                    ELSE IF q \in Nodes THEN TopGiven(Rejected, q) ELSE f[q]]

DownInv ==
    /\ loop = "desc" => Flagged(mark, DoneDown \cap Under(Source)) /\ a = Tops(Source, DoneDown)
    /\ loop = "subtractive" => a = SubtractedOn(DoneUp)
    /\ loop = "representative" /\ routine = "subtractive" => a = SubtractedOn(Nodes)
    /\ loop = "returned" =>
         /\ routine = "desc" => a = Tops(Chosen, Nodes)
         /\ routine = "subtractive" => a = ByNode(SubtractedOn(Nodes))

LEMMA TopGivenFacts ==
    ASSUME IsTree, NEW S, NEW m \in Site
    PROVE  /\ IsRoot(m) \/ On(parent[m]) \cap S = {} => TopGiven(S, m) = f[m]
           /\ ~ IsRoot(m) /\ On(parent[m]) \cap S # {} =>
                TopGiven(S, m) = IF v = Unset THEN TopGiven(S, parent[m]) ELSE v
<1> DEFINE up == parent[m]
<1>1. up \in Site /\ On(up) \in SUBSET Site /\ up \in On(up)
  BY TreeFacts, OnFacts
<1>2. ASSUME IsRoot(m) PROVE TopGiven(S, m) = f[m]
  <2>1. On(m) \ {m} = {}
    BY <1>2, OnFacts
  <2> QED BY <2>1 DEF TopGiven
<1>3. ASSUME ~ IsRoot(m) PROVE On(m) \ {m} = On(up)
  BY <1>3, OnFacts
<1>4. ASSUME ~ IsRoot(m), On(up) \cap S = {} PROVE TopGiven(S, m) = f[m]
  BY <1>3, <1>4 DEF TopGiven
<1>5. ASSUME ~ IsRoot(m), On(up) \cap S # {}
      PROVE  TopGiven(S, m) = IF v = Unset THEN TopGiven(S, up) ELSE v
  <2> DEFINE over == On(up) \cap S
             higher == (On(up) \ {up}) \cap S
  <2>1. TopGiven(S, m) = IF v = Unset THEN f[Highest(over)] ELSE v
    BY <1>3, <1>5 DEF TopGiven
  <2>2. f[Highest(over)] = TopGiven(S, up) \/ v # Unset
    <3>1. over \in SUBSET Site /\ higher \in SUBSET Site
      BY <1>1
    <3>2. CASE higher = {}
      <4>1. up \in over /\ \A r \in over : r = up
        BY <1>5, <3>2
      <4>2. \A r \in over : Rank(s, up) <= Rank(s, r)
        <5>1. Rank(s, up) \in Int
          BY <1>1, TreeFacts
        <5> HIDE DEF over, up
        <5> QED BY <4>1, <5>1
      <4>3. Highest(over) = up
        <5> HIDE DEF over, up
        <5> QED BY <3>1, <4>1, <4>2, HighestIs
      <4> QED BY <3>2, <4>3 DEF TopGiven
    <3>3. CASE higher # {}
      <4>1. /\ Highest(higher) \in higher
            /\ \A r \in higher : Rank(s, Highest(higher)) <= Rank(s, r)
        <5> HIDE DEF higher
        <5> QED BY <3>1, <3>3, HasHighest
      <4>2. \A u \in higher : Rank(s, u) < Rank(s, up)
        BY <1>1, OnFacts
      <4>3. \A r \in over : r \in higher \/ r = up
        OBVIOUS
      <4>4. higher \subseteq over
        OBVIOUS
      <4>5. \A r \in over : Rank(s, Highest(higher)) <= Rank(s, r)
        <5>1. \A r \in over : Rank(s, r) \in Int
          BY <3>1, TreeFacts
        <5> HIDE DEF over, higher, up
        <5> QED BY <4>1, <4>2, <4>3, <4>4, <5>1
      <4>6. Highest(over) = Highest(higher)
        <5> HIDE DEF over, higher, up
        <5> QED BY <3>1, <4>1, <4>4, <4>5, HighestIs
      <4> QED BY <3>3, <4>6 DEF TopGiven
    <3> QED BY <3>2, <3>3
  <2> QED BY <2>1, <2>2
<1> QED BY <1>2, <1>4, <1>5

LEMMA SameGiven ==
    ASSUME UNCHANGED tree_vars, UNCHANGED args
    PROVE  /\ Rejected' = Rejected /\ Chosen' = Chosen /\ Source' = Source
           /\ \A S, q : TopGiven(S, q)' = TopGiven(S, q)
           /\ \A S, E : Tops(S, E)' = Tops(S, E)
           /\ \A S : Under(S)' = Under(S)
           /\ \A E : SubtractedOn(E)' = SubtractedOn(E)
<1>1. /\ f' = f /\ parent' = parent /\ Nodes' = Nodes
      /\ \A q : On(q)' = On(q)
      /\ \A S : Highest(S)' = Highest(S)
      /\ pred' = pred /\ v' = v /\ w' = w /\ routine' = routine
  BY SameTree DEF args
<1>2. Rejected' = Rejected /\ Chosen' = Chosen
  BY <1>1 DEF Rejected, Chosen
<1>3. Source' = Source
  BY <1>1, <1>2 DEF Source
<1>4. \A S, q : TopGiven(S, q)' = TopGiven(S, q)
  BY <1>1 DEF TopGiven
<1>5. \A S, E : Tops(S, E)' = Tops(S, E)
  BY <1>1, <1>4 DEF Tops
<1>6. \A S : Under(S)' = Under(S)
  BY <1>1 DEF Under
<1>7. \A q : Subtracted(q)' = Subtracted(q)
  BY <1>1, <1>2, <1>4 DEF Subtracted
<1>8. \A E : SubtractedOn(E)' = SubtractedOn(E)
  BY <1>1, <1>2, <1>4, <1>7 DEF SubtractedOn
<1> QED BY <1>2, <1>3, <1>4, <1>5, <1>6, <1>8

\* The predicate at a node that no step has changed.
LEMMA ChecksFacts ==
    ASSUME ArgsInv, NEW m \in Nodes, a[m] = f[m]
    PROVE  Checks(m) = (m \in Source) /\ Checks(m) \in BOOLEAN
<1>1. CASE routine = "subtractive"
  <2>1. Checks(m) = (m \notin pred)
    BY <1>1 DEF Checks
  <2> QED BY <1>1, <2>1 DEF Source, Rejected
<1>2. CASE routine # "subtractive" /\ w # Unset
  <2>1. Checks(m) = (a[m] = w)
    BY <1>2 DEF Checks
  <2> QED BY <1>2, <2>1 DEF Source, Chosen
<1>3. CASE routine # "subtractive" /\ w = Unset
  <2>1. Checks(m) = (m \in pred)
    BY <1>3 DEF Checks
  <2> QED BY <1>3, <2>1 DEF Source, Chosen
<1> QED BY <1>1, <1>2, <1>3

LEMMA PropagateDownStep ==
    ASSUME RunsInv, ArgsInv, DownInv, PropagateDown
    PROVE  DownInv'
<1>1. /\ IsTree /\ StoredInv /\ loop # "children" /\ RunInv /\ UNCHANGED tree_vars
      /\ Nodes = {q \in Site : IsNode(q)} /\ Nodes \subseteq Site
  BY OnTree DEF Loops
<1>2. /\ loop = "desc" /\ routine \in {"desc", "subtractive"} /\ UNCHANGED args
      /\ DownTo(IF routine = "subtractive" THEN "subtractive" ELSE "returned")
  BY <1>1 DEF PropagateDown, Same, RunInv
<1>3. Flagged(mark, DoneDown \cap Under(Source)) /\ a = Tops(Source, DoneDown)
  BY <1>2 DEF DownInv
<1>4. /\ Node \in Nodes /\ Node \in Site /\ Node \notin DoneDown /\ Up \in Nodes /\ Up \in Site
      /\ ~ IsRoot(Node) => Up \in DoneDown
      /\ IsRoot(Node) <=> Up = Node
      /\ \/ loop' = loop /\ DoneDown' = DoneDown \cup {Node}
         \/ /\ loop' = IF routine = "subtractive" THEN "subtractive" ELSE "returned"
            /\ Nodes = DoneDown \cup {Node} /\ k' = 1
  BY <1>2, NodeStep DEF Loops, NodeLoops
<1>5. mark[Up] <=> ~ IsRoot(Node) /\ On(Up) \cap Source # {}
  BY <1>3, <1>4 DEF Flagged, Under
<1>6. Node \in Under(Source) <=> Node \in Source \/ mark[Up]
  <2>1. IsRoot(Node) => On(Node) = {Node}
    BY <1>1, <1>4, OnFacts
  <2>2. ~ IsRoot(Node) => On(Node) = {Node} \cup On(Up)
    BY <1>1, <1>4, OnFacts DEF Up
  <2> QED BY <1>4, <1>5, <2>1, <2>2 DEF Under
<1>7. /\ ~ mark[Up] => TopGiven(Source, Node) = f[Node]
      /\ mark[Up] => TopGiven(Source, Node) = IF v = Unset THEN TopGiven(Source, Up) ELSE v
  BY <1>1, <1>4, <1>5, TopGivenFacts DEF Up
<1>8. a[Node] = f[Node] /\ (mark[Up] => a[Up] = TopGiven(Source, Up))
  BY <1>3, <1>4, <1>5 DEF Tops
<1>9. a' = Tops(Source, DoneDown \cup {Node})
  <2>1. CASE mark[Up]
    <3>1. a' = [a EXCEPT ![Node] = TopGiven(Source, Node)]
      BY <1>7, <1>8, <2>1 DEF PropagateDown
    <3> QED BY <1>3, <1>4, <3>1 DEF Tops
  <2>2. CASE ~ mark[Up]
    <3>1. a' = a
      BY <2>2 DEF PropagateDown
    <3>2. \A q \in Site : a[q] = IF q \in DoneDown \cup {Node} THEN TopGiven(Source, q) ELSE f[q]
      BY <1>3, <1>7, <1>8, <2>2 DEF Tops
    <3> QED BY <1>3, <3>1, <3>2 DEF Tops
  <2> QED BY <2>1, <2>2
<1>10. Flagged(mark', (DoneDown \cup {Node}) \cap Under(Source))
  <2> DEFINE S == DoneDown \cap Under(Source)
  <2>1. CASE mark[Up] \/ Node \in Source
    <3>1. mark' = [mark EXCEPT ![Node] = TRUE]
      <4>1. CASE mark[Up]
        BY <4>1 DEF PropagateDown
      <4>2. CASE ~ mark[Up] /\ Node \in Source
        <5>1. Checks(Node) = TRUE
          BY <1>4, <1>8, <4>2, ChecksFacts
        <5> QED BY <4>2, <5>1 DEF PropagateDown
      <4> QED BY <2>1, <4>1, <4>2
    <3>2. Flagged(mark', S \cup {Node})
      BY <1>3, <1>4, <3>1, FlaggedFacts
    <3>3. S \cup {Node} = (DoneDown \cup {Node}) \cap Under(Source)
      BY <1>6, <2>1
    <3> QED BY <3>2, <3>3
  <2>2. CASE ~ mark[Up] /\ Node \notin Source
    <3>1. mark' = [mark EXCEPT ![Node] = FALSE]
      <4>1. Checks(Node) = (Node \in Source)
        BY <1>4, <1>8, ChecksFacts
      <4>2. Checks(Node) = FALSE
        BY <1>4, <1>8, <2>2, <4>1, ChecksFacts
      <4> QED BY <2>2, <4>2 DEF PropagateDown
    <3>2. Flagged(mark', S \ {Node})
      BY <1>3, <1>4, <3>1, FlaggedFacts
    <3>3. S \ {Node} = (DoneDown \cup {Node}) \cap Under(Source)
      BY <1>4, <1>6, <2>2
    <3> QED BY <3>2, <3>3
  <2> QED BY <2>1, <2>2
<1>11. /\ Source' = Source /\ Chosen' = Chosen /\ Nodes' = Nodes /\ routine' = routine
       /\ \A S, E : Tops(S, E)' = Tops(S, E)
       /\ \A S : Under(S)' = Under(S)
       /\ \A E : SubtractedOn(E)' = SubtractedOn(E)
  BY <1>1, <1>2, SameTree, SameGiven DEF args
<1>12. CASE loop' = loop /\ DoneDown' = DoneDown \cup {Node}
  <2>1. Flagged(mark, DoneDown \cap Under(Source))'
    BY <1>10, <1>11, <1>12 DEF Flagged
  <2> QED BY <1>2, <1>9, <1>11, <1>12, <2>1 DEF DownInv
<1>13. CASE /\ loop' = IF routine = "subtractive" THEN "subtractive" ELSE "returned"
            /\ Nodes = DoneDown \cup {Node} /\ k' = 1
  <2>1. CASE routine = "desc"
    <3>1. Source = Chosen
      BY <2>1 DEF Source
    <3> QED BY <1>9, <1>11, <1>13, <2>1, <3>1 DEF DownInv
  <2>2. CASE routine = "subtractive"
    <3>1. Source = Rejected
      BY <2>2 DEF Source
    <3>2. DoneUp' = {}
      BY <1>1, <1>13, DoneNone
    <3>3. a' = SubtractedOn({})
      BY <1>9, <1>13, <3>1 DEF Tops, SubtractedOn
    <3>4. (a = SubtractedOn(DoneUp))'
      BY <1>11, <3>2, <3>3
    <3> QED BY <1>13, <2>2, <3>4 DEF DownInv
  <2> QED BY <1>2, <2>1, <2>2
<1> QED BY <1>4, <1>12, <1>13

LEMMA SubtractStep ==
    ASSUME RunsInv, ArgsInv, DownInv, Subtract
    PROVE  DownInv'
<1>1. UNCHANGED tree_vars /\ RunInv /\ Nodes \subseteq Site
  BY OnTree DEF Loops
<1>2. /\ loop = "subtractive" /\ routine = "subtractive" /\ UNCHANGED args
      /\ UpTo("representative")
      /\ a' = IF Node \in pred THEN a ELSE [a EXCEPT ![Node] = a[Up]]
  BY <1>1 DEF Subtract, Same, RunInv
<1>3. a = SubtractedOn(DoneUp)
  BY <1>2 DEF DownInv
<1>4. /\ Node \in Nodes /\ Node \in Site /\ Node \notin DoneUp
      /\ Up \in Nodes /\ Up \in Site /\ Up \notin DoneUp
      /\ \/ loop' = loop /\ DoneUp' = DoneUp \cup {Node}
         \/ loop' = "representative" /\ Nodes = DoneUp \cup {Node}
  BY <1>2, NodeStep DEF Loops, NodeLoops
<1>5. a[Node] = TopGiven(Rejected, Node) /\ a[Up] = TopGiven(Rejected, Up)
  BY <1>3, <1>4 DEF SubtractedOn
<1>6. Subtracted(Node) = IF Node \in pred THEN a[Node] ELSE a[Up]
  BY <1>5 DEF Subtracted, Up
<1>7. a' = [a EXCEPT ![Node] = Subtracted(Node)]
  BY <1>2, <1>3, <1>4, <1>6 DEF SubtractedOn
<1>8. a' = SubtractedOn(DoneUp \cup {Node})
  BY <1>3, <1>4, <1>7 DEF SubtractedOn
<1>9. Nodes' = Nodes /\ routine' = routine /\ \A E : SubtractedOn(E)' = SubtractedOn(E)
  BY <1>1, <1>2, SameTree, SameGiven DEF args
<1> QED BY <1>2, <1>4, <1>8, <1>9 DEF DownInv

LEMMA DownStutter ==
    ASSUME RunsInv, DownInv, UNCHANGED <<vars, data_vars, call_vars>>
    PROVE  DownInv'
<1>1. UNCHANGED tree_vars /\ UNCHANGED args /\ UNCHANGED <<loop, k, mark, a, routine>>
  BY DEF tree_vars, data_vars, call_vars, args
<1>2. /\ Source' = Source /\ Chosen' = Chosen /\ Nodes' = Nodes
      /\ \A S, E : Tops(S, E)' = Tops(S, E)
      /\ \A S : Under(S)' = Under(S)
      /\ \A E : SubtractedOn(E)' = SubtractedOn(E)
      /\ \A b : ByNode(b)' = ByNode(b)
  BY <1>1, SameTree, SameGiven
<1>3. DoneDown' = DoneDown /\ DoneUp' = DoneUp
  BY <1>1, SameTree DEF DoneDown, DoneUp, Node
<1>4. \A S : Flagged(mark, S)' <=> Flagged(mark, S)
  BY <1>1 DEF Flagged
<1> QED BY <1>1, <1>2, <1>3, <1>4 DEF DownInv

LEMMA DownCall ==
    ASSUME RunsInv, Calls
    PROVE  DownInv'
<1>1. /\ IsTree /\ StoredInv /\ loop # "children" /\ UNCHANGED tree_vars
      /\ f = [q \in Site |-> f[q]]
  BY OnTree
<1>2. CASE loop' = "desc"
  <2>1. k' = Len(nodes) /\ a' = f /\ mark' = [q \in Site |-> FALSE]
    BY <1>2 DEF Calls, CallFilter, CallPropagateIf, CallPropagateIfValue, CallDescendants,
       CallAncestors, CallAttribute, Call, Marks
  <2>2. DoneDown' = {} /\ f' = f
    BY <1>1, <2>1, DoneNone, SameTree
  <2>3. (a = Tops(Source, DoneDown))'
    BY <1>1, <2>1, <2>2 DEF Tops
  <2>4. Flagged(mark', {}) /\ (DoneDown \cap Under(Source))' = {}
    BY <2>1, <2>2, FlaggedAll
  <2>5. Flagged(mark, DoneDown \cap Under(Source))'
    BY <2>4 DEF Flagged
  <2> QED BY <1>2, <2>3, <2>5 DEF DownInv
<1>3. CASE loop' # "desc"
  <2>1. /\ loop' \notin {"subtractive", "representative"}
        /\ loop' = "returned" => routine' = "ancestors"
    BY <1>3 DEF Calls, CallFilter, CallPropagateIf, CallPropagateIfValue, CallDescendants,
       CallAncestors, CallAttribute, Call
  <2> QED BY <1>3, <2>1 DEF DownInv
<1> QED BY <1>2, <1>3

LEMMA DownRepresentative ==
    ASSUME RunsInv, ArgsInv, DownInv, PropagateRepresentative
    PROVE  DownInv'
<1>1. UNCHANGED tree_vars
  BY OnTree DEF Loops
<1>2. /\ loop = "representative" /\ loop' = "returned" /\ UNCHANGED args
      /\ routine \in Filters /\ a' = ByNode(a)
  BY LoopsLead DEF PropagateRepresentative, ByNode, Loops
<1>3. /\ Nodes' = Nodes /\ routine' = routine
      /\ \A b : ByNode(b)' = ByNode(b)
      /\ \A E : SubtractedOn(E)' = SubtractedOn(E)
  BY <1>1, <1>2, SameTree, SameGiven DEF args
<1>4. routine = "subtractive" => a = SubtractedOn(Nodes)
  BY <1>2 DEF DownInv
<1> QED BY <1>2, <1>3, <1>4 DEF DownInv, Filters

LEMMA DownInvStep ==
    ASSUME RunsInv, ArgsInv, DownInv, FiltersNext
    PROVE  DownInv'
<1>1. CASE loop = "children"
  BY <1>1, StoringLeads DEF DownInv
<1>2. CASE loop # "children" /\ UNCHANGED <<vars, data_vars, call_vars>>
  BY <1>2, DownStutter
<1>3. CASE Calls
  BY <1>3, DownCall
<1>4. CASE Loops
  <2>1. CASE PropagateDown \/ Subtract \/ PropagateRepresentative
    BY <2>1, PropagateDownStep, SubtractStep, DownRepresentative
  <2>2. CASE ~ (PropagateDown \/ Subtract \/ PropagateRepresentative)
    <3>1. /\ loop' \notin {"desc", "subtractive"}
          /\ routine' \notin {"desc", "subtractive"}
      BY <1>4, <2>2, LoopsLead DEF Loops, args
    <3> QED BY <3>1 DEF DownInv
  <2> QED BY <2>1, <2>2
<1> QED BY <1>1, <1>2, <1>3, <1>4, CalledStep

LEMMA DownReturns ==
    ASSUME RunsInv, ArgsInv, DownInv, loop = "returned", routine \in {"desc", "subtractive"}
    PROVE  FilteredAsDefined
<1>1. IsTree /\ StoredInv /\ Nodes = {q \in Site : IsNode(q)}
  BY CalledFacts, StoredFacts
<1>2. \A q \in Site : /\ Representative(q) \in Nodes /\ parent[Representative(q)] \in Nodes
                      /\ q \in Nodes => Representative(q) = q
  BY <1>1, RepresentativeFacts, TreeFacts
<1>3. \A S : \A q \in Nodes : FromTop(S, q) = TopGiven(S, q)
  <2> SUFFICES ASSUME NEW S, NEW q \in Nodes PROVE FromTop(S, q) = TopGiven(S, q)
    OBVIOUS
  <2>1. q \in Site /\ Representative(q) = q
    BY <1>1, <1>2
  <2>2. Above(q) = On(q) \ {q}
    BY <1>1, <2>1, WayIsOn DEF Above
  <2> QED BY <2>2 DEF FromTop, TopGiven
<1>4. ASSUME routine = "desc"
      PROVE  a = [q \in Site |-> IF q \in Nodes THEN FromTop(Chosen, q) ELSE f[q]]
  BY <1>3, <1>4 DEF DownInv, Tops
<1>5. ASSUME routine = "subtractive"
      PROVE  a = [q \in Site |-> FromTop(Rejected, IF Representative(q) \in pred
                                                     THEN Representative(q)
                                                     ELSE parent[Representative(q)])]
  <2>1. a = ByNode(SubtractedOn(Nodes))
    BY <1>5 DEF DownInv
  <2>2. \A q \in Site : SubtractedOn(Nodes)[Representative(q)] = Subtracted(Representative(q))
    BY <1>1, <1>2 DEF SubtractedOn
  <2>3. \A q \in Site : Subtracted(Representative(q))
                          = FromTop(Rejected, IF Representative(q) \in pred
                                                THEN Representative(q)
                                                ELSE parent[Representative(q)])
    BY <1>2, <1>3 DEF Subtracted
  <2> QED BY <2>1, <2>2, <2>3 DEF ByNode
<1>6. CASE routine = "desc"
  BY <1>4, <1>6 DEF FilteredAsDefined, Changed
<1>7. ASSUME routine = "subtractive", NEW q \in Site, Settled(q)
      PROVE  a[q] = IF Way(q) \cap Rejected = {} THEN f[q]
                    ELSE IF Representative(q) \in Way(q) \cap Rejected
                      THEN f[parent[Representative(q)]]
                    ELSE f[Highest(Way(q) \cap Rejected)]
  <2> DEFINE m == Representative(q)
             over == Way(q) \cap Rejected
  <2>1. /\ m \in Site /\ m \in Nodes /\ parent[m] \in Site /\ parent[m] \in Nodes
        /\ f[m] = f[q] /\ v = Unset
    BY <1>1, <1>2, <1>7, RepresentativeFacts, TreeFacts DEF ArgsInv
  <2>2. /\ Way(q) = On(m) /\ m \in On(m)
        /\ Above(m) = On(m) \ {m} /\ Above(parent[m]) = On(parent[m]) \ {parent[m]}
    BY <1>1, <1>2, <2>1, WayIsOn, OnFacts DEF Above
  <2>3. CASE m \in pred
    <3>1. Above(m) \cap Rejected = over /\ m \notin over
      BY <2>2, <2>3 DEF Rejected
    <3>2. a[q] = FromTop(Rejected, m)
      BY <1>5, <1>7, <2>3
    <3> QED BY <2>1, <3>1, <3>2 DEF FromTop
  <2>4. CASE m \notin pred
    <3>1. m \in over
      BY <2>1, <2>2, <2>4 DEF Rejected
    <3>2. \A t \in over : t = m
      BY <1>7, <3>1 DEF Settled
    <3>3. \A t \in Above(parent[m]) : t \in On(m) /\ t # m
      <4>1. CASE IsRoot(m)
        BY <2>2, <4>1, OnFacts, <2>1, <1>1 DEF IsRoot
      <4>2. CASE ~ IsRoot(m)
        BY <2>2, <4>2, OnFacts, <2>1, <1>1
      <4> QED BY <4>1, <4>2
    <3>4. Above(parent[m]) \cap Rejected = {}
      BY <2>2, <3>2, <3>3
    <3>5. a[q] = FromTop(Rejected, parent[m])
      BY <1>5, <1>7, <2>4
    <3> QED BY <3>1, <3>4, <3>5 DEF FromTop
  <2> QED BY <2>3, <2>4
<1>8. CASE routine = "subtractive"
  BY <1>7, <1>8 DEF FilteredAsDefined
<1> QED BY <1>6, <1>8

-----------------------------------------------------------------------------
(* Upward propagation: propagate_if.                                        *)

Risers(E) == {parent[c] : c \in E \cap HitBy(Chosen)}
Risen(E) ==
    [q \in Site |-> IF q \in E /\ Child(q) \cap HitBy(Chosen) # {} THEN v ELSE f[q]]

UpInv ==
    /\ loop = "asc" => Flagged(mark, Risers(DoneUp)) /\ a = Risen(DoneUp)
    /\ loop = "returned" /\ routine = "asc" => a = Risen(Nodes)

LEMMA ChosenFacts ==
    ASSUME ArgsInv, routine # "subtractive"
    PROVE  Chosen \subseteq Nodes /\ Source = Chosen
BY DEF ArgsInv, Chosen, Source

LEMMA SameRisen ==
    ASSUME UNCHANGED tree_vars, UNCHANGED args
    PROVE  /\ \A E : Risers(E)' = Risers(E)
           /\ \A E : Risen(E)' = Risen(E)
<1>1. /\ f' = f /\ parent' = parent /\ Nodes' = Nodes /\ Chosen' = Chosen /\ v' = v
      /\ \A q : On(q)' = On(q)
      /\ \A q : Child(q)' = Child(q)
  BY SameTree, SameGiven DEF args
<1>2. HitBy(Chosen)' = HitBy(Chosen)
  BY <1>1 DEF HitBy
<1> QED BY <1>1, <1>2 DEF Risers, Risen

LEMMA PropagateUpStep ==
    ASSUME RunsInv, ArgsInv, UpInv, PropagateUp
    PROVE  UpInv'
<1>1. /\ IsTree /\ StoredInv /\ RunInv /\ UNCHANGED tree_vars
      /\ Nodes = {q \in Site : IsNode(q)} /\ Nodes \subseteq Site
  BY OnTree DEF Loops
<1>2. /\ loop = "asc" /\ routine = "asc" /\ UNCHANGED args /\ UpTo("returned")
      /\ a' = IF mark[Node] THEN [a EXCEPT ![Node] = v] ELSE a
      /\ mark' = IF mark[Node] \/ Checks(Node) THEN [mark EXCEPT ![Up] = TRUE] ELSE mark
  BY <1>1 DEF PropagateUp, Same, RunInv
<1>3. Flagged(mark, Risers(DoneUp)) /\ a = Risen(DoneUp)
  BY <1>2 DEF UpInv
<1>4. /\ Node \in Nodes /\ Node \in Site /\ Node \notin DoneUp
      /\ Up \in Nodes /\ Up \in Site
      /\ Child(Node) \subseteq DoneUp /\ DoneUp \subseteq Nodes
      /\ \/ loop' = loop /\ DoneUp' = DoneUp \cup {Node}
         \/ loop' = "returned" /\ Nodes = DoneUp \cup {Node}
  BY <1>2, NodeStep DEF Loops, NodeLoops
<1>5. mark[Node] <=> Child(Node) \cap HitBy(Chosen) # {}
  <2>1. \A c \in DoneUp : parent[c] = Node <=> c \in Child(Node)
    BY <1>1, <1>4 DEF Child
  <2> QED BY <1>3, <1>4, <2>1 DEF Flagged, Risers
<1>6. Node \in HitBy(Chosen) <=> mark[Node] \/ Checks(Node)
  <2>1. Chosen \subseteq Nodes /\ Source = Chosen
    BY <1>2, ChosenFacts
  <2>2. a[Node] = f[Node]
    BY <1>3, <1>4 DEF Risen
  <2>3. Checks(Node) <=> Node \in Chosen
    BY <1>4, <2>1, <2>2, ChecksFacts
  <2>4. Node \in HitBy(Chosen) <=> Node \in Chosen \/ Child(Node) \cap HitBy(Chosen) # {}
    BY <1>1, <1>4, <2>1, HitFacts
  <2> QED BY <1>5, <2>3, <2>4
<1>7. a' = Risen(DoneUp \cup {Node})
  <2>1. CASE mark[Node]
    <3>1. a' = [a EXCEPT ![Node] = v]
      BY <1>2, <2>1
    <3> QED BY <1>3, <1>4, <1>5, <2>1, <3>1 DEF Risen
  <2>2. CASE ~ mark[Node]
    <3>1. a' = a
      BY <1>2, <2>2
    <3>2. \A q \in Site : q \in DoneUp /\ Child(q) \cap HitBy(Chosen) # {}
                            <=> q \in DoneUp \cup {Node} /\ Child(q) \cap HitBy(Chosen) # {}
      BY <1>5, <2>2
    <3> QED BY <1>3, <3>1, <3>2 DEF Risen
  <2> QED BY <2>1, <2>2
<1>8. Flagged(mark', Risers(DoneUp \cup {Node}))
  <2>1. CASE Node \in HitBy(Chosen)
    <3>1. mark' = [mark EXCEPT ![Up] = TRUE]
      BY <1>2, <1>6, <2>1
    <3>2. Flagged(mark', Risers(DoneUp) \cup {Up})
      BY <1>3, <1>4, <3>1, FlaggedFacts
    <3>3. Risers(DoneUp) \cup {Up} = Risers(DoneUp \cup {Node})
      BY <2>1 DEF Risers, Up
    <3> QED BY <3>2, <3>3
  <2>2. CASE Node \notin HitBy(Chosen)
    <3>1. mark' = mark
      BY <1>2, <1>6, <2>2
    <3>2. (DoneUp \cup {Node}) \cap HitBy(Chosen) = DoneUp \cap HitBy(Chosen)
      BY <2>2
    <3> QED BY <1>3, <3>1, <3>2 DEF Risers
  <2> QED BY <2>1, <2>2
<1>9. /\ Nodes' = Nodes /\ routine' = routine
      /\ \A E : Risers(E)' = Risers(E)
      /\ \A E : Risen(E)' = Risen(E)
  BY <1>1, <1>2, SameTree, SameRisen DEF args
<1>10. CASE loop' = loop /\ DoneUp' = DoneUp \cup {Node}
  <2>1. Flagged(mark, Risers(DoneUp))'
    BY <1>8, <1>9, <1>10 DEF Flagged
  <2> QED BY <1>2, <1>7, <1>9, <1>10, <2>1 DEF UpInv
<1>11. CASE loop' = "returned" /\ Nodes = DoneUp \cup {Node}
  BY <1>2, <1>7, <1>9, <1>11 DEF UpInv
<1> QED BY <1>4, <1>10, <1>11

LEMMA UpCall ==
    ASSUME RunsInv, Calls
    PROVE  UpInv'
<1>1. /\ IsTree /\ StoredInv /\ loop # "children" /\ UNCHANGED tree_vars
      /\ f = [q \in Site |-> f[q]]
  BY OnTree
<1>2. CASE loop' = "asc"
  <2>1. k' = 1 /\ a' = f /\ mark' = [q \in Site |-> FALSE]
    BY <1>2 DEF Calls, CallFilter, CallPropagateIf, CallPropagateIfValue, CallDescendants,
       CallAncestors, CallAttribute, Call, Marks
  <2>2. DoneUp' = {} /\ f' = f
    BY <1>1, <2>1, DoneNone, SameTree
  <2>3. (a = Risen(DoneUp))'
    BY <1>1, <2>1, <2>2 DEF Risen
  <2>4. Flagged(mark', {}) /\ Risers(DoneUp)' = {}
    BY <2>1, <2>2, FlaggedAll DEF Risers
  <2>5. Flagged(mark, Risers(DoneUp))'
    BY <2>4 DEF Flagged
  <2> QED BY <1>2, <2>3, <2>5 DEF UpInv
<1>3. CASE loop' # "asc"
  <2>1. loop' = "returned" => routine' = "ancestors"
    BY <1>3 DEF Calls, CallFilter, CallPropagateIf, CallPropagateIfValue, CallDescendants,
       CallAncestors, CallAttribute, Call
  <2> QED BY <1>3, <2>1 DEF UpInv
<1> QED BY <1>2, <1>3

LEMMA UpInvStep ==
    ASSUME RunsInv, ArgsInv, UpInv, FiltersNext
    PROVE  UpInv'
<1>1. CASE loop = "children"
  BY <1>1, StoringLeads DEF UpInv
<1>2. CASE loop # "children" /\ UNCHANGED <<vars, data_vars, call_vars>>
  <2>1. UNCHANGED tree_vars /\ UNCHANGED args /\ UNCHANGED <<loop, k, mark, a, routine>>
    BY <1>2 DEF tree_vars, data_vars, call_vars, args
  <2>2. /\ Nodes' = Nodes
        /\ \A E : Risers(E)' = Risers(E)
        /\ \A E : Risen(E)' = Risen(E)
    BY <2>1, SameTree, SameRisen
  <2>3. DoneUp' = DoneUp
    BY <2>1, SameTree DEF DoneUp, Node
  <2>4. \A S : Flagged(mark, S)' <=> Flagged(mark, S)
    BY <2>1 DEF Flagged
  <2> QED BY <2>1, <2>2, <2>3, <2>4 DEF UpInv
<1>3. CASE Calls
  BY <1>3, UpCall
<1>4. CASE Loops /\ ~ PropagateUp
  <2>1. loop' # "asc" /\ routine' # "asc"
    BY <1>4, LoopsLead DEF Loops, args, Filters
  <2> QED BY <2>1 DEF UpInv
<1> QED BY <1>1, <1>2, <1>3, <1>4, PropagateUpStep, CalledStep

LEMMA UpReturns ==
    ASSUME RunsInv, ArgsInv, UpInv, loop = "returned", routine = "asc"
    PROVE  FilteredAsDefined
<1>1. IsTree /\ StoredInv /\ Nodes = {q \in Site : IsNode(q)} /\ Chosen \subseteq Nodes
  BY CalledFacts, StoredFacts, ChosenFacts
<1>2. ASSUME NEW r \in Chosen PROVE Above(r) = On(r) \ {r} /\ Above(r) \subseteq Nodes
  <2>1. r \in Site /\ IsNode(r) /\ Representative(r) = r
    BY <1>1, RepresentativeFacts
  <2>2. \A q \in On(r) : q \in Nodes
    BY <1>1, <2>1, OnFacts
  <2> QED BY <1>1, <2>1, <2>2, WayIsOn DEF Above
<1> DEFINE A == UNION {Above(q) : q \in Chosen}
<1>3. \A q \in Nodes : q \in A <=> Child(q) \cap HitBy(Chosen) # {}
  <2> SUFFICES ASSUME NEW q \in Nodes PROVE q \in A <=> Child(q) \cap HitBy(Chosen) # {}
    OBVIOUS
  <2>1. q \in A <=> \E r \in Chosen : q \in On(r) \ {r}
    BY <1>2
  <2>2. (\E r \in Chosen : q \in On(r) \ {r}) <=> Child(q) \cap HitBy(Chosen) # {}
    BY <1>1, HitFacts
  <2> QED BY <2>1, <2>2
<1>4. A \subseteq Nodes
  BY <1>2
<1>5. a = Risen(Nodes)
  BY DEF UpInv
<1>6. \A q \in Site : q \in Nodes /\ Child(q) \cap HitBy(Chosen) # {} <=> q \in A
  <2> HIDE DEF A
  <2> QED BY <1>3, <1>4
<1>7. a = [q \in Site |-> IF q \in A THEN v ELSE f[q]]
  <2> HIDE DEF A
  <2> QED BY <1>5, <1>6 DEF Risen
<1> QED BY <1>7 DEF FilteredAsDefined, Changed

-----------------------------------------------------------------------------
(* propagate_node_to_ancestors.                                             *)

Over(q) == On(q) \ {q}
Put(E) == [q \in Site |-> IF q \in E THEN v ELSE f[q]]

ClimbInv ==
    /\ loop = "ancestors" =>
         /\ target \in Nodes /\ at \in On(target) /\ ~ IsRoot(at)
         /\ a = Put(Over(target) \ Over(at))
    /\ loop = "returned" /\ routine = "ancestors" =>
         target \in Nodes /\ a = Put(Over(target))

LEMMA SamePut ==
    ASSUME UNCHANGED tree_vars, v' = v
    PROVE  /\ \A q : Over(q)' = Over(q)
           /\ \A E : Put(E)' = Put(E)
<1>1. f' = f /\ \A q : On(q)' = On(q)
  BY SameTree
<1> QED BY <1>1 DEF Over, Put

LEMMA ClimbStep ==
    ASSUME RunsInv, ClimbInv, PropagateAncestors
    PROVE  ClimbInv'
<1>1. /\ IsTree /\ UNCHANGED tree_vars
      /\ Nodes = {q \in Site : IsNode(q)} /\ Nodes \subseteq Site
  BY OnTree DEF Loops
<1>2. /\ loop = "ancestors" /\ routine = "ancestors" /\ UNCHANGED args
      /\ at' = parent[at] /\ a' = [a EXCEPT ![at'] = v]
      /\ loop' = IF IsRoot(at') THEN "returned" ELSE loop
  BY LoopsLead DEF PropagateAncestors, Loops
<1>3. /\ target \in Nodes /\ at \in On(target) /\ ~ IsRoot(at)
      /\ a = Put(Over(target) \ Over(at))
  BY <1>2 DEF ClimbInv
<1> DEFINE up == parent[at]
<1>4. /\ target \in Site /\ at \in Site /\ up \in Site
      /\ On(at) = {at} \cup On(up) /\ at \notin On(up) /\ up \in On(up)
  BY <1>1, <1>3, OnFacts, TreeFacts
<1>5. up \in On(target) /\ up # target
  <2>1. Rank(s, up) < Rank(s, at)
    BY <1>1, <1>3, <1>4, TreeFacts DEF IsRoot
  <2>2. at = target \/ Rank(s, at) < Rank(s, target)
    BY <1>3, <1>4, <1>1, OnFacts
  <2>3. Rank(s, up) \in Int /\ Rank(s, at) \in Int /\ Rank(s, target) \in Int
    BY <1>4, <1>1, TreeFacts
  <2>4. up \in On(target)
    BY <1>1, <1>3, <1>4, OnFacts
  <2>5. up # target
    <3> HIDE DEF up
    <3> QED BY <2>1, <2>2, <2>3
  <2> QED BY <2>4, <2>5
<1>6. Over(target) \ Over(up) = (Over(target) \ Over(at)) \cup {up}
  BY <1>3, <1>4, <1>5 DEF Over
<1>7. a' = Put(Over(target) \ Over(up))
  <2>1. a' = [a EXCEPT ![up] = v]
    BY <1>2
  <2> HIDE DEF up
  <2>2. a' = Put((Over(target) \ Over(at)) \cup {up})
    BY <1>3, <1>4, <2>1 DEF Put
  <2> QED BY <1>6, <2>2
<1>8. IsRoot(up) => Over(up) = {}
  BY <1>1, <1>4, OnFacts DEF Over
<1>9. /\ target' = target /\ routine' = routine /\ Nodes' = Nodes
      /\ \A q : On(q)' = On(q)
      /\ \A q : Over(q)' = Over(q)
      /\ \A q : IsRoot(q)' <=> IsRoot(q)
      /\ \A E : Put(E)' = Put(E)
  BY <1>1, <1>2, SameTree, SamePut DEF args
<1>10. at' = up
  BY <1>2
<1>11. CASE IsRoot(up)
  <2>1. loop' = "returned"
    BY <1>2, <1>9, <1>10, <1>11
  <2>2. a' = Put(Over(target))
    BY <1>7, <1>8, <1>11
  <2> QED BY <1>2, <1>3, <1>9, <2>1, <2>2 DEF ClimbInv
<1>12. CASE ~ IsRoot(up)
  <2>1. loop' = "ancestors"
    BY <1>2, <1>9, <1>10, <1>12
  <2>2. at' \in On(target)' /\ (~ IsRoot(at))' /\ (a = Put(Over(target) \ Over(at)))'
    <3> HIDE DEF up
    <3>1. \A t : t = up => IsRoot(t)' <=> IsRoot(t)
      BY <1>9
    <3>2. IsRoot(at)' <=> IsRoot(up)
      BY <1>9, <1>10 DEF IsRoot
    <3> QED BY <1>5, <1>7, <1>9, <1>10, <1>12, <3>2
  <2> QED BY <1>3, <1>9, <2>1, <2>2 DEF ClimbInv
<1> QED BY <1>11, <1>12

LEMMA ClimbCall ==
    ASSUME RunsInv, Calls
    PROVE  ClimbInv'
<1>1. /\ IsTree /\ StoredInv /\ loop # "children" /\ UNCHANGED tree_vars
      /\ Nodes = {q \in Site : IsNode(q)} /\ Nodes \subseteq Site
      /\ f = [q \in Site |-> f[q]]
  BY OnTree
<1>2. CASE CallAncestors
  <2>1. PICK q \in Site :
          /\ Call("ancestors", IF IsRoot(Representative(q)) THEN "returned" ELSE "ancestors", 1)
          /\ target' = Representative(q) /\ at' = target'
    BY <1>2 DEF CallAncestors
  <2>2. Representative(q) \in Nodes
    BY <1>1, <2>1, RepresentativeFacts
  <2>3. PICK m \in Nodes : m = Representative(q)
    BY <2>2
  <2>4. /\ a' = f /\ target' = m /\ at' = m
        /\ loop' = IF IsRoot(m) THEN "returned" ELSE "ancestors"
    BY <2>1, <2>3 DEF Call
  <2>5. m \in On(m) /\ (IsRoot(m) => Over(m) = {})
    BY <1>1, OnFacts DEF Over
  <2>6. f' = f /\ Nodes' = Nodes
        /\ (\A t : On(t)' = On(t)) /\ (\A t : IsRoot(t)' <=> IsRoot(t))
    BY <1>1, SameTree
  <2>7. (a = Put({}))'
    BY <1>1, <2>4, <2>6 DEF Put
  <2>8. (Over(target) \ Over(at))' = {} /\ (On(target))' = On(m)
        /\ (IsRoot(m) => Over(target)' = {}) /\ (IsRoot(at)' <=> IsRoot(m))
    <3>1. On(target)' = On(m) /\ On(at)' = On(m)
      BY <2>4, <2>6 DEF On, Sub, Downward
    <3>2. IsRoot(at)' <=> IsRoot(m)
      BY <2>4, <2>6 DEF IsRoot
    <3> QED BY <2>4, <2>5, <3>1, <3>2 DEF Over
  <2> QED BY <2>4, <2>5, <2>6, <2>7, <2>8 DEF ClimbInv
<1>3. CASE ~ CallAncestors
  <2>1. loop' \notin {"ancestors", "returned"}
    BY <1>3 DEF Calls, CallFilter, CallPropagateIf, CallPropagateIfValue, CallDescendants,
       CallAttribute, Call
  <2> QED BY <2>1 DEF ClimbInv
<1> QED BY <1>2, <1>3

LEMMA ClimbInvStep ==
    ASSUME RunsInv, ClimbInv, FiltersNext
    PROVE  ClimbInv'
<1>1. CASE loop = "children"
  BY <1>1, StoringLeads DEF ClimbInv
<1>2. CASE loop # "children" /\ UNCHANGED <<vars, data_vars, call_vars>>
  <2>1. UNCHANGED tree_vars /\ UNCHANGED <<loop, a, at, routine, target, v>>
    BY <1>2 DEF tree_vars, data_vars, call_vars, args
  <2>2. /\ Nodes' = Nodes
        /\ \A q : On(q)' = On(q)
        /\ \A q : Over(q)' = Over(q)
        /\ \A q : IsRoot(q)' <=> IsRoot(q)
        /\ \A E : Put(E)' = Put(E)
    BY <2>1, SameTree, SamePut
  <2>3. IsRoot(at)' <=> IsRoot(at)
    BY <2>1 DEF IsRoot, tree_vars, vars
  <2> QED BY <2>1, <2>2, <2>3 DEF ClimbInv
<1>3. CASE Calls
  BY <1>3, ClimbCall
<1>4. CASE Loops /\ ~ PropagateAncestors
  <2>1. loop' # "ancestors" /\ routine' # "ancestors"
    BY <1>4, LoopsLead DEF Loops, args, Filters
  <2> QED BY <2>1 DEF ClimbInv
<1> QED BY <1>1, <1>2, <1>3, <1>4, ClimbStep, CalledStep

LEMMA ClimbReturns ==
    ASSUME RunsInv, ClimbInv, loop = "returned", routine = "ancestors"
    PROVE  FilteredAsDefined
<1>1. target \in Nodes /\ a = Put(Over(target))
  BY DEF ClimbInv
<1>2. IsTree /\ target \in Site /\ Representative(target) = target
  BY <1>1, CalledFacts, StoredFacts, RepresentativeFacts
<1>3. Above(target) = Over(target)
  BY <1>2, WayIsOn DEF Above, Over
<1>4. a = [q \in Site |-> IF q \in Above(target) THEN v ELSE f[q]]
  BY <1>1, <1>3 DEF Put
<1> QED BY <1>4 DEF FilteredAsDefined, Changed

-----------------------------------------------------------------------------
(* propagate_node_to_descendants.                                           *)

\* The nodes strictly below t.
Inner(t) == {q \in Nodes : t \in Over(q)}
\* The nodes that wait: those at or below an element of the stack.
Pending(st) == {q \in Nodes : \E j \in 2..Len(st) : st[j] \in On(q)}
LeavesIn(E) == {q \in E : Child(q) = {}}
\* The sentinel is at the bottom; no two of the nodes above it share a site.
StackInv(st) ==
    /\ st \in Seq(Int) /\ Len(st) >= 1 /\ st[1] = Unset
    /\ \A j \in 2..Len(st) : st[j] \in Nodes
    /\ \A j, l \in 2..Len(st) : \A q \in Nodes :
         st[j] \in On(q) /\ st[l] \in On(q) => j = l

VisitInv ==
    /\ loop = "descendants" =>
         /\ target \in Nodes /\ StackInv(stack) /\ Pending(stack) \subseteq Inner(target)
         /\ a = Put(Inner(target) \ Pending(stack))
         /\ nb_leaves = Cardinality(LeavesIn(({target} \cup Inner(target)) \ Pending(stack)))
    /\ loop = "returned" /\ routine = "descendants" =>
         /\ target \in Nodes
         /\ a = Put(Inner(target))
         /\ nb_leaves = Cardinality(LeavesIn({target} \cup Inner(target)))

LEMMA InnerFacts ==
    ASSUME IsTree, Nodes = {q \in Site : IsNode(q)}, NEW t \in Nodes
    PROVE  /\ t \notin Inner(t) /\ t \in Site
           /\ \A q \in Nodes : t \in On(q) <=> q \in {t} \cup Inner(t)
           /\ \A q \in Nodes : q \in Inner(t) <=> \E c \in Child(t) : c \in On(q)
           /\ \A c, d \in Child(t) : \A q \in Nodes : c \in On(q) /\ d \in On(q) => c = d
<1>1. t \in Site /\ t \in On(t) /\ Child(t) \subseteq Nodes
  BY OnFacts DEF Child
<1>2. t \notin Inner(t)
  BY DEF Inner, Over
<1>3. \A q \in Nodes : t \in On(q) <=> q \in {t} \cup Inner(t)
  BY <1>1 DEF Inner, Over
<1>4. ASSUME NEW q \in Nodes
      PROVE  q \in Inner(t) <=> \E c \in Child(t) : c \in On(q)
  <2>1. (\E r \in {q} : t \in On(r) \ {r}) <=> Child(t) \cap HitBy({q}) # {}
    <3>1. {q} \subseteq Nodes
      OBVIOUS
    <3> QED BY <3>1, HitFacts
  <2> QED BY <1>1, <2>1 DEF Inner, Over, HitBy
<1>5. ASSUME NEW c \in Child(t), NEW d \in Site, parent[d] = t, c # d PROVE c \notin On(d)
  <2>1. c \in Site /\ parent[c] = t /\ c # t /\ d \in Site
    BY <1>5 DEF Child
  <2>2. Rank(s, t) < Rank(s, c) /\ Rank(s, c) \in Int /\ Rank(s, t) \in Int
    BY <2>1, TreeFacts
  <2>3. c \notin On(t)
    BY <1>1, <2>1, <2>2, OnFacts
  <2>4. On(d) \subseteq {d} \cup On(t)
    BY <1>1, <1>5, <2>1, OnFacts DEF IsRoot
  <2> QED BY <1>5, <2>3, <2>4
<1>6. ASSUME NEW c \in Child(t), NEW d \in Child(t), NEW q \in Nodes, c \in On(q), d \in On(q)
      PROVE  c = d
  <2>1. c \in Site /\ d \in Site /\ parent[c] = t /\ parent[d] = t
    BY DEF Child
  <2>2. q \in Sub(c) /\ q \in Sub(d)
    BY <1>6 DEF On
  <2>3. c \in Sub(d) \/ d \in Sub(c)
    BY <2>1, <2>2, SubLinear
  <2>4. d \in On(c) \/ c \in On(d)
    BY <2>1, <2>3 DEF On
  <2> QED BY <1>5, <2>1, <2>4
<1> QED BY <1>1, <1>2, <1>3, <1>4, <1>6

\* The children of t are pushed instead of t.
LEMMA PushFacts ==
    ASSUME IsTree, StoredInv, loop # "children", NEW t \in Nodes,
           NEW st, StackInv(st), \A q \in Nodes : t \in On(q) => q \notin Pending(st)
    PROVE  /\ StackInv(st \o children[t])
           /\ Pending(st \o children[t]) = Pending(st) \cup Inner(t)
<1>1. Nodes = {q \in Site : IsNode(q)} /\ Nodes \subseteq Site
  BY StoredFacts
<1> DEFINE cs == children[t]
           new == st \o cs
<1>2. /\ t \in Site /\ cs \in Seq(Site) /\ cs \in Seq(Int)
      /\ \A j \in 1..Len(cs) : cs[j] \in Child(t)
      /\ \A c \in Child(t) : \E j \in 1..Len(cs) : cs[j] = c
      /\ \A j, l \in 1..Len(cs) : cs[j] = cs[l] => j = l
  <2>1. t \in Site /\ cs \in Seq(Site) /\ IsInjective(cs) /\ ToSet(cs) = Child(t)
    BY <1>1, StoredFacts
  <2>2. \A j \in 1..Len(cs) : cs[j] \in ToSet(cs)
    BY <2>1 DEF ToSet
  <2>3. \A c \in ToSet(cs) : \E j \in 1..Len(cs) : cs[j] = c
    BY <2>1 DEF ToSet
  <2>4. \A j, l \in 1..Len(cs) : cs[j] = cs[l] => j = l
    <3> HIDE DEF cs
    <3> QED BY <2>1 DEF IsInjective
  <2>5. cs \in Seq(Int)
    <3> HIDE DEF cs
    <3>1. Len(cs) \in Nat /\ cs \in [1..Len(cs) -> Site]
      BY <2>1
    <3>2. cs \in [1..Len(cs) -> Int]
      BY <3>1, NAssumption DEF Site
    <3> QED BY <3>1, <3>2
  <2> QED BY <2>1, <2>2, <2>3, <2>4, <2>5
<1>3. /\ st \in Seq(Int) /\ Len(st) \in Nat /\ Len(st) >= 1 /\ st[1] = Unset
      /\ Len(cs) \in Nat
      /\ new \in Seq(Int) /\ Len(new) = Len(st) + Len(cs)
      /\ \A j \in 1..Len(st) : new[j] = st[j]
      /\ \A j \in 1..Len(new) : j > Len(st) => j - Len(st) \in 1..Len(cs) /\ new[j] = cs[j - Len(st)]
      /\ \A j \in 1..Len(cs) : Len(st) + j \in 2..Len(new) /\ new[Len(st) + j] = cs[j]
  <2> HIDE DEF cs
  <2>1. st \in Seq(Int) /\ Len(st) \in Nat /\ Len(st) >= 1 /\ st[1] = Unset /\ Len(cs) \in Nat
    BY <1>2 DEF StackInv
  <2> QED BY <1>2, <2>1
<1>4. /\ \A q \in Nodes : q \in Inner(t) <=> \E c \in Child(t) : c \in On(q)
      /\ \A c, d \in Child(t) : \A q \in Nodes : c \in On(q) /\ d \in On(q) => c = d
      /\ \A q \in Nodes : t \in On(q) <=> q \in {t} \cup Inner(t)
      /\ Child(t) \subseteq Nodes
  BY <1>1, InnerFacts DEF Child
<1> HIDE DEF cs, new
<1>5. /\ \A j \in 2..Len(st) : st[j] \in Nodes
      /\ \A j, l \in 2..Len(st) : \A q \in Nodes : st[j] \in On(q) /\ st[l] \in On(q) => j = l
  BY DEF StackInv
<1>6. \A j \in 2..Len(new) :
         \/ j \in 2..Len(st) /\ new[j] = st[j]
         \/ (j > Len(st) /\ j - Len(st) \in 1..Len(cs) /\ new[j] = cs[j - Len(st)])
  <2> SUFFICES ASSUME NEW j \in 2..Len(new)
               PROVE  \/ j \in 2..Len(st) /\ new[j] = st[j]
                      \/ (j > Len(st) /\ j - Len(st) \in 1..Len(cs) /\ new[j] = cs[j - Len(st)])
    OBVIOUS
  <2>1. j \in 1..Len(new) /\ (j > Len(st) \/ (j \in 2..Len(st) /\ j \in 1..Len(st)))
    BY <1>3
  <2> QED BY <1>3, <2>1
<1>7. \A j \in 2..Len(st) : \A l \in 1..Len(cs) : \A q \in Nodes :
         ~ (st[j] \in On(q) /\ cs[l] \in On(q))
  <2> SUFFICES ASSUME NEW j \in 2..Len(st), NEW l \in 1..Len(cs), NEW q \in Nodes,
                      st[j] \in On(q), cs[l] \in On(q)
               PROVE  FALSE
    OBVIOUS
  <2>1. q \in Pending(st)
    BY DEF Pending
  <2>2. q \in Inner(t)
    BY <1>2, <1>4
  <2> QED BY <1>4, <2>1, <2>2
<1>8. \A j \in 2..Len(new) : new[j] \in Nodes
  BY <1>2, <1>4, <1>5, <1>6
<1>9. ASSUME NEW j \in 2..Len(new), NEW l \in 2..Len(new), NEW q \in Nodes,
             new[j] \in On(q), new[l] \in On(q)
      PROVE  j = l
  <2>1. CASE j \in 2..Len(st) /\ l \in 2..Len(st)
    <3>1. new[j] = st[j] /\ new[l] = st[l]
      BY SMTT(60), <1>3, <2>1
    <3> QED BY <1>5, <1>9, <2>1, <3>1
  <2>2. CASE j > Len(st) /\ l > Len(st)
    <3>1. j - Len(st) \in 1..Len(cs) /\ new[j] = cs[j - Len(st)]
      BY SMTT(60), <1>3, <2>2
    <3>2. l - Len(st) \in 1..Len(cs) /\ new[l] = cs[l - Len(st)]
      BY SMTT(60), <1>3, <2>2
    <3>3. cs[j - Len(st)] = cs[l - Len(st)]
      BY <1>2, <1>4, <1>9, <3>1, <3>2
    <3>4. j - Len(st) = l - Len(st)
      BY <1>2, <3>1, <3>2, <3>3
    <3> QED BY <1>3, <3>4
  <2>3. CASE j \in 2..Len(st) /\ l > Len(st)
    <3>1. new[j] = st[j]
      BY <1>3, <2>3
    <3>2. l \in 1..Len(new) /\ l > Len(st)
      BY <1>3, <2>3
    <3>3. l - Len(st) \in 1..Len(cs) /\ new[l] = cs[l - Len(st)]
      BY <1>3, <3>2
    <3> QED BY <1>7, <1>9, <2>3, <3>1, <3>3
  <2>4. CASE j > Len(st) /\ l \in 2..Len(st)
    <3>1. new[l] = st[l]
      <4>1. l \in 1..Len(st)
        BY <1>3, <2>4
      <4> QED BY <1>3, <4>1
    <3>2. j \in 1..Len(new) /\ j > Len(st)
      BY <1>3, <2>4
    <3>3. j - Len(st) \in 1..Len(cs) /\ new[j] = cs[j - Len(st)]
      BY <1>3, <3>2
    <3> QED BY <1>7, <1>9, <2>4, <3>1, <3>3
  <2> QED BY <1>3, <1>6, <2>1, <2>2, <2>3, <2>4
<1>10. StackInv(new)
  <2>1. Len(new) >= 1 /\ new[1] = Unset
    BY <1>3
  <2> QED BY <1>3, <1>8, <1>9, <2>1 DEF StackInv
<1>11. ASSUME NEW q \in Nodes
       PROVE  (\E j \in 2..Len(new) : new[j] \in On(q))
                <=> (\E j \in 2..Len(st) : st[j] \in On(q)) \/ q \in Inner(t)
  <2>1. ASSUME NEW j \in 2..Len(new), new[j] \in On(q)
        PROVE  (\E l \in 2..Len(st) : st[l] \in On(q)) \/ q \in Inner(t)
    BY <1>2, <1>4, <1>6, <2>1
  <2>2. ASSUME NEW j \in 2..Len(st), st[j] \in On(q)
        PROVE  \E l \in 2..Len(new) : new[l] \in On(q)
    <3>1. j \in 2..Len(new) /\ new[j] = st[j]
      BY SMTT(60), <1>3
    <3> QED BY <2>2, <3>1
  <2>3. ASSUME q \in Inner(t)
        PROVE  \E l \in 2..Len(new) : new[l] \in On(q)
    <3>1. PICK c \in Child(t) : c \in On(q)
      BY <1>4, <2>3
    <3>2. PICK j \in 1..Len(cs) : cs[j] = c
      BY <1>2
    <3>3. Len(st) + j \in 2..Len(new) /\ new[Len(st) + j] = c
      BY <1>3, <3>2
    <3> QED BY <3>1, <3>3
  <2> QED BY <2>1, <2>2, <2>3
<1>12. Pending(new) = Pending(st) \cup Inner(t)
  <2>1. Inner(t) \subseteq Nodes
    BY DEF Inner
  <2> QED BY <1>11, <2>1 DEF Pending
<1> QED BY <1>10, <1>12 DEF new, cs

\* The node on top of the stack is popped.
LEMMA PopFacts ==
    ASSUME IsTree, Nodes = {q \in Site : IsNode(q)}, NEW st, StackInv(st)
    PROVE  /\ Last(st) = Unset => Pending(st) = {}
           /\ Last(st) # Unset =>
                /\ Last(st) \in Nodes /\ StackInv(Front(st))
                /\ \A q \in Nodes : Last(st) \in On(q) => q \notin Pending(Front(st))
                /\ Pending(st) = Pending(Front(st)) \cup {Last(st)} \cup Inner(Last(st))
<1>1. /\ st \in Seq(Int) /\ Len(st) \in Nat /\ Len(st) >= 1 /\ st[1] = Unset
      /\ \A j \in 2..Len(st) : st[j] \in Nodes
      /\ \A j, l \in 2..Len(st) : \A q \in Nodes : st[j] \in On(q) /\ st[l] \in On(q) => j = l
  BY DEF StackInv
<1>2. Last(st) = st[Len(st)]
  BY DEF Last
<1>3. Unset \notin Nodes
  BY NAssumption DEF Site, Unset
<1>4. Last(st) = Unset => Pending(st) = {}
  <2> SUFFICES ASSUME Last(st) = Unset PROVE Pending(st) = {}
    OBVIOUS
  <2>1. Len(st) = 1
    <3>1. Len(st) \notin 2..Len(st)
      BY <1>1, <1>2, <1>3
    <3>2. \A m \in Nat : m >= 1 /\ m \notin 2..m => m = 1
      OBVIOUS
    <3> QED BY <1>1, <3>1, <3>2
  <2> QED BY <2>1 DEF Pending
<1>5. ASSUME Last(st) # Unset
      PROVE  /\ Last(st) \in Nodes /\ StackInv(Front(st))
             /\ \A q \in Nodes : Last(st) \in On(q) => q \notin Pending(Front(st))
             /\ Pending(st) = Pending(Front(st)) \cup {Last(st)} \cup Inner(Last(st))
  <2> DEFINE m == Len(st)
             fr == Front(st)
  <2>1. m \in Nat /\ m >= 2 /\ Last(st) = st[m] /\ m \in 2..Len(st)
    BY <1>1, <1>2, <1>5
  <2>2. fr \in Seq(Int) /\ Len(fr) = m - 1 /\ \A j \in 1..(m - 1) : fr[j] = st[j]
    BY <1>1, <2>1 DEF Front
  <2>3. Last(st) \in Nodes
    BY <1>1, <2>1
  <2> HIDE DEF m, fr
  <2>4. \A j \in 2..Len(fr) : j \in 2..Len(st) /\ j # m /\ fr[j] = st[j]
    BY SMTT(60), <1>1, <2>1, <2>2 DEF m
  <2>5. StackInv(fr)
    <3>1. Len(fr) >= 1 /\ fr[1] = Unset
      BY <1>1, <2>1, <2>2
    <3> QED BY <1>1, <2>2, <2>4, <3>1 DEF StackInv
  <2>6. \A q \in Nodes : Last(st) \in On(q) => q \notin Pending(fr)
    BY <1>1, <2>1, <2>4 DEF Pending
  <2>7. \A j \in 2..Len(st) : j = m \/ (j \in 2..Len(fr) /\ fr[j] = st[j])
    <3> SUFFICES ASSUME NEW j \in 2..Len(st), j # m PROVE j \in 2..Len(fr) /\ fr[j] = st[j]
      OBVIOUS
    <3>1. j \in Int /\ 2 <= j /\ j <= m - 1
      BY <2>1 DEF m
    <3>2. j \in 2..Len(fr) /\ j \in 1..(m - 1)
      BY <2>1, <2>2, <3>1
    <3> QED BY <2>2, <3>2
  <2>8. \A q \in Nodes : q \in Pending(st) <=> q \in Pending(fr) \/ Last(st) \in On(q)
    BY <2>1, <2>4, <2>7 DEF Pending
  <2>9. \A q \in Nodes : Last(st) \in On(q) <=> q \in {Last(st)} \cup Inner(Last(st))
    BY <2>3, InnerFacts
  <2>10. Pending(st) \subseteq Nodes /\ Pending(fr) \subseteq Nodes
         /\ Inner(Last(st)) \subseteq Nodes
    BY DEF Pending, Inner
  <2>11. Pending(st) = Pending(fr) \cup {Last(st)} \cup Inner(Last(st))
    BY <2>3, <2>8, <2>9, <2>10
  <2> QED BY <2>3, <2>5, <2>6, <2>11 DEF fr
<1> QED BY <1>4, <1>5

LEMMA SameVisit ==
    ASSUME UNCHANGED tree_vars
    PROVE  /\ \A q : Inner(q)' = Inner(q)
           /\ \A st : Pending(st)' = Pending(st)
           /\ \A E : LeavesIn(E)' = LeavesIn(E)
           /\ \A st : StackInv(st)' <=> StackInv(st)
<1>1. /\ Nodes' = Nodes
      /\ \A q : On(q)' = On(q)
      /\ \A q : Child(q)' = Child(q)
  BY SameTree
<1>2. \A q : Over(q)' = Over(q)
  BY <1>1 DEF Over
<1>3. \A q : Inner(q)' = Inner(q)
  BY <1>1, <1>2 DEF Inner
<1>4. \A st : Pending(st)' = Pending(st)
  BY <1>1 DEF Pending
<1>5. \A E : LeavesIn(E)' = LeavesIn(E)
  BY <1>1 DEF LeavesIn
<1>6. \A st : StackInv(st)' <=> StackInv(st)
  BY <1>1 DEF StackInv
<1> QED BY <1>3, <1>4, <1>5, <1>6

\* One more node is counted, if it is a leaf.
LEMMA CountLeaf ==
    ASSUME StoredInv, IsTree, loop # "children", NEW E, E \subseteq Nodes,
           NEW t \in Nodes, t \notin E
    PROVE  Cardinality(LeavesIn(E \cup {t}))
             = Cardinality(LeavesIn(E)) + IF IsLeaf(t) THEN 1 ELSE 0
<1>1. IsLeaf(t) <=> Child(t) = {}
  <2>1. t \in Site /\ children[t] \in Seq(Site) /\ ToSet(children[t]) = Child(t)
    BY StoredFacts
  <2>2. children[t] = <<>> <=> ToSet(children[t]) = {}
    <3> DEFINE cs == children[t]
    <3>1. Len(cs) \in Nat /\ (cs = <<>> <=> Len(cs) = 0)
      <4> HIDE DEF cs
      <4>1. cs \in Seq(Site)
        BY <2>1 DEF cs
      <4> QED BY <4>1
    <3> HIDE DEF cs
    <3>2. ToSet(cs) = {cs[j] : j \in 1..Len(cs)}
      BY <2>1 DEF cs, ToSet
    <3>3. Len(cs) # 0 => 1 \in 1..Len(cs)
      BY <3>1
    <3>4. Len(cs) = 0 => 1..Len(cs) = {}
      BY <3>1
    <3>5. ToSet(cs) = {} <=> Len(cs) = 0
      BY <3>2, <3>3, <3>4
    <3> QED BY <3>1, <3>5 DEF cs
  <2> QED BY <2>1, <2>2 DEF IsLeaf
<1>2. IsFiniteSet(LeavesIn(E)) /\ t \notin LeavesIn(E)
  <2>1. IsFiniteSet(Site)
    <3>1. 1 \in Int /\ N \in Int
      BY NAssumption
    <3> QED BY <3>1, FS_Interval DEF Site
  <2>2. LeavesIn(E) \in SUBSET Site
    BY StoredFacts DEF LeavesIn
  <2> QED BY <2>1, <2>2, FS_Subset DEF LeavesIn
<1>3. CASE IsLeaf(t)
  <2>1. LeavesIn(E \cup {t}) = LeavesIn(E) \cup {t}
    BY <1>1, <1>3 DEF LeavesIn
  <2>2. Cardinality(LeavesIn(E) \cup {t}) = Cardinality(LeavesIn(E)) + 1
    <3> DEFINE S == LeavesIn(E)
    <3> HIDE DEF S
    <3> QED BY <1>2, FS_AddElement DEF S
  <2> QED BY <1>3, <2>1, <2>2
<1>4. CASE ~ IsLeaf(t)
  <2>1. LeavesIn(E \cup {t}) = LeavesIn(E)
    BY <1>1, <1>4 DEF LeavesIn
  <2>2. Cardinality(LeavesIn(E)) \in Nat
    BY <1>2, FS_CardinalityType
  <2> QED BY <1>4, <2>1, <2>2
<1> QED BY <1>3, <1>4

LEMMA VisitStep ==
    ASSUME RunsInv, VisitInv, PropagateDescendants
    PROVE  VisitInv'
<1>1. /\ IsTree /\ StoredInv /\ loop # "children" /\ UNCHANGED tree_vars
      /\ Nodes = {q \in Site : IsNode(q)} /\ Nodes \subseteq Site
  BY OnTree DEF Loops
<1>2. loop = "descendants" /\ routine = "descendants" /\ UNCHANGED args
  BY LoopsLead DEF PropagateDescendants, Loops
<1>3. /\ target \in Nodes /\ StackInv(stack) /\ Pending(stack) \subseteq Inner(target)
      /\ a = Put(Inner(target) \ Pending(stack))
      /\ nb_leaves = Cardinality(LeavesIn(({target} \cup Inner(target)) \ Pending(stack)))
  BY <1>2 DEF VisitInv
<1>4. /\ target' = target /\ routine' = routine /\ Nodes' = Nodes
      /\ \A q : Inner(q)' = Inner(q)
      /\ \A st : Pending(st)' = Pending(st)
      /\ \A E : LeavesIn(E)' = LeavesIn(E)
      /\ \A st : StackInv(st)' <=> StackInv(st)
      /\ \A E : Put(E)' = Put(E)
  BY <1>1, <1>2, SameTree, SamePut, SameVisit DEF args
<1>5. CASE Top = Unset
  <2>1. Pending(stack) = {}
    BY <1>1, <1>3, <1>5, PopFacts DEF Top
  <2>2. loop' = "returned" /\ a' = a /\ nb_leaves' = nb_leaves
    BY <1>5 DEF PropagateDescendants
  <2>3. a = Put(Inner(target)) /\ nb_leaves = Cardinality(LeavesIn({target} \cup Inner(target)))
    BY <1>3, <2>1
  <2> QED BY <1>3, <1>4, <2>2, <2>3 DEF VisitInv
<1>6. CASE Top # Unset
  <2>1. /\ Top \in Nodes /\ StackInv(Front(stack))
        /\ \A q \in Nodes : Top \in On(q) => q \notin Pending(Front(stack))
        /\ Pending(stack) = Pending(Front(stack)) \cup {Top} \cup Inner(Top)
    BY <1>1, <1>3, <1>6, PopFacts DEF Top
  <2>2. PICK t \in Nodes : t = Top
    BY <2>1
  <2>3. PICK st : st = Front(stack) \o children[t]
    OBVIOUS
  <2>4. /\ loop' = loop /\ a' = [a EXCEPT ![t] = v] /\ stack' = st
        /\ nb_leaves' = nb_leaves + IF IsLeaf(t) THEN 1 ELSE 0
    BY <1>6, <2>2, <2>3 DEF PropagateDescendants, Next1st, Top
  <2>5. /\ StackInv(st)
        /\ Pending(st) = Pending(Front(stack)) \cup Inner(t)
    BY <1>1, <2>1, <2>2, <2>3, PushFacts
  <2>6. /\ Pending(st) = Pending(stack) \ {t}
        /\ t \in Pending(stack) /\ t \in Inner(target) /\ t \in Site
    <3>1. t \notin Inner(t) /\ t \in On(t) /\ t \in Site
      BY <1>1, <2>2, InnerFacts, OnFacts
    <3>2. t \notin Pending(Front(stack))
      BY <2>1, <2>2, <3>1
    <3> QED BY <1>3, <2>1, <2>2, <2>5, <3>1, <3>2
  <2> DEFINE E == Inner(target) \ Pending(stack)
             D == ({target} \cup Inner(target)) \ Pending(stack)
  <2>7. a' = Put(Inner(target) \ Pending(st))
    <3>1. Inner(target) \ Pending(st) = E \cup {t}
      BY <2>6
    <3>2. [a EXCEPT ![t] = v] = Put(E \cup {t})
      <4>1. a = Put(E)
        BY <1>3
      <4> HIDE DEF E
      <4> QED BY <2>6, <4>1 DEF Put
    <3> QED BY <2>4, <3>1, <3>2
  <2>8. nb_leaves' = Cardinality(LeavesIn(({target} \cup Inner(target)) \ Pending(st)))
    <3>1. ({target} \cup Inner(target)) \ Pending(st) = D \cup {t}
      BY <2>6
    <3>2. D \subseteq Nodes /\ t \notin D
      BY <1>3, <2>6 DEF Inner
    <3>3. nb_leaves = Cardinality(LeavesIn(D))
      BY <1>3
    <3> HIDE DEF D
    <3>4. Cardinality(LeavesIn(D \cup {t}))
             = Cardinality(LeavesIn(D)) + IF IsLeaf(t) THEN 1 ELSE 0
      BY <1>1, <3>2, CountLeaf
    <3> QED BY <2>4, <3>1, <3>3, <3>4
  <2>9. Pending(st) \subseteq Inner(target)
    BY <1>3, <2>6
  <2> QED BY <1>2, <1>3, <1>4, <2>4, <2>5, <2>7, <2>8, <2>9 DEF VisitInv
<1> QED BY <1>5, <1>6

LEMMA VisitCall ==
    ASSUME RunsInv, Calls
    PROVE  VisitInv'
<1>1. /\ IsTree /\ StoredInv /\ loop # "children" /\ UNCHANGED tree_vars
      /\ Nodes = {q \in Site : IsNode(q)} /\ Nodes \subseteq Site
      /\ f = [q \in Site |-> f[q]]
  BY OnTree
<1>2. CASE CallDescendants
  <2>1. PICK q \in Site :
          /\ Call("descendants", "descendants", 1)
          /\ target' = Representative(q)
          /\ stack' = Next1st(<<Unset, Representative(q)>>)
          /\ nb_leaves' = IF IsLeaf(Representative(q)) THEN 1 ELSE 0
    BY <1>2 DEF CallDescendants
  <2>2. Representative(q) \in Nodes
    BY <1>1, <2>1, RepresentativeFacts
  <2>3. PICK t \in Nodes : t = Representative(q)
    BY <2>2
  <2> DEFINE pair == <<Unset, t>>
             bottom == Front(pair)
  <2>4. PICK st : st = bottom \o children[t]
    OBVIOUS
  <2>5. /\ loop' = "descendants" /\ a' = f /\ target' = t /\ stack' = st
        /\ nb_leaves' = IF IsLeaf(t) THEN 1 ELSE 0
    <3>1. Last(pair) = t
      BY DEF Last
    <3> QED BY <2>1, <2>3, <2>4, <3>1 DEF Call, Next1st
  <2>6. StackInv(bottom) /\ Pending(bottom) = {}
    <3>1. pair \in Seq(Int) /\ Len(pair) = 2 /\ pair[1] = Unset
      BY <1>1, NAssumption DEF Site, Unset
    <3> HIDE DEF pair
    <3>2. bottom \in Seq(Int) /\ Len(bottom) = 1 /\ bottom[1] = Unset
      BY <3>1 DEF Front
    <3> QED BY <3>2 DEF StackInv, Pending
  <2>7. StackInv(st) /\ Pending(st) = Inner(t)
    <3> HIDE DEF bottom
    <3>1. StackInv(bottom \o children[t])
          /\ Pending(bottom \o children[t]) = Pending(bottom) \cup Inner(t)
      BY <1>1, <2>6, PushFacts
    <3> QED BY <2>4, <2>6, <3>1
  <2>8. a' = Put(Inner(t) \ Pending(st))'
    <3>1. f' = f
      BY <1>1, SameTree
    <3>2. (Inner(t) \ Pending(st))' = {}
      BY <1>1, <2>7, SameVisit
    <3> QED BY <1>1, <2>5, <3>1, <3>2 DEF Put
  <2>9. nb_leaves' = Cardinality(LeavesIn(({t} \cup Inner(t)) \ Pending(st)))
    <3>1. ({t} \cup Inner(t)) \ Pending(st) = {} \cup {t}
      BY <1>1, <2>7, InnerFacts
    <3>2. LeavesIn({}) = {}
      BY DEF LeavesIn
    <3>3. Cardinality(LeavesIn({} \cup {t}))
             = Cardinality(LeavesIn({})) + IF IsLeaf(t) THEN 1 ELSE 0
      BY <1>1, CountLeaf
    <3> QED BY <2>5, <3>1, <3>2, <3>3, FS_EmptySet
  <2>10. /\ Nodes' = Nodes
         /\ \A r : Inner(r)' = Inner(r)
         /\ \A u : Pending(u)' = Pending(u)
         /\ \A E : LeavesIn(E)' = LeavesIn(E)
         /\ \A u : StackInv(u)' <=> StackInv(u)
    BY <1>1, SameTree, SameVisit
  <2> QED BY <2>5, <2>7, <2>8, <2>9, <2>10 DEF VisitInv
<1>3. CASE ~ CallDescendants
  <2>1. loop' # "descendants" /\ (loop' = "returned" => routine' = "ancestors")
    BY <1>3 DEF Calls, CallFilter, CallPropagateIf, CallPropagateIfValue, CallAncestors,
       CallAttribute, Call
  <2> QED BY <2>1 DEF VisitInv
<1> QED BY <1>2, <1>3

LEMMA VisitInvStep ==
    ASSUME RunsInv, VisitInv, FiltersNext
    PROVE  VisitInv'
<1>1. CASE loop = "children"
  BY <1>1, StoringLeads DEF VisitInv
<1>2. CASE loop # "children" /\ UNCHANGED <<vars, data_vars, call_vars>>
  <2>1. UNCHANGED tree_vars
        /\ UNCHANGED <<loop, a, stack, nb_leaves, routine, target, v>>
    BY <1>2 DEF tree_vars, data_vars, call_vars, args
  <2>2. /\ Nodes' = Nodes
        /\ \A q : Inner(q)' = Inner(q)
        /\ \A st : Pending(st)' = Pending(st)
        /\ \A E : LeavesIn(E)' = LeavesIn(E)
        /\ \A st : StackInv(st)' <=> StackInv(st)
        /\ \A E : Put(E)' = Put(E)
    BY <2>1, SameTree, SamePut, SameVisit
  <2> QED BY <2>1, <2>2 DEF VisitInv
<1>3. CASE Calls
  BY <1>3, VisitCall
<1>4. CASE Loops /\ ~ PropagateDescendants
  <2>1. loop' # "descendants" /\ routine' # "descendants"
    BY <1>4, LoopsLead DEF Loops, args, Filters
  <2> QED BY <2>1 DEF VisitInv
<1> QED BY <1>1, <1>2, <1>3, <1>4, VisitStep, CalledStep

LEMMA VisitReturns ==
    ASSUME RunsInv, VisitInv, loop = "returned", routine = "descendants"
    PROVE  FilteredAsDefined
<1>1. /\ target \in Nodes /\ a = Put(Inner(target))
      /\ nb_leaves = Cardinality(LeavesIn({target} \cup Inner(target)))
  BY DEF VisitInv
<1>2. /\ IsTree /\ StoredInv /\ Nodes = {q \in Site : IsNode(q)} /\ target \in Site
      /\ \A q \in Nodes : Representative(q) = q /\ q \in Site
      /\ ToSet(leaves) = {q \in Nodes : Child(q) = {}}
  BY <1>1, CalledFacts, StoredFacts, RepresentativeFacts
<1>3. \A q \in Nodes : Way(q) = On(q) /\ Above(q) = Over(q)
  BY <1>2, WayIsOn DEF Above, Over
<1>4. Inner(target) = {q \in Nodes : target \in Above(q)}
  BY <1>3 DEF Inner
<1>5. LeavesIn({target} \cup Inner(target)) = {q \in ToSet(leaves) : target \in Way(q)}
  <2>1. \A q \in Nodes : target \in On(q) <=> q \in {target} \cup Inner(target)
    BY <1>1, <1>2, InnerFacts
  <2>2. Inner(target) \subseteq Nodes
    BY DEF Inner
  <2> QED BY <1>1, <1>2, <1>3, <2>1, <2>2 DEF LeavesIn
<1>6. a = [q \in Site |-> IF q \in {t \in Nodes : target \in Above(t)} THEN v ELSE f[q]]
  BY <1>1, <1>4 DEF Put
<1>7. nb_leaves = Cardinality({q \in ToSet(leaves) : target \in Way(q)})
  BY <1>1, <1>5
<1> QED BY <1>6, <1>7 DEF FilteredAsDefined, Changed

-----------------------------------------------------------------------------
(* All the routines.                                                        *)

FilterInv == ArgsInv /\ FallInv /\ DownInv /\ UpInv /\ ClimbInv /\ VisitInv

\* The filters and the propagations give each site what their definitions say.
THEOREM FiltersAreAsDefined == TreeSpec => []FilteredAsDefined
<1> DEFINE FInv == RunsInv /\ FilterInv
<1>1. TreeInit => FInv
  <2> SUFFICES ASSUME TreeInit PROVE RunsInv /\ FilterInv
    OBVIOUS
  <2>1. /\ loop = "children" /\ routine = "none" /\ pred = {} /\ w = Unset /\ v = Unset
    BY DEF TreeInit, StartFilters, StartData
  <2> QED BY <2>1, RunsInit DEF FilterInv, ArgsInv, FallInv, DownInv, UpInv, ClimbInv, VisitInv
<1>2. FInv /\ [FiltersNext]_<<vars, data_vars, call_vars>> => FInv'
  <2> SUFFICES ASSUME RunsInv, FilterInv, [FiltersNext]_<<vars, data_vars, call_vars>>
               PROVE  RunsInv' /\ FilterInv'
    OBVIOUS
  <2>1. CASE FiltersNext
    BY <2>1, RunsStep, ArgsStep, FallStep, DownInvStep, UpInvStep, ClimbInvStep, VisitInvStep
       DEF FilterInv
  <2>2. CASE UNCHANGED <<vars, data_vars, call_vars>>
    <3>1. CASE loop # "children"
      <4>1. FiltersNext
        BY <2>2, <3>1, CalledFacts DEF FiltersNext, Next, Returned, data_vars, call_vars
      <4> QED BY <2>1, <4>1
    <3>2. CASE loop = "children"
      <4>1. loop' = "children" /\ UNCHANGED <<routine, pred, w, v, nodes>>
        BY <2>2, <3>2 DEF data_vars, call_vars, args
      <4>2. ArgsInv'
        BY <4>1 DEF FilterInv, ArgsInv, Nodes, ToSet
      <4> QED BY <4>1, <4>2, RunsStep
              DEF FilterInv, FallInv, DownInv, UpInv, ClimbInv, VisitInv
    <3> QED BY <3>1, <3>2
  <2> QED BY <2>1, <2>2
<1>3. FInv => FilteredAsDefined
  <2> SUFFICES ASSUME RunsInv, FilterInv, loop = "returned" PROVE FilteredAsDefined
    BY DEF FilteredAsDefined
  <2>1. routine \in Routines
    BY DEF RunsInv, RunInv
  <2>2. CASE routine = "attribute"
    BY <2>2 DEF FilteredAsDefined
  <2> QED BY <2>1, <2>2, FallReturns, DownReturns, UpReturns, ClimbReturns, VisitReturns
          DEF FilterInv, Routines, Filters, FallRoutines
<1> QED BY <1>1, <1>2, <1>3, PTL DEF TreeSpec
=============================================================================
