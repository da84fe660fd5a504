----------------------------- MODULE DualProofs ------------------------------
(***************************************************************************)
(* Proofs about the dual input trees, for every pair of images, every       *)
(* domain in one piece and every order of the sites of equal value.          *)
(***************************************************************************)
EXTENDS MCDualInput, RegionsProofs

\* Both implementations, from every pair of site arrays they may be given.
DualInit ==
    /\ quant \in {"low", "any"}
    /\ IF Low THEN Init /\ IdleUnionFind ELSE UnionFind!Init /\ IdleHqueue

DualSpec == DualInit /\ [][DispatchNext]_<<vars, quant, union_find_vars>>

LEMMA SiteFacts ==
    /\ N \in Nat \ {0} /\ \A t : t \in Site <=> t \in Int /\ 1 <= t /\ t <= N
    /\ Unset \notin AllSites /\ Site \subseteq AllSites /\ ExtSite \subseteq AllSites
    /\ \A t \in Site : Extend(t) \in ExtSite /\ t \notin ExtSite /\ Extend(t) \notin Site
                       /\ Extend(t) - N = t
    /\ \A t \in AllSites : t \in Int /\ (t \in Site \/ t \in ExtSite)
    /\ \A t \in ExtSite : t - N \in Site /\ Extend(t - N) = t /\ t \notin Site
    /\ \A t, u \in Site : Extend(t) = Extend(u) => t = u
BY RegionsAssumption DEF Site, Unset, AllSites, ExtSite, Extend

LEMMA FextFacts ==
    ASSUME f \in [Site -> Value], m \in [Site -> Value]
    PROVE  /\ \A t \in Site : fext[t] = f[t] /\ fext[Extend(t)] = m[t]
           /\ \A t \in Site : f[t] \in Level /\ m[t] \in Level
           /\ \A t \in AllSites : fext[t] \in Level
           /\ Level = 0..MaxValue /\ MaxValue \in Nat
<1>1. \A t \in Site : f[t] \in Level /\ m[t] \in Level
  BY LevelsAssumption DEF Level
<1>2. \A t \in AllSites : fext[t] = IF t \in Site THEN f[t] ELSE m[t - N]
  BY DEF fext
<1>3. \A t \in AllSites : fext[t] \in Level
  BY <1>1, <1>2, SiteFacts
<1>4. \A t \in Site : fext[t] = f[t] /\ fext[Extend(t)] = m[t]
  BY <1>2, SiteFacts
<1> QED BY <1>1, <1>3, <1>4, LevelsAssumption DEF Level

-----------------------------------------------------------------------------
(* The flooding of dual_hqueue.                                             *)

LowTypes ==
    /\ f \in [Site -> Value] /\ m \in [Site -> Value]
    /\ s_f \in [1..N -> Site] /\ IsInjective(s_f)
    /\ pc \in {"flood", "neighbours", "pushed", "root", "canonize"}
    /\ hqueues \in [Level -> Seq(Site)]
    /\ is_node_at_level \in [Level -> BOOLEAN]
    /\ node_at_level \in [Level -> AllSites \cup {Unset}]
    /\ deja_vu \in [AllSites -> BOOLEAN]
    /\ h_idx \in Level /\ p \in Site \cup {Unset} /\ nth \in Nat /\ mn \in Level
    /\ pc \in {"neighbours", "pushed"} => p \in Site
    /\ calls \in Seq([h_idx : Level, p : Site, nth : Nat])
    /\ parent \in [AllSites -> AllSites \cup {Unset}]
    /\ s \in Seq(AllSites) /\ pos \in 1..(N + 1) /\ x \in AllSites \cup {Unset}

Waits(t, l) == \E j \in 1..Len(hqueues[l]) : hqueues[l][j] = t

\* What waits at a level was seen and is of this level, which has a node.
LowQueues ==
    /\ \A l \in Level, t \in Site : Waits(t, l) => deja_vu[t] /\ m[t] = l
    /\ \A l \in Level : hqueues[l] # <<>> => is_node_at_level[l]
    /\ \A l \in Level : is_node_at_level[l] =>
         node_at_level[l] \in AllSites /\ fext[node_at_level[l]] = l

\* The levels of the pending floods have a node, no higher level has, except
\* between a push and the flood it calls for.
LowCalls ==
    /\ is_node_at_level[h_idx]
    /\ \A j \in 1..Len(calls) : calls[j].h_idx < h_idx /\ is_node_at_level[calls[j].h_idx]
    /\ \A i, j \in 1..Len(calls) : i < j => calls[i].h_idx < calls[j].h_idx
    /\ hmin = IF calls = <<>> THEN h_idx ELSE calls[1].h_idx
    /\ \A l \in Level : is_node_at_level[l] /\ l > h_idx => pc = "pushed" /\ l <= mn
    /\ pc = "pushed" /\ mn > h_idx => is_node_at_level[mn]

\* A neighbour that was not seen of a site that was popped has yet to be browsed.
ToBrowse(t, j) ==
    \/ pc \in {"neighbours", "pushed"} /\ p = t /\ j > nth
    \/ \E i \in 1..Len(calls) : calls[i].p = t /\ j > calls[i].nth

Popped(t) == deja_vu[t] /\ \A l \in Level : ~ Waits(t, l)

LowSeen ==
    /\ deja_vu[pmin]
    /\ \A t \in Site : Popped(t) =>
         \A j \in 1..Len(Nbh[t]) : Nbh[t][j] \in Site /\ ~ deja_vu[Nbh[t][j]] => ToBrowse(t, j)

Linked(t) == parent[t] # Unset
LevelNode(t) == \E l \in Level : is_node_at_level[l] /\ node_at_level[l] = t

\* A site has its parent once popped; the parent has its own, or is the node
\* of its level.
LowParents ==
    /\ \A t \in Site : Popped(t) => Linked(t)
    /\ \A t \in AllSites : Linked(t) => Linked(parent[t]) \/ LevelNode(parent[t])

LowRoot ==
    /\ \A l \in Level : is_node_at_level[l] =>
         l <= hmin /\ node_at_level[l] \in AllSites /\ fext[node_at_level[l]] = l
    /\ node_at_level[hmin] \in AllSites
    /\ \A t \in Site : Linked(t)
    /\ \A t \in AllSites : Linked(t) => Linked(parent[t]) \/ LevelNode(parent[t])

LowTree ==
    /\ \A t \in Site : Linked(t)
    /\ \A t \in AllSites : Linked(t) => Linked(parent[t])
    /\ pos <= N => x \in AllSites /\ Linked(x)

LowInv ==
    /\ LowTypes
    /\ Flooding => LowQueues /\ LowCalls /\ LowSeen /\ LowParents
    /\ pc = "root" => LowRoot
    /\ pc = "canonize" => LowTree

LEMMA SeedFacts ==
    ASSUME m \in [Site -> Value]
    PROVE  /\ hmin \in Level /\ \A t \in Site : hmin <= m[t]
           /\ pmin \in Site /\ m[pmin] = hmin
<1> DEFINE S == {m[t] : t \in Site}
<1>0. \A t \in Site : m[t] \in Level
  BY LevelsAssumption DEF Level
<1>1. PICK a \in S : \A b \in S : a <= b
  <2>1. 1 \in Site /\ m[1] \in S /\ S \in SUBSET Nat
    BY <1>0, SiteFacts, LevelsAssumption DEF Level
  <2> HIDE DEF S
  <2> QED BY <2>1, LeastNat
<1>2. hmin \in S /\ \A b \in S : hmin <= b
  <2>1. hmin = Min(S)
    BY DEF hmin
  <2> HIDE DEF S
  <2> QED BY <1>1, <2>1 DEF Min
<1>3. hmin \in Level /\ \A t \in Site : hmin <= m[t]
  BY <1>0, <1>2
<1> DEFINE P == {t \in Site : m[t] = hmin}
<1>4. PICK t \in P : \A u \in P : t <= u
  <2>1. P \in SUBSET Nat /\ P # {}
    BY <1>2, SiteFacts
  <2> HIDE DEF P
  <2> QED BY <2>1, LeastNat
<1>5. t \in Site /\ m[t] = hmin /\ \A r \in 1..(t - 1) : m[r] # hmin
  <2>1. \A r \in 1..(t - 1) : r \in Site /\ ~ (t <= r)
    BY <1>4, SiteFacts
  <2> QED BY <1>4, <2>1
<1>6. pmin \in Site /\ m[pmin] = hmin
  BY <1>5 DEF pmin
<1> QED BY <1>3, <1>6

LEMMA LowInit == Init => LowInv
<1> SUFFICES ASSUME Init PROVE LowInv
  OBVIOUS
<1> USE DEF Init, Start
<1>0. /\ hmin \in Level /\ pmin \in Site /\ m[pmin] = hmin
      /\ f \in [Site -> Value] /\ m \in [Site -> Value]
  BY SeedFacts
<1>1. NodeOf(pmin) \in AllSites /\ fext[NodeOf(pmin)] = hmin
  BY <1>0, SiteFacts, FextFacts DEF NodeOf
<1>2. LowTypes
  BY <1>0, <1>1, SiteFacts DEF LowTypes
<1>3. \A l \in Level, t \in Site : Waits(t, l) <=> l = hmin /\ t = pmin
  BY <1>0 DEF Waits
<1>4. LowQueues
  BY <1>0, <1>1, <1>3, SiteFacts DEF LowQueues
<1>5. LowCalls
  <2>1. calls = <<>> /\ Len(calls) = 0 /\ h_idx = hmin /\ pc = "flood"
    OBVIOUS
  <2>2. \A l \in Level : is_node_at_level[l] <=> l = hmin
    OBVIOUS
  <2>3. hmin \in Nat
    BY <1>0, FextFacts
  <2> QED BY <1>0, <2>1, <2>2, <2>3 DEF LowCalls
<1>6. \A t \in Site : ~ Popped(t)
  BY <1>0, <1>3, SiteFacts DEF Popped
<1>7. LowSeen /\ LowParents
  BY <1>0, <1>6, SiteFacts DEF LowSeen, LowParents, Linked
<1> QED BY <1>2, <1>4, <1>5, <1>7 DEF LowInv, Flooding

LEMMA CallTypes ==
    ASSUME LowTypes
    PROVE  /\ Len(calls) \in Nat /\ (calls = <<>> <=> Len(calls) = 0)
           /\ \A j \in 1..Len(calls) : /\ calls[j].h_idx \in Level /\ calls[j].p \in Site
                                        /\ calls[j].nth \in Nat
<1> DEFINE R == [h_idx : Level, p : Site, nth : Nat]
<1>1. calls \in Seq(R)
  BY DEF LowTypes
<1>2. \A r \in R : r.h_idx \in Level /\ r.p \in Site /\ r.nth \in Nat
  OBVIOUS
<1> HIDE DEF R
<1>3. \A j \in 1..Len(calls) : calls[j] \in R
  BY <1>1
<1> QED BY <1>1, <1>2, <1>3

\* What popping a site does to the queues.
LEMMA PopFacts ==
    ASSUME LowInv, Pop
    PROVE  /\ front \in Site /\ Waits(front, h_idx) /\ m[front] = h_idx /\ deja_vu[front]
           /\ hqueues' \in [Level -> Seq(Site)]
           /\ \A l \in Level, t \in Site :
                /\ Waits(t, l)' => Waits(t, l)
                /\ Waits(t, l) => Waits(t, l)' \/ t = front
           /\ \A l \in Level : hqueues'[l] # <<>> => hqueues[l] # <<>>
           /\ Flooding /\ Flooding'
<1> DEFINE Q == hqueues[h_idx]
<1>1. /\ Q \in Seq(Site) /\ Q # <<>> /\ h_idx \in Level /\ hqueues \in [Level -> Seq(Site)]
      /\ pc = "flood" /\ pc' = "neighbours" /\ hqueues' = [hqueues EXCEPT ![h_idx] = Tail(Q)]
  BY DEF LowInv, LowTypes, Pop
<1>2. Len(Q) \in Nat /\ Len(Q) >= 1 /\ front = Q[1] /\ front \in Site
  <2> HIDE DEF Q
  <2>1. Len(Q) \in Nat /\ Len(Q) >= 1 /\ Head(Q) = Q[1] /\ Q[1] \in Site
    BY <1>1
  <2> QED BY <2>1 DEF Q, front
<1>3. /\ Tail(Q) \in Seq(Site) /\ Len(Tail(Q)) = Len(Q) - 1
      /\ \A j \in 1..(Len(Q) - 1) : Tail(Q)[j] = Q[j + 1]
  <2> HIDE DEF Q
  <2> QED BY <1>1
<1>4. Waits(front, h_idx)
  BY <1>2 DEF Waits
<1>5. m[front] = h_idx /\ deja_vu[front]
  BY <1>1, <1>2, <1>4 DEF LowInv, Flooding, LowQueues
<1>6. hqueues' \in [Level -> Seq(Site)]
  BY <1>1, <1>3
<1>7. ASSUME NEW l \in Level, NEW t \in Site
      PROVE  /\ Waits(t, l)' => Waits(t, l)
             /\ Waits(t, l) => Waits(t, l)' \/ t = front
  <2>1. CASE l # h_idx
    BY <1>1, <2>1 DEF Waits
  <2>2. CASE l = h_idx
    <3>1. hqueues'[l] = Tail(Q) /\ hqueues[l] = Q
      BY <1>1, <2>2
    <3> HIDE DEF Q
    <3>2. Waits(t, l)' <=> \E j \in 1..(Len(Q) - 1) : Q[j + 1] = t
      BY <1>3, <3>1 DEF Waits
    <3>3. Waits(t, l) <=> \E j \in 1..Len(Q) : Q[j] = t
      BY <3>1 DEF Waits
    <3>4. \A j \in 1..(Len(Q) - 1) : j + 1 \in 1..Len(Q)
      BY <1>2
    <3>5. \A j \in 1..Len(Q) : j = 1 \/ (j - 1 \in 1..(Len(Q) - 1) /\ (j - 1) + 1 = j)
      BY <1>2
    <3> QED BY <1>2, <3>2, <3>3, <3>4, <3>5
  <2> QED BY <2>1, <2>2
<1>8. \A l \in Level : hqueues'[l] # <<>> => hqueues[l] # <<>>
  BY <1>1
<1> QED BY <1>1, <1>2, <1>4, <1>5, <1>6, <1>7, <1>8 DEF Flooding

\* What giving a parent to a site that is popped does: link is the parent
\* image when it gets it, node the node of its level.
LEMMA AtOrBelowFacts ==
    ASSUME NEW t \in Site, NEW node \in AllSites, NEW link \in [AllSites -> AllSites \cup {Unset}],
           AtOrBelow(t, node, link), node_at_level \in [Level -> AllSites \cup {Unset}],
           f[t] \in Level
    PROVE  \E rep \in {t, node} :
             /\ node_at_level' = [node_at_level EXCEPT ![f[t]] = rep]
             /\ parent' \in [AllSites -> AllSites \cup {Unset}]
             /\ parent'[t] = rep
             /\ rep # node => parent'[node] = t
             /\ \A u \in AllSites : u \notin {t, node} => parent'[u] = link[u]
             /\ parent'[node] \in {rep, link[node]}
<1>0. t \in AllSites
  BY SiteFacts
<1>1. CASE Represents(t, node)
  <2>1. /\ parent' = [link EXCEPT ![node] = t, ![t] = t]
        /\ node_at_level' = [node_at_level EXCEPT ![f[t]] = t]
    BY <1>1 DEF AtOrBelow
  <2> QED BY <1>0, <2>1
<1>2. CASE ~ Represents(t, node)
  <2>1. /\ parent' = [link EXCEPT ![t] = node]
        /\ node_at_level' = [node_at_level EXCEPT ![f[t]] = node]
    BY <1>2 DEF AtOrBelow
  <2> QED BY <1>0, <2>1
<1> QED BY <1>1, <1>2

\* What the three ways to pop a site have in common.
PopOutcome ==
    /\ is_node_at_level' \in [Level -> BOOLEAN]
    /\ node_at_level' \in [Level -> AllSites \cup {Unset}]
    /\ \A l \in Level : is_node_at_level[l] => is_node_at_level'[l]
    /\ \A l \in Level : is_node_at_level'[l] /\ l > h_idx => is_node_at_level[l]
    /\ \A l \in Level : is_node_at_level'[l] =>
         node_at_level'[l] \in AllSites /\ fext[node_at_level'[l]] = l
    /\ parent' \in [AllSites -> AllSites \cup {Unset}]
    /\ parent'[front] # Unset /\ \A t \in Site : Linked(t) => Linked(t)'
    /\ \A t \in AllSites : Linked(t)' => Linked(parent[t])' \/ LevelNode(parent[t])'

LEMMA PopStep ==
    ASSUME LowInv, Pop, PopOutcome
    PROVE  LowInv'
<1>0. /\ LowTypes /\ LowQueues /\ LowCalls /\ LowSeen /\ LowParents /\ pc = "flood"
      /\ pc' = "neighbours" /\ p' = front /\ nth' = 0
      /\ UNCHANGED <<f, m, s_f, s, deja_vu, h_idx, mn, calls, pos, x>>
  BY DEF LowInv, Flooding, Pop, inputs
<1>1. hmin' = hmin /\ pmin' = pmin /\ fext' = fext
  BY <1>0 DEF hmin, pmin, fext
<1>2. LowTypes'
  BY <1>0, PopFacts DEF LowTypes, PopOutcome
<1>3. LowQueues'
  BY <1>0, <1>1, PopFacts DEF LowQueues, PopOutcome
<1>4. LowCalls'
  <2>1. h_idx \in Level /\ \A j \in 1..Len(calls) : calls[j].h_idx \in Level
    BY <1>0, CallTypes DEF LowTypes
  <2> QED BY <1>0, <1>1, <2>1 DEF LowCalls, PopOutcome
<1>5. ASSUME NEW t \in Site, Popped(t)' PROVE t = front \/ Popped(t)
  BY <1>0, <1>5, PopFacts DEF Popped
<1>6. LowSeen'
  <2>1. deja_vu'[pmin']
    BY <1>0, <1>1 DEF LowSeen
  <2>2. ASSUME NEW t \in Site, Popped(t)', NEW j \in 1..Len(Nbh[t]),
               Nbh[t][j] \in Site, ~ deja_vu'[Nbh[t][j]]
        PROVE  ToBrowse(t, j)'
    <3>1. CASE t = front
      BY <1>0, <3>1 DEF ToBrowse
    <3>2. CASE Popped(t)
      <4>1. ToBrowse(t, j)
        BY <1>0, <2>2, <3>2 DEF LowSeen
      <4> QED BY <1>0, <4>1 DEF ToBrowse
    <3> QED BY <1>5, <2>2, <3>1, <3>2
  <2> QED BY <2>1, <2>2 DEF LowSeen
<1>7. LowParents'
  <2>1. \A t \in Site : Popped(t)' => Linked(t)'
    BY <1>0, <1>5 DEF LowParents, PopOutcome, Linked
  <2> QED BY <2>1 DEF LowParents, PopOutcome
<1> QED BY <1>0, <1>2, <1>3, <1>4, <1>6, <1>7 DEF LowInv, Flooding

LEMMA PopAboveStep == ASSUME LowInv, PopAbove PROVE LowInv'
<1>0. /\ LowTypes /\ LowQueues /\ LowCalls /\ LowParents /\ Pop
      /\ front \in Site /\ Extend(front) \in AllSites /\ front \in AllSites /\ h_idx \in Level
      /\ UNCHANGED <<f, m, is_node_at_level, node_at_level>>
  BY PopFacts, SiteFacts DEF LowInv, PopAbove, nodes, LowTypes, Pop, inputs
<1>a. PICK node : node = node_at_level[h_idx]
  OBVIOUS
<1>1. node \in AllSites /\ node # Unset /\ is_node_at_level[h_idx]
  BY <1>0, <1>a, SiteFacts DEF LowCalls, LowQueues
<1>2. /\ parent' = [parent EXCEPT ![Extend(front)] = node, ![front] = node]
      /\ parent \in [AllSites -> AllSites \cup {Unset}]
  BY <1>0, <1>a DEF PopAbove, LowTypes
<1>3. LevelNode(node)'
  BY <1>0, <1>1, <1>a DEF LevelNode
<1>4. parent'[front] = node
  BY <1>0, <1>2
<1>5. parent' \in [AllSites -> AllSites \cup {Unset}]
  BY <1>1, <1>2
<1>6. \A t \in AllSites : parent'[t] = parent[t] \/ parent'[t] = node
  BY <1>2
<1>7. \A t \in AllSites : Linked(t) => Linked(t)'
  BY <1>1, <1>6 DEF Linked
<1>8. ASSUME NEW t \in AllSites, Linked(t)' PROVE Linked(parent[t])' \/ LevelNode(parent[t])'
  <2>1. CASE parent'[t] = node
    BY <1>3, <2>1 DEF LevelNode
  <2>2. CASE parent'[t] = parent[t]
    <3>1. parent[t] \in AllSites /\ Linked(t)
      BY <1>2, <1>8, <2>2 DEF Linked
    <3>2. Linked(parent[t]) \/ LevelNode(parent[t])
      BY <1>0, <3>1 DEF LowParents
    <3>3. Linked(parent[t]) => parent'[parent[t]] # Unset
      BY <1>7, <3>1 DEF Linked
    <3> QED BY <1>0, <2>2, <3>2, <3>3 DEF Linked, LevelNode
  <2> QED BY <1>6, <2>1, <2>2
<1>9. PopOutcome
  BY <1>0, <1>1, <1>4, <1>5, <1>7, <1>8, SiteFacts DEF PopOutcome, LowTypes, LowQueues, Linked
<1> QED BY <1>0, <1>9, PopStep

LEMMA GivenParent ==
    ASSUME LowInv, Pop, f[front] <= h_idx,
           NEW node \in AllSites, fext[node] = f[front],
           IF is_node_at_level[f[front]] THEN node = node_at_level[f[front]] ELSE node = front,
           NEW link \in [AllSites -> AllSites \cup {Unset}],
           \A t \in AllSites : \/ link[t] = parent[t]
                               \/ link[t] = node_at_level[h_idx] /\ f[front] < h_idx,
           AtOrBelow(front, node, link),
           is_node_at_level' = [is_node_at_level EXCEPT ![f[front]] = TRUE]
    PROVE  PopOutcome
<1>0. /\ LowTypes /\ LowQueues /\ LowCalls /\ LowParents
      /\ front \in Site /\ front \in AllSites /\ h_idx \in Level
      /\ f[front] \in Level /\ fext[front] = f[front]
      /\ UNCHANGED <<f, m>>
  BY PopFacts, SiteFacts, FextFacts DEF LowInv, LowTypes, Pop, inputs
<1>1. PICK rep \in {front, node} :
        /\ node_at_level' = [node_at_level EXCEPT ![f[front]] = rep]
        /\ parent' \in [AllSites -> AllSites \cup {Unset}]
        /\ parent'[front] = rep
        /\ rep # node => parent'[node] = front
        /\ \A u \in AllSites : u \notin {front, node} => parent'[u] = link[u]
        /\ parent'[node] \in {rep, link[node]}
  <2>1. node_at_level \in [Level -> AllSites \cup {Unset}]
    BY <1>0 DEF LowTypes
  <2> QED BY <1>0, <2>1, AtOrBelowFacts
<1>2. PICK top : top = node_at_level[h_idx]
  OBVIOUS
<1>3. top \in AllSites /\ is_node_at_level[h_idx] /\ Level \subseteq Nat
  <2>1. Level \subseteq Nat
    BY LevelsAssumption DEF Level
  <2> QED BY <1>0, <1>2, <2>1 DEF LowCalls, LowQueues
<1>4. /\ is_node_at_level' \in [Level -> BOOLEAN]
      /\ node_at_level' \in [Level -> AllSites \cup {Unset}]
      /\ \A l \in Level : is_node_at_level[l] => is_node_at_level'[l]
      /\ \A l \in Level : is_node_at_level'[l] /\ l > h_idx => is_node_at_level[l]
      /\ is_node_at_level'[f[front]] /\ node_at_level'[f[front]] = rep
      /\ \A l \in Level : l # f[front] => /\ node_at_level'[l] = node_at_level[l]
                                          /\ is_node_at_level'[l] = is_node_at_level[l]
  BY <1>0, <1>1, <1>3 DEF LowTypes
<1>5. \A l \in Level : is_node_at_level'[l] =>
         node_at_level'[l] \in AllSites /\ fext[node_at_level'[l]] = l
  BY <1>0, <1>1, <1>4 DEF LowQueues
<1>6. rep \in AllSites /\ rep # Unset /\ front # Unset /\ top # Unset
  BY <1>0, <1>1, <1>3, SiteFacts
<1>7. LevelNode(rep)' /\ parent'[front] # Unset
  BY <1>0, <1>1, <1>4, <1>6 DEF LevelNode
<1>8. f[front] < h_idx => LevelNode(top)'
  BY <1>0, <1>2, <1>3, <1>4 DEF LevelNode
<1>9. \A u \in AllSites : \/ parent'[u] \in {rep, front, parent[u]}
                          \/ parent'[u] = top /\ f[front] < h_idx
  <2> SUFFICES ASSUME NEW u \in AllSites
               PROVE  \/ parent'[u] \in {rep, front, parent[u]}
                      \/ parent'[u] = top /\ f[front] < h_idx
    OBVIOUS
  <2>1. \/ link[u] = parent[u]
        \/ link[u] = top /\ f[front] < h_idx
    BY <1>2
  <2>2. parent'[u] \in {rep, front, link[u]}
    BY <1>1
  <2> QED BY <2>1, <2>2
<1>10. \A t \in AllSites : Linked(t) => Linked(t)'
  BY <1>6, <1>9 DEF Linked
<1>11. ASSUME NEW t \in AllSites, Linked(t)' PROVE Linked(parent[t])' \/ LevelNode(parent[t])'
  <2>1. CASE parent'[t] = rep
    BY <1>7, <2>1 DEF LevelNode
  <2>2. CASE parent'[t] = front
    BY <1>7, <2>2 DEF Linked
  <2>3. CASE parent'[t] = top /\ f[front] < h_idx
    BY <1>8, <2>3 DEF LevelNode
  <2>4. CASE parent'[t] = parent[t]
    <3>1. PICK u : u = parent[t]
      OBVIOUS
    <3>2. u \in AllSites /\ (Linked(u) \/ LevelNode(u))
      BY <1>0, <1>11, <2>4, <3>1 DEF LowParents, Linked, LowTypes
    <3>3. Linked(u) => Linked(u)'
      BY <1>10, <3>2
    <3>4. ASSUME LevelNode(u) PROVE Linked(u)' \/ LevelNode(u)'
      <4>1. PICK l \in Level : is_node_at_level[l] /\ node_at_level[l] = u
        BY <3>4 DEF LevelNode
      <4>2. CASE l # f[front]
        BY <1>4, <4>1, <4>2 DEF LevelNode
      <4>3. CASE l = f[front]
        <5>1. u = node
          BY <4>1, <4>3
        <5>2. rep # node => parent'[u] = front
          BY <1>1, <5>1
        <5> QED BY <1>6, <1>7, <5>1, <5>2 DEF Linked
      <4> QED BY <4>2, <4>3
    <3>5. Linked(u)' \/ LevelNode(u)'
      BY <3>2, <3>3, <3>4
    <3> QED BY <2>4, <3>1, <3>5 DEF Linked, LevelNode
  <2> QED BY <1>9, <2>1, <2>2, <2>3, <2>4
<1> QED BY <1>4, <1>5, <1>1, <1>7, <1>10, <1>11, SiteFacts DEF PopOutcome

LEMMA PopRegularStep == ASSUME LowInv, PopRegular PROVE LowInv'
<1>0. /\ LowTypes /\ LowQueues /\ LowCalls /\ Pop
      /\ front \in Site /\ f[front] = h_idx /\ h_idx \in Level
      /\ parent \in [AllSites -> AllSites \cup {Unset}]
      /\ AtOrBelow(front, node_at_level[h_idx], parent)
      /\ is_node_at_level' = is_node_at_level
  BY PopFacts DEF LowInv, LowTypes, PopRegular
<1>1. PICK node : node = node_at_level[h_idx]
  OBVIOUS
<1>2. node \in AllSites /\ fext[node] = h_idx /\ is_node_at_level[h_idx]
  BY <1>0, <1>1 DEF LowCalls, LowQueues
<1>3. is_node_at_level' = [is_node_at_level EXCEPT ![f[front]] = TRUE]
  BY <1>0, <1>2 DEF LowTypes
<1>4. h_idx <= h_idx /\ AtOrBelow(front, node, parent)
  BY <1>0, <1>1, FextFacts DEF LowTypes
<1>5. PopOutcome
  BY <1>0, <1>1, <1>2, <1>3, <1>4, GivenParent
<1> QED BY <1>0, <1>5, PopStep

LEMMA PopBelowStep == ASSUME LowInv, PopBelow PROVE LowInv'
<1>0. /\ LowTypes /\ LowQueues /\ LowCalls /\ Pop
      /\ front \in Site /\ f[front] < h_idx /\ h_idx \in Level
      /\ f \in [Site -> Value] /\ m \in [Site -> Value]
      /\ parent \in [AllSites -> AllSites \cup {Unset}]
      /\ is_node_at_level' = [is_node_at_level EXCEPT ![f[front]] = TRUE]
  BY PopFacts DEF LowInv, LowTypes, PopBelow
<1>1. PICK node : node = IF is_node_at_level[f[front]] THEN node_at_level[f[front]] ELSE front
  OBVIOUS
<1>2. PICK link : link = [parent EXCEPT ![Extend(front)] = node_at_level[h_idx]]
  OBVIOUS
<1>3. f[front] \in Level /\ fext[front] = f[front] /\ f[front] <= h_idx
  BY <1>0, FextFacts
<1>4. node \in AllSites /\ fext[node] = f[front]
  BY <1>0, <1>1, <1>3, SiteFacts DEF LowQueues
<1>5. node_at_level[h_idx] \in AllSites
  BY <1>0 DEF LowCalls, LowQueues
<1>6. /\ link \in [AllSites -> AllSites \cup {Unset}]
      /\ \A t \in AllSites : \/ link[t] = parent[t]
                             \/ link[t] = node_at_level[h_idx] /\ f[front] < h_idx
  BY <1>0, <1>2, <1>5
<1>7. AtOrBelow(front, node, link)
  BY <1>0, <1>1, <1>2 DEF PopBelow
<1>8. PopOutcome
  BY <1>0, <1>1, <1>3, <1>4, <1>6, <1>7, GivenParent
<1> QED BY <1>0, <1>8, PopStep

LEMMA NbhFacts ==
    ASSUME NEW t \in Site
    PROVE  /\ Nbh[t] \in Seq(Site \cup {Outside}) /\ Len(Nbh[t]) \in Nat
           /\ DOMAIN Nbh[t] = 1..Len(Nbh[t])
           /\ \A j \in 1..Len(Nbh[t]) : Nbh[t][j] \in Site \/ Nbh[t][j] = Outside
           /\ Outside \notin Site
<1>1. Nbh[t] \in Seq(Site \cup {Outside})
  BY RegionsAssumption
<1>2. Outside \notin Site
  BY SiteFacts DEF Outside
<1> QED BY <1>1, <1>2

\* A step that only moves on in the frame of the flood.
LEMMA SkipNeighbourStep == ASSUME LowInv, SkipNeighbour PROVE LowInv'
<1>0. /\ LowTypes /\ LowQueues /\ LowCalls /\ LowSeen /\ LowParents
      /\ pc = "neighbours" /\ nth < Len(Nbh[p]) /\ ~ Unseen(Neighbour) /\ nth' = nth + 1
      /\ UNCHANGED <<f, m, s_f, parent, s, pc, hqueues, is_node_at_level, node_at_level, deja_vu,
                     h_idx, p, mn, calls, pos, x>>
  BY DEF LowInv, Flooding, SkipNeighbour, HasNeighbour, inputs, nodes
<1>1. hmin' = hmin /\ pmin' = pmin /\ fext' = fext /\ nth \in Nat /\ p \in Site
  BY <1>0 DEF hmin, pmin, fext, LowTypes
<1>2. LowTypes'
  BY <1>0, <1>1 DEF LowTypes
<1>3. LowQueues'
  BY <1>0, <1>1 DEF LowQueues, Waits
<1>4. LowCalls'
  BY <1>0, <1>1 DEF LowCalls
<1>5. LowParents'
  BY <1>0 DEF LowParents, Popped, Waits, Linked, LevelNode
<1>6. LowSeen'
  <2>1. ASSUME NEW t \in Site, Popped(t), NEW j \in 1..Len(Nbh[t]),
               Nbh[t][j] \in Site, ~ deja_vu[Nbh[t][j]]
        PROVE  ToBrowse(t, j)'
    <3>1. ToBrowse(t, j)
      BY <1>0, <2>1 DEF LowSeen
    <3>2. ~ (p = t /\ j = nth + 1)
      BY <1>0, <2>1, NbhFacts DEF Unseen, Neighbour
    <3> QED BY <1>0, <1>1, <3>1, <3>2 DEF ToBrowse
  <2> QED BY <1>0, <1>1, <2>1 DEF LowSeen, Popped, Waits
<1> QED BY <1>0, <1>2, <1>3, <1>4, <1>5, <1>6 DEF LowInv, Flooding

LEMMA FloodNeighboursDone == ASSUME LowInv, NeighboursDone PROVE LowInv'
<1>0. /\ LowTypes /\ LowQueues /\ LowCalls /\ LowSeen /\ LowParents
      /\ pc = "neighbours" /\ nth = Len(Nbh[p]) /\ pc' = "flood"
      /\ UNCHANGED <<f, m, s_f, parent, s, hqueues, is_node_at_level, node_at_level, deja_vu,
                     h_idx, p, nth, mn, calls, pos, x>>
  BY DEF LowInv, Flooding, NeighboursDone, inputs, nodes, frame
<1>1. hmin' = hmin /\ pmin' = pmin /\ fext' = fext /\ nth \in Nat /\ p \in Site
  BY <1>0 DEF hmin, pmin, fext, LowTypes
<1>2. LowTypes'
  BY <1>0, <1>1 DEF LowTypes
<1>3. LowQueues'
  BY <1>0, <1>1 DEF LowQueues, Waits
<1>4. LowCalls'
  BY <1>0, <1>1 DEF LowCalls
<1>5. LowParents'
  BY <1>0 DEF LowParents, Popped, Waits, Linked, LevelNode
<1>6. LowSeen'
  <2>1. ASSUME NEW t \in Site, Popped(t), NEW j \in 1..Len(Nbh[t]),
               Nbh[t][j] \in Site, ~ deja_vu[Nbh[t][j]]
        PROVE  ToBrowse(t, j)'
    <3>1. ToBrowse(t, j)
      BY <1>0, <2>1 DEF LowSeen
    <3>2. ~ (p = t /\ j > nth)
      BY <1>0, <2>1, NbhFacts
    <3> QED BY <1>0, <1>1, <3>1, <3>2 DEF ToBrowse
  <2> QED BY <1>0, <1>1, <2>1 DEF LowSeen, Popped, Waits
<1> QED BY <1>0, <1>2, <1>3, <1>4, <1>5, <1>6 DEF LowInv, Flooding

LEMMA NoCallStep == ASSUME LowInv, NoCall PROVE LowInv'
<1>0. /\ LowTypes /\ LowQueues /\ LowCalls /\ LowSeen /\ LowParents
      /\ pc = "pushed" /\ mn <= h_idx /\ pc' = "neighbours"
      /\ UNCHANGED <<f, m, s_f, parent, s, hqueues, is_node_at_level, node_at_level, deja_vu,
                     h_idx, p, nth, mn, calls, pos, x>>
  BY DEF LowInv, Flooding, NoCall, inputs, nodes, frame
<1>1. hmin' = hmin /\ pmin' = pmin /\ fext' = fext /\ mn \in Nat /\ h_idx \in Nat /\ p \in Site
      /\ Level \subseteq Nat
  BY <1>0, LevelsAssumption DEF hmin, pmin, fext, LowTypes, Level
<1>2. LowTypes'
  BY <1>0, <1>1 DEF LowTypes
<1>3. LowQueues'
  BY <1>0, <1>1 DEF LowQueues, Waits
<1>4. LowCalls'
  BY <1>0, <1>1 DEF LowCalls
<1>5. LowParents'
  BY <1>0 DEF LowParents, Popped, Waits, Linked, LevelNode
<1>6. LowSeen'
  BY <1>0, <1>1 DEF LowSeen, Popped, Waits, ToBrowse
<1> QED BY <1>0, <1>2, <1>3, <1>4, <1>5, <1>6 DEF LowInv, Flooding

LEMMA PushNeighbourStep == ASSUME LowInv, PushNeighbour PROVE LowInv'
<1>a. PICK t : t = Neighbour
  OBVIOUS
<1>b. PICK l : l = m[t]
  OBVIOUS
<1>0. /\ LowTypes /\ LowQueues /\ LowCalls /\ LowSeen /\ LowParents
      /\ pc = "neighbours" /\ nth < Len(Nbh[p]) /\ Unseen(t) /\ nth' = nth + 1
      /\ hqueues' = [hqueues EXCEPT ![l] = Append(hqueues[l], t)]
      /\ deja_vu' = [deja_vu EXCEPT ![t] = TRUE]
      /\ is_node_at_level' = [is_node_at_level EXCEPT ![l] = TRUE]
      /\ node_at_level' = [node_at_level EXCEPT ![l] = IF is_node_at_level[l]
                             THEN node_at_level[l] ELSE NodeOf(t)]
      /\ mn' = l /\ pc' = "pushed"
      /\ UNCHANGED <<f, m, s_f, parent, s, h_idx, p, calls, pos, x>>
  BY <1>a, <1>b DEF LowInv, Flooding, PushNeighbour, HasNeighbour, inputs
<1>1. /\ hmin' = hmin /\ pmin' = pmin /\ fext' = fext /\ nth \in Nat /\ p \in Site
      /\ f \in [Site -> Value] /\ m \in [Site -> Value] /\ Level \subseteq Nat /\ h_idx \in Level
  BY <1>0, LevelsAssumption DEF hmin, pmin, fext, LowTypes, Level
<1>2. t \in Site /\ ~ deja_vu[t] /\ t \in AllSites /\ t = Nbh[p][nth + 1]
  <2>1. nth + 1 \in 1..Len(Nbh[p]) /\ t = Nbh[p][nth + 1]
    BY <1>0, <1>1, <1>a, NbhFacts DEF Neighbour
  <2> QED BY <1>0, <1>1, <2>1, NbhFacts, SiteFacts DEF Unseen
<1>3. l \in Level /\ NodeOf(t) \in AllSites /\ fext[NodeOf(t)] = l
  BY <1>1, <1>2, <1>b, FextFacts, SiteFacts DEF NodeOf
<1>4. /\ hqueues[l] \in Seq(Site) /\ Append(hqueues[l], t) \in Seq(Site)
      /\ Len(hqueues[l]) \in Nat
      /\ Len(Append(hqueues[l], t)) = Len(hqueues[l]) + 1
      /\ Append(hqueues[l], t)[Len(hqueues[l]) + 1] = t
      /\ \A j \in 1..Len(hqueues[l]) : Append(hqueues[l], t)[j] = hqueues[l][j]
  <2>1. hqueues[l] \in Seq(Site)
    BY <1>0, <1>3 DEF LowTypes
  <2> QED BY <1>2, <2>1
<1>5. ASSUME NEW u \in Site, NEW k \in Level
      PROVE  Waits(u, k)' <=> Waits(u, k) \/ (u = t /\ k = l)
  <2>1. CASE k # l
    <3>1. hqueues'[k] = hqueues[k]
      BY <1>0, <2>1 DEF LowTypes
    <3> QED BY <2>1, <3>1 DEF Waits
  <2>2. CASE k = l
    <3>1. hqueues'[k] = Append(hqueues[l], t)
      BY <1>0, <1>3, <2>2 DEF LowTypes
    <3>2. Waits(u, k)' <=> \E j \in 1..(Len(hqueues[l]) + 1) : Append(hqueues[l], t)[j] = u
      BY <1>4, <3>1 DEF Waits
    <3>3. \A j : j \in 1..(Len(hqueues[l]) + 1) <=> j \in 1..Len(hqueues[l]) \/ j = Len(hqueues[l]) + 1
      BY <1>4
    <3> QED BY <1>4, <2>2, <3>2, <3>3 DEF Waits
  <2> QED BY <2>1, <2>2
<1>6. /\ hqueues' \in [Level -> Seq(Site)]
      /\ is_node_at_level' \in [Level -> BOOLEAN]
      /\ node_at_level' \in [Level -> AllSites \cup {Unset}]
      /\ deja_vu' \in [AllSites -> BOOLEAN] /\ nth' \in Nat /\ mn' \in Level
  <2>1. hqueues' \in [Level -> Seq(Site)] /\ deja_vu' \in [AllSites -> BOOLEAN]
    BY <1>0, <1>3, <1>4 DEF LowTypes
  <2>2. is_node_at_level' \in [Level -> BOOLEAN]
    BY <1>0, <1>3 DEF LowTypes
  <2>3. node_at_level' \in [Level -> AllSites \cup {Unset}]
    BY <1>0, <1>3 DEF LowTypes
  <2> QED BY <1>0, <1>1, <1>3, <2>1, <2>2, <2>3
<1>7. LowTypes'
  BY <1>0, <1>1, <1>6 DEF LowTypes
<1>8. /\ is_node_at_level'[l]
      /\ \A k \in Level : is_node_at_level'[k] <=> is_node_at_level[k] \/ k = l
      /\ \A k \in Level : is_node_at_level[k] => node_at_level'[k] = node_at_level[k]
      /\ ~ is_node_at_level[l] => node_at_level'[l] = NodeOf(t)
      /\ \A u \in AllSites : deja_vu'[u] <=> deja_vu[u] \/ u = t
  BY <1>0, <1>2, <1>3 DEF LowTypes
<1>9. LowQueues'
  <2>1. \A k \in Level, u \in Site : Waits(u, k)' => deja_vu'[u] /\ m'[u] = k
    BY <1>0, <1>b, <1>5, <1>8, SiteFacts DEF LowQueues
  <2>2. \A k \in Level : hqueues'[k] # <<>> => is_node_at_level'[k]
    <3>1. \A k \in Level : k # l => hqueues'[k] = hqueues[k]
      BY <1>0 DEF LowTypes
    <3> QED BY <1>0, <1>8, <3>1 DEF LowQueues
  <2>3. \A k \in Level : is_node_at_level'[k] =>
          node_at_level'[k] \in AllSites /\ fext[node_at_level'[k]] = k
    BY <1>0, <1>3, <1>8 DEF LowQueues
  <2> QED BY <1>1, <2>1, <2>2, <2>3 DEF LowQueues
<1>10. LowCalls'
  <2>1. \A j \in 1..Len(calls) : calls[j].h_idx \in Level
    BY <1>0, CallTypes
  <2> QED BY <1>0, <1>1, <1>3, <1>8, <2>1 DEF LowCalls
<1>11. \A u \in Site : Popped(u)' => Popped(u) /\ u # t
  BY <1>3, <1>5, <1>8, SiteFacts DEF Popped
<1>12. LowSeen'
  <2>1. deja_vu'[pmin]
    BY <1>0, <1>1, <1>8, SeedFacts, SiteFacts DEF LowSeen
  <2>2. ASSUME NEW u \in Site, Popped(u), NEW j \in 1..Len(Nbh[u]),
               Nbh[u][j] \in Site, ~ deja_vu'[Nbh[u][j]]
        PROVE  ToBrowse(u, j)'
    <3>1. ~ deja_vu[Nbh[u][j]] /\ Nbh[u][j] # t
      BY <1>8, <2>2, SiteFacts
    <3>2. ToBrowse(u, j)
      BY <1>0, <2>2, <3>1 DEF LowSeen
    <3>3. ~ (p = u /\ j = nth + 1)
      BY <1>2, <3>1
    <3> QED BY <1>0, <1>1, <3>2, <3>3 DEF ToBrowse
  <2> QED BY <1>1, <1>11, <2>1, <2>2 DEF LowSeen
<1>13. LowParents'
  <2>1. \A u : LevelNode(u) => LevelNode(u)'
    BY <1>8 DEF LevelNode
  <2>2. \A u : Linked(u)' <=> Linked(u)
    BY <1>0 DEF Linked
  <2>3. ASSUME NEW u \in AllSites, Linked(u)' PROVE Linked(parent[u])' \/ LevelNode(parent[u])'
    <3>1. PICK w : w = parent[u]
      OBVIOUS
    <3>2. Linked(w) \/ LevelNode(w)
      BY <1>0, <2>2, <2>3, <3>1 DEF LowParents
    <3>3. Linked(w)' \/ LevelNode(w)'
      BY <2>1, <2>2, <3>2
    <3> QED BY <1>0, <3>1, <3>3 DEF Linked, LevelNode
  <2> QED BY <1>0, <1>11, <2>2, <2>3 DEF LowParents
<1> QED BY <1>0, <1>7, <1>9, <1>10, <1>12, <1>13 DEF LowInv, Flooding

LEMMA CallStep == ASSUME LowInv, Call PROVE LowInv'
<1>a. PICK c : c = [h_idx |-> h_idx, p |-> p, nth |-> nth]
  OBVIOUS
<1>0. /\ LowTypes /\ LowQueues /\ LowCalls /\ LowSeen /\ LowParents
      /\ pc = "pushed" /\ mn > h_idx /\ calls' = Append(calls, c)
      /\ h_idx' = mn /\ pc' = "flood"
      /\ UNCHANGED <<f, m, s_f, parent, s, hqueues, is_node_at_level, node_at_level, deja_vu,
                     p, nth, mn, pos, x>>
  BY <1>a DEF LowInv, Flooding, Call, inputs, nodes
<1>1. /\ hmin' = hmin /\ pmin' = pmin /\ fext' = fext /\ nth \in Nat /\ p \in Site
      /\ Level \subseteq Nat /\ h_idx \in Level /\ mn \in Level
  BY <1>0, LevelsAssumption DEF hmin, pmin, fext, LowTypes, Level
<1>2. c \in [h_idx : Level, p : Site, nth : Nat] /\ c.h_idx = h_idx /\ c.p = p /\ c.nth = nth
  BY <1>1, <1>a
<1>3. /\ calls' \in Seq([h_idx : Level, p : Site, nth : Nat])
      /\ Len(calls) \in Nat /\ Len(calls') = Len(calls) + 1
      /\ calls'[Len(calls) + 1] = c /\ \A j \in 1..Len(calls) : calls'[j] = calls[j]
  <2> DEFINE R == [h_idx : Level, p : Site, nth : Nat]
  <2>1. calls \in Seq(R) /\ c \in R
    BY <1>0, <1>2 DEF LowTypes
  <2> HIDE DEF R
  <2>2. calls' \in Seq(R)
    BY <1>0, <2>1
  <2>3. /\ Len(calls) \in Nat /\ Len(calls') = Len(calls) + 1
        /\ calls'[Len(calls) + 1] = c /\ \A j \in 1..Len(calls) : calls'[j] = calls[j]
    BY <1>0, <2>1
  <2> QED BY <2>2, <2>3 DEF R
<1>4. LowTypes'
  BY <1>0, <1>1, <1>3 DEF LowTypes
<1>5. LowQueues'
  <2>1. \A t, l : Waits(t, l)' <=> Waits(t, l)
    BY <1>0 DEF Waits
  <2> QED BY <1>0, <1>1, <2>1 DEF LowQueues
<1>6. LowParents'
  BY <1>0 DEF LowParents, Popped, Waits, Linked, LevelNode
<1>7. LowCalls'
  <2>0. \A j \in 1..Len(calls) : calls[j].h_idx \in Level
    BY <1>0, CallTypes
  <2>1. is_node_at_level'[h_idx']
    BY <1>0 DEF LowCalls
  <2>2. ASSUME NEW j \in 1..Len(calls')
        PROVE  calls'[j].h_idx < h_idx' /\ is_node_at_level'[calls'[j].h_idx]
    <3>1. CASE j = Len(calls) + 1
      BY <1>0, <1>2, <1>3, <3>1 DEF LowCalls
    <3>2. CASE j \in 1..Len(calls)
      <4>1. calls[j].h_idx < h_idx /\ is_node_at_level[calls[j].h_idx] /\ calls[j].h_idx \in Level
        BY <1>0, <2>0, <3>2 DEF LowCalls
      <4>2. \A a, b, c1 \in Nat : a < b /\ c1 > b => a < c1
        OBVIOUS
      <4>3. calls[j].h_idx < mn
        BY <1>0, <1>1, <4>1, <4>2
      <4>4. calls'[j] = calls[j]
        BY <1>3, <3>2
      <4> QED BY <1>0, <4>1, <4>3, <4>4
    <3> QED BY <1>3, <3>1, <3>2
  <2>3. ASSUME NEW i \in 1..Len(calls'), NEW j \in 1..Len(calls'), i < j
        PROVE  calls'[i].h_idx < calls'[j].h_idx
    <3>1. i \in 1..Len(calls) /\ calls'[i] = calls[i] /\ calls[i].h_idx < h_idx
      BY <1>0, <1>3, <2>3 DEF LowCalls
    <3>2. CASE j = Len(calls) + 1
      BY <1>2, <1>3, <3>1, <3>2
    <3>3. CASE j \in 1..Len(calls)
      BY <1>0, <1>3, <2>3, <3>1, <3>3 DEF LowCalls
    <3> QED BY <1>3, <3>2, <3>3
  <2>4. hmin = calls'[1].h_idx /\ calls' # <<>>
    <3>1. CASE calls = <<>>
      <4>1. Len(calls) = 0 /\ calls'[1] = c
        BY <1>3, <3>1
      <4> QED BY <1>0, <1>2, <1>3, <3>1, <4>1 DEF LowCalls
    <3>2. CASE calls # <<>>
      <4>1. 1 \in 1..Len(calls)
        BY <1>0, <3>2, CallTypes
      <4> QED BY <1>0, <1>3, <3>2, <4>1 DEF LowCalls
    <3> QED BY <3>1, <3>2
  <2>5. \A l \in Level : is_node_at_level'[l] => ~ (l > h_idx')
    BY <1>0, <1>1 DEF LowCalls
  <2> QED BY <1>0, <1>1, <2>1, <2>2, <2>3, <2>4, <2>5 DEF LowCalls
<1>8. LowSeen'
  <2>1. ASSUME NEW t \in Site, NEW j, ToBrowse(t, j) PROVE ToBrowse(t, j)'
    <3>1. CASE p = t /\ j > nth
      <4>1. Len(calls) + 1 \in 1..Len(calls')
        BY <1>3
      <4> QED BY <1>2, <1>3, <3>1, <4>1 DEF ToBrowse
    <3>2. CASE \E i \in 1..Len(calls) : calls[i].p = t /\ j > calls[i].nth
      BY <1>3, <3>2 DEF ToBrowse
    <3> QED BY <2>1, <3>1, <3>2 DEF ToBrowse
  <2> QED BY <1>0, <1>1, <2>1 DEF LowSeen, Popped, Waits
<1> QED BY <1>0, <1>4, <1>5, <1>6, <1>7, <1>8 DEF LowInv, Flooding

LEMMA DadFacts ==
    ASSUME LowTypes
    PROVE  /\ Dad \in Level
           /\ Dad > 0 => Dad < h_idx /\ is_node_at_level[Dad]
           /\ \A l \in Level : l > 0 /\ l < h_idx /\ is_node_at_level[l] => l <= Dad
<1> DEFINE under == {l \in 1..(h_idx - 1) : is_node_at_level[l]}
<1>0. Level = 0..MaxValue /\ MaxValue \in Nat /\ h_idx \in Level
  BY LevelsAssumption DEF LowTypes, Level
<1>1. CASE under = {}
  <2>1. Dad = 0
    BY <1>1 DEF Dad
  <2> QED BY <1>0, <1>1, <2>1
<1>2. CASE under # {}
  <2> DEFINE Above == {h_idx - l : l \in under}
  <2>1. PICK a \in Above : \A b \in Above : a <= b
    <3>1. Above \in SUBSET Nat /\ Above # {}
      BY <1>0, <1>2
    <3> HIDE DEF Above
    <3> QED BY <3>1, LeastNat
  <2>2. PICK k \in under : \A l \in under : k >= l
    <3>1. PICK k \in under : a = h_idx - k
      BY <2>1
    <3>2. ASSUME NEW l \in under PROVE k >= l
      <4>1. h_idx - l \in Above
        OBVIOUS
      <4>2. a <= h_idx - l
        BY <2>1, <4>1
      <4> QED BY <1>0, <3>1, <4>2
    <3> QED BY <3>2
  <2>3. Dad = Max(under)
    BY <1>2 DEF Dad
  <2> HIDE DEF under
  <2>4. Dad \in under /\ \A l \in under : Dad >= l
    BY <2>2, <2>3 DEF Max
  <2> USE DEF under
  <2>5. Dad \in 1..(h_idx - 1) /\ is_node_at_level[Dad]
    BY <2>4
  <2>6. \A l \in Level : l > 0 /\ l < h_idx /\ is_node_at_level[l] => l \in under
    BY <1>0
  <2>7. Dad \in Level /\ Dad < h_idx
    BY <1>0, <2>5
  <2> HIDE DEF under
  <2>8. \A l \in Level : l > 0 /\ l < h_idx /\ is_node_at_level[l] => l <= Dad
    BY <1>0, <2>4, <2>6, <2>7
  <2> QED BY <2>5, <2>7, <2>8
<1> QED BY <1>1, <1>2

\* What the end of a flood leaves of the nodes and of the parents.
LEMMA AttachFacts ==
    ASSUME LowInv, Attach
    PROVE  /\ is_node_at_level' \in [Level -> BOOLEAN]
           /\ \A l \in Level : is_node_at_level'[l] <=> is_node_at_level[l] /\ l # h_idx
           /\ parent' \in [AllSites -> AllSites \cup {Unset}]
           /\ \A t \in AllSites : Linked(t) => Linked(t)'
           /\ \A t \in AllSites : Linked(t)' => Linked(parent[t])' \/ LevelNode(parent[t])'
           /\ \A t \in Site : Popped(t)' => Popped(t)
           /\ hmin' = hmin /\ pmin' = pmin /\ fext' = fext
<1>0. /\ LowTypes /\ LowQueues /\ LowCalls /\ LowSeen /\ LowParents
      /\ pc = "flood" /\ hqueues[h_idx] = <<>>
      /\ is_node_at_level' = [is_node_at_level EXCEPT ![h_idx] = FALSE]
      /\ UNCHANGED <<f, m, s_f, s, hqueues, node_at_level, deja_vu, pos, x>>
  BY DEF LowInv, Flooding, Attach, inputs
<1>1. hmin' = hmin /\ pmin' = pmin /\ fext' = fext /\ h_idx \in Level /\ 0 \in Level
  BY <1>0, LevelsAssumption DEF hmin, pmin, fext, LowTypes, Level
<1>2. PICK node : node = node_at_level[h_idx]
  OBVIOUS
<1>3. PICK up : up = IF Dad > 0 THEN node_at_level[Dad] ELSE node
  OBVIOUS
<1>4. parent' = [parent EXCEPT ![node] = up] /\ parent \in [AllSites -> AllSites \cup {Unset}]
  BY <1>0, <1>2, <1>3 DEF Attach, LowTypes
<1>5. node \in AllSites
  BY <1>0, <1>1, <1>2 DEF LowCalls, LowQueues
<1>6. /\ is_node_at_level' \in [Level -> BOOLEAN]
      /\ \A l \in Level : is_node_at_level'[l] <=> is_node_at_level[l] /\ l # h_idx
  BY <1>0, <1>1 DEF LowTypes
<1>7. up \in AllSites /\ (up = node \/ LevelNode(up)')
  <2>1. CASE Dad > 0
    <3>1. Dad \in Level /\ is_node_at_level[Dad] /\ Dad # h_idx
      BY <1>0, <1>1, <2>1, DadFacts, LevelsAssumption DEF Level
    <3>2. up = node_at_level[Dad]
      BY <1>3, <2>1
    <3>3. up \in AllSites
      BY <1>0, <3>1, <3>2 DEF LowQueues
    <3> QED BY <1>0, <1>6, <3>1, <3>2, <3>3 DEF LevelNode
  <2>2. CASE ~ (Dad > 0)
    BY <1>3, <1>5, <2>2
  <2> QED BY <2>1, <2>2
<1>8. parent' \in [AllSites -> AllSites \cup {Unset}]
  BY <1>4, <1>7
<1>9. \A t \in AllSites : parent'[t] = IF t = node THEN up ELSE parent[t]
  BY <1>4
<1>10. \A t \in AllSites : Linked(t) => Linked(t)'
  BY <1>7, <1>9, SiteFacts DEF Linked
<1>11. parent'[node] # Unset
  BY <1>5, <1>7, <1>9, SiteFacts
<1>12. ASSUME NEW t \in AllSites, Linked(t)' PROVE Linked(parent[t])' \/ LevelNode(parent[t])'
  <2>1. CASE t = node
    BY <1>5, <1>7, <1>9, <1>11, <2>1 DEF Linked, LevelNode
  <2>2. CASE t # node
    <3>1. PICK u : u = parent[t]
      OBVIOUS
    <3>2. u \in AllSites /\ parent'[t] = u /\ (Linked(u) \/ LevelNode(u))
      BY <1>0, <1>4, <1>9, <1>12, <2>2, <3>1 DEF LowParents, Linked
    <3>3. LevelNode(u) => u = node \/ LevelNode(u)'
      BY <1>0, <1>2, <1>6 DEF LevelNode
    <3>4. Linked(u)' \/ LevelNode(u)'
      BY <1>10, <1>11, <3>2, <3>3 DEF Linked
    <3> QED BY <3>2, <3>4 DEF Linked, LevelNode
  <2> QED BY <2>1, <2>2
<1>13. \A t \in Site : Popped(t)' => Popped(t)
  BY <1>0 DEF Popped, Waits
<1> QED BY <1>1, <1>6, <1>8, <1>10, <1>12, <1>13

LEMMA AttachBack == ASSUME LowInv, Attach, calls # <<>> PROVE LowInv'
<1>a. PICK L : L = Len(calls)
  OBVIOUS
<1>0. /\ LowTypes /\ LowQueues /\ LowCalls /\ LowSeen /\ LowParents
      /\ pc = "flood" /\ hqueues[h_idx] = <<>> /\ mn' = Dad /\ pc' = "pushed"
      /\ h_idx' = calls[L].h_idx /\ p' = calls[L].p /\ nth' = calls[L].nth
      /\ calls' = SubSeq(calls, 1, L - 1)
      /\ UNCHANGED <<f, m, s_f, s, hqueues, node_at_level, deja_vu, pos, x>>
  BY <1>a DEF LowInv, Flooding, Attach, inputs, Last, Front
<1>1. /\ L \in Nat /\ L >= 1 /\ L \in 1..Len(calls)
      /\ \A j \in 1..L : calls[j].h_idx \in Level /\ calls[j].p \in Site /\ calls[j].nth \in Nat
      /\ Level \subseteq Nat /\ h_idx \in Level
  <2>1. LowTypes /\ calls # <<>> /\ h_idx \in Level
    BY <1>0 DEF LowTypes
  <2>2. L \in Nat /\ L # 0
    BY <1>a, <2>1, CallTypes
  <2>3. Level \subseteq Nat
    BY LevelsAssumption DEF Level
  <2> QED BY <1>a, <2>1, <2>2, <2>3, CallTypes
<1>2. /\ calls' \in Seq([h_idx : Level, p : Site, nth : Nat])
      /\ Len(calls') = L - 1 /\ \A j \in 1..(L - 1) : calls'[j] = calls[j]
      /\ calls' = <<>> <=> L = 1
  <2> DEFINE R == [h_idx : Level, p : Site, nth : Nat]
  <2>1. calls \in Seq(R)
    BY <1>0 DEF LowTypes
  <2> HIDE DEF R
  <2>2. calls' \in Seq(R) /\ Len(calls') = L - 1 /\ \A j \in 1..(L - 1) : calls'[j] = calls[j]
    BY <1>0, <1>1, <1>a, <2>1
  <2> QED BY <1>1, <2>2 DEF R
<1>3. LowTypes'
  <2>1. h_idx' \in Level /\ p' \in Site /\ nth' \in Nat
    BY <1>0, <1>1
  <2>2. mn' \in Level
    BY <1>0, DadFacts
  <2> QED BY <1>0, <1>2, <2>1, <2>2, AttachFacts DEF LowTypes
<1>4. LowQueues'
  <2>1. \A t, l : Waits(t, l)' <=> Waits(t, l)
    BY <1>0 DEF Waits
  <2> QED BY <1>0, <2>1, AttachFacts DEF LowQueues
<1>5. LowParents'
  BY <1>0, AttachFacts, SiteFacts DEF LowParents
<1>6. LowSeen'
  <2>1. ASSUME NEW t \in Site, NEW j, ToBrowse(t, j) PROVE ToBrowse(t, j)'
    <3>1. PICK i \in 1..L : calls[i].p = t /\ j > calls[i].nth
      BY <1>0, <1>a, <2>1 DEF ToBrowse
    <3>2. CASE i = L
      BY <1>0, <3>1, <3>2 DEF ToBrowse
    <3>3. CASE i # L
      <4>1. i \in 1..(L - 1) /\ i \in 1..Len(calls') /\ calls'[i] = calls[i]
        BY <1>1, <1>2, <3>3
      <4> QED BY <3>1, <4>1 DEF ToBrowse
    <3> QED BY <3>2, <3>3
  <2> QED BY <1>0, <2>1, AttachFacts DEF LowSeen
<1>7. LowCalls'
  <2>0. calls[L].h_idx < h_idx /\ is_node_at_level[calls[L].h_idx] /\ h_idx' \in Level
    BY <1>0, <1>1 DEF LowCalls
  <2>1. is_node_at_level'[h_idx']
    BY <1>0, <1>1, <2>0, AttachFacts
  <2>2. ASSUME NEW j \in 1..Len(calls')
        PROVE  calls'[j].h_idx < h_idx' /\ is_node_at_level'[calls'[j].h_idx]
    <3>1. j \in 1..(L - 1) /\ j \in 1..Len(calls) /\ j < L /\ calls'[j] = calls[j] /\ j \in 1..L
      BY <1>1, <1>2, <1>a
    <3>2. /\ calls[j].h_idx < h_idx /\ is_node_at_level[calls[j].h_idx]
          /\ calls[j].h_idx < calls[L].h_idx
      BY <1>0, <1>1, <3>1 DEF LowCalls
    <3>3. calls[j].h_idx \in Level /\ calls[j].h_idx # h_idx
      BY <1>1, <3>1, <3>2
    <3> QED BY <1>0, <3>1, <3>2, <3>3, AttachFacts
  <2>3. ASSUME NEW i \in 1..Len(calls'), NEW j \in 1..Len(calls'), i < j
        PROVE  calls'[i].h_idx < calls'[j].h_idx
    <3>1. /\ i \in 1..Len(calls) /\ j \in 1..Len(calls)
          /\ calls'[i] = calls[i] /\ calls'[j] = calls[j]
      <4>1. Len(calls') = L - 1 /\ \A a \in 1..(L - 1) : calls'[a] = calls[a]
        BY <1>2
      <4>2. \A a \in 1..(L - 1) : a \in 1..L
        BY <1>1
      <4> QED BY <1>a, <4>1, <4>2
    <3> QED BY <1>0, <2>3, <3>1 DEF LowCalls
  <2>4. hmin = IF calls' = <<>> THEN h_idx' ELSE calls'[1].h_idx
    <3>1. hmin = calls[1].h_idx
      BY <1>0, <1>1, <1>a, CallTypes DEF LowCalls
    <3>2. CASE L = 1
      BY <1>0, <1>2, <3>1, <3>2
    <3>3. CASE L # 1
      <4>1. calls'[1] = calls[1] /\ calls' # <<>>
        BY <1>1, <1>2, <3>3
      <4> QED BY <3>1, <4>1
    <3> QED BY <3>2, <3>3
  <2>5. ASSUME NEW l \in Level, is_node_at_level'[l], l > h_idx' PROVE l <= mn'
    <3>1. is_node_at_level[l] /\ l # h_idx /\ ~ (l > h_idx)
      BY <1>0, <2>5, AttachFacts DEF LowCalls
    <3>2. l > 0 /\ l < h_idx
      BY <1>1, <2>0, <2>5, <3>1
    <3> QED BY <1>0, <3>1, <3>2, DadFacts
  <2>6. mn' > h_idx' => is_node_at_level'[mn']
    <3>1. h_idx' \in Nat /\ Dad \in Nat /\ Dad \in Level /\ h_idx \in Nat
      BY <1>0, <1>1, <2>0, DadFacts
    <3>2. Dad > h_idx' => Dad > 0
      BY <3>1
    <3>3. Dad > 0 => is_node_at_level[Dad] /\ Dad # h_idx
      BY <1>0, <3>1, DadFacts
    <3> QED BY <1>0, <3>1, <3>2, <3>3, AttachFacts
  <2> QED BY <1>0, <2>1, <2>2, <2>3, <2>4, <2>5, <2>6, AttachFacts DEF LowCalls
<1> QED BY <1>0, <1>3, <1>4, <1>5, <1>6, <1>7 DEF LowInv, Flooding

\* When no flood is pending, the sites that were seen are the whole domain.
LEMMA AllLinked ==
    ASSUME LowInv, pc = "flood", calls = <<>>, hqueues[h_idx] = <<>>
    PROVE  \A t \in Site : Linked(t)
<1>0. /\ LowTypes /\ LowQueues /\ LowCalls /\ LowSeen /\ LowParents
      /\ hmin = h_idx /\ Len(calls) = 0
      /\ \A t \in Site : hmin <= m[t] /\ m[t] \in Level
      /\ pmin \in Site /\ h_idx \in Level /\ Level \subseteq Nat
  <2>1. LowTypes /\ LowCalls
    BY DEF LowInv, Flooding
  <2>2. Level \subseteq Nat
    BY LevelsAssumption DEF Level
  <2> QED BY <2>1, <2>2, SeedFacts, CallTypes, FextFacts DEF LowInv, Flooding, LowCalls, LowTypes
<1>1. ASSUME NEW t \in Site, NEW l \in Level, Waits(t, l) PROVE FALSE
  <2>1. m[t] = l
    BY <1>0, <1>1 DEF LowQueues
  <2>2. hqueues[l] # <<>>
    <3>1. hqueues[l] = <<>> => Len(hqueues[l]) = 0
      OBVIOUS
    <3> QED BY <1>1, <3>1 DEF Waits
  <2>3. is_node_at_level[l] /\ l # h_idx
    BY <1>0, <2>2 DEF LowQueues
  <2>4. l > h_idx
    BY <1>0, <2>1, <2>3
  <2> QED BY <1>0, <2>3, <2>4 DEF LowCalls
<1>2. \A t \in Site : deja_vu[t] => Popped(t)
  BY <1>1 DEF Popped
<1> DEFINE C == {t \in Site : deja_vu[t]}
<1>3. ASSUME NEW t \in C, NEW u \in Neighbours[t] PROVE u \in C
  <2>1. PICK j \in 1..Len(Nbh[t]) : Nbh[t][j] = u
    BY NbhFacts DEF Neighbours
  <2>2. u \in Site /\ ~ ToBrowse(t, j)
    BY <1>0 DEF Neighbours, ToBrowse
  <2> QED BY <1>0, <1>2, <2>1, <2>2 DEF LowSeen
<1>4. C = Site
  <2>1. C # {} /\ C \in SUBSET Site
    BY <1>0 DEF LowSeen
  <2> HIDE DEF C
  <2>2. C # Site => \E t \in C : Neighbours[t] \cap (Site \ C) # {}
    BY <2>1, DomainAssumption DEF IsConnected
  <2> QED BY <1>3, <2>2
<1> QED BY <1>0, <1>2, <1>4 DEF LowParents

LEMMA AttachEnd == ASSUME LowInv, Attach, calls = <<>> PROVE LowInv'
<1>0. /\ LowTypes /\ LowQueues /\ LowCalls /\ LowSeen /\ LowParents
      /\ pc = "flood" /\ hqueues[h_idx] = <<>> /\ mn' = Dad /\ pc' = "root"
      /\ UNCHANGED <<f, m, s_f, s, hqueues, node_at_level, deja_vu, pos, x, h_idx, p, nth, calls>>
  BY DEF LowInv, Flooding, Attach, inputs
<1>1. LowTypes'
  <2>1. mn' \in Level
    BY <1>0, DadFacts
  <2> QED BY <1>0, <2>1, AttachFacts DEF LowTypes
<1>2. hmin = h_idx /\ h_idx \in Level /\ Level \subseteq Nat
  BY <1>0, LevelsAssumption DEF LowCalls, LowTypes, Level
<1>3. \A l \in Level : is_node_at_level'[l] =>
        l <= hmin /\ node_at_level'[l] \in AllSites /\ fext[node_at_level'[l]] = l
  BY <1>0, <1>2, AttachFacts DEF LowCalls, LowQueues
<1>4. node_at_level'[hmin] \in AllSites
  BY <1>0, <1>2 DEF LowCalls, LowQueues
<1>5. \A t \in Site : Linked(t)'
  BY <1>0, AllLinked, AttachFacts, SiteFacts
<1>6. LowRoot'
  BY <1>3, <1>4, <1>5, AttachFacts DEF LowRoot
<1> QED BY <1>0, <1>1, <1>6 DEF LowInv, Flooding

LEMMA GreatestInt ==
    ASSUME NEW b \in Nat, NEW S \in SUBSET (-1)..b, S # {}
    PROVE  Max(S) \in S
<1> DEFINE Above == {b - l : l \in S}
<1>1. PICK a \in Above : \A c \in Above : a <= c
  <2>1. Above \in SUBSET Nat /\ Above # {}
    OBVIOUS
  <2> HIDE DEF Above
  <2> QED BY <2>1, LeastNat
<1>2. PICK k \in S : a = b - k
  BY <1>1
<1>3. ASSUME NEW l \in S PROVE k >= l
  <2>1. b - l \in Above
    OBVIOUS
  <2>2. a <= b - l
    BY <1>1, <2>1
  <2> QED BY <1>2, <2>2
<1> QED BY <1>3 DEF Max

LEMMA AttachUnderStep == ASSUME LowInv, AttachUnder PROVE LowInv'
<1>0. /\ LowTypes /\ LowRoot /\ pc = "root" /\ pc' = "canonize" /\ x' = s_f[1]
      /\ deja_vu' = [t \in AllSites |-> FALSE]
      /\ UNCHANGED <<f, m, s_f, s, hqueues, is_node_at_level, node_at_level, h_idx, p, nth, mn,
                     calls, pos>>
  BY DEF LowInv, AttachUnder, inputs, nodes, frame
<1>a. PICK under : under = {l \in 0..hmin : is_node_at_level[l]}
  OBVIOUS
<1>b. PICK linked : linked = {node_at_level[l] : l \in under \cup {hmin}}
  OBVIOUS
<1> DEFINE Below(l) == Max({k \in under : k < l} \cup {-1})
<1>1. parent' = [t \in AllSites |->
                   IF t \in linked
                     THEN IF Below(fext[t]) = -1 THEN t ELSE node_at_level[Below(fext[t])]
                     ELSE parent[t]]
  BY <1>a, <1>b DEF AttachUnder
<1>2. hmin \in Level /\ Level = 0..MaxValue /\ MaxValue \in Nat /\ under \subseteq Level
  BY <1>0, <1>a, SeedFacts, FextFacts DEF LowTypes
<1>3. \A l \in Int : Below(l) = -1 \/ Below(l) \in under
  <2> SUFFICES ASSUME NEW l \in Int PROVE Below(l) = -1 \/ Below(l) \in under
    OBVIOUS
  <2> DEFINE S == {k \in under : k < l} \cup {-1}
  <2>1. S \in SUBSET (-1)..MaxValue /\ S # {}
    <3>1. \A k \in under : k \in (-1)..MaxValue
      BY <1>2
    <3>2. -1 \in (-1)..MaxValue
      BY <1>2
    <3> QED BY <3>1, <3>2
  <2> HIDE DEF S
  <2>2. Max(S) \in S
    BY <1>2, <2>1, GreatestInt
  <2> QED BY <2>2 DEF S
<1> HIDE DEF Below
<1>4. \A l \in under : node_at_level[l] \in linked /\ node_at_level[l] \in AllSites
  BY <1>0, <1>2, <1>a, <1>b DEF LowRoot
<1>5. linked \subseteq AllSites
  BY <1>0, <1>4, <1>b DEF LowRoot
<1>6. \A t : LevelNode(t) => t \in linked
  <2>1. \A l \in Level : is_node_at_level[l] => l \in under
    BY <1>0, <1>2, <1>a DEF LowRoot
  <2> QED BY <1>4, <2>1 DEF LevelNode
<1>7. \A t \in AllSites : fext[t] \in Int
  <2>1. \A t \in AllSites : fext[t] \in Level
    BY <1>0, FextFacts DEF LowTypes
  <2> QED BY <1>2, <2>1
<1>8. \A t \in AllSites : IF t \in linked THEN parent'[t] \in linked ELSE parent'[t] = parent[t]
  BY <1>1, <1>3, <1>4, <1>7
<1>9. parent' \in [AllSites -> AllSites \cup {Unset}]
  <2>1. \A t \in AllSites : parent[t] \in AllSites \cup {Unset}
    BY <1>0 DEF LowTypes
  <2>2. \A t \in AllSites : parent'[t] \in AllSites \cup {Unset}
    BY <1>5, <1>8, <2>1
  <2>3. parent' = [t \in AllSites |-> parent'[t]]
    BY <1>1
  <2> QED BY <2>2, <2>3
<1>10. \A t \in AllSites : Linked(t)' <=> Linked(t) \/ t \in linked
  BY <1>5, <1>8, SiteFacts DEF Linked
<1>11. s_f[1] \in Site
  BY <1>0, SiteFacts DEF LowTypes
<1>12. LowTypes'
  BY <1>0, <1>9, <1>11, SiteFacts DEF LowTypes
<1>13. ASSUME NEW t \in AllSites, Linked(t)' PROVE Linked(parent[t])'
  <2>1. PICK u : u = parent'[t]
    OBVIOUS
  <2>2. CASE t \in linked
    <3>1. u \in linked
      BY <1>8, <2>1, <2>2
    <3> QED BY <1>5, <1>10, <2>1, <3>1 DEF Linked
  <2>3. CASE t \notin linked
    <3>1. u = parent[t] /\ Linked(t) /\ u \in AllSites
      BY <1>0, <1>8, <1>10, <1>13, <2>1, <2>3 DEF LowTypes, Linked
    <3>2. Linked(u) \/ u \in linked
      BY <1>0, <1>6, <3>1 DEF LowRoot
    <3>3. Linked(u)'
      BY <1>10, <3>1, <3>2
    <3> QED BY <2>1, <3>3 DEF Linked
  <2> QED BY <2>2, <2>3
<1>14. \A t \in Site : Linked(t)'
  BY <1>0, <1>10, SiteFacts DEF LowRoot
<1>15. x' \in AllSites /\ Linked(x)'
  BY <1>0, <1>11, <1>14, SiteFacts DEF Linked
<1>16. LowTree'
  BY <1>13, <1>14, <1>15 DEF LowTree
<1> QED BY <1>0, <1>12, <1>16 DEF LowInv, Flooding

LEMMA CollectStep == ASSUME LowInv, Collect PROVE LowInv'
<1>0. /\ LowTypes /\ LowTree /\ pc = "canonize" /\ pos <= N /\ q \in ExtSite
      /\ s' = Append(s, q) /\ deja_vu' = [deja_vu EXCEPT ![q] = TRUE] /\ x' = q
      /\ UNCHANGED <<f, m, s_f, parent, pc, hqueues, is_node_at_level, node_at_level, h_idx, p,
                     nth, mn, calls, pos>>
  BY DEF LowInv, Collect, Canonizing, Collectable, inputs, nodes, frame
<1>1. PICK u : u = q
  OBVIOUS
<1>2. u \in AllSites /\ x \in AllSites /\ Linked(x) /\ u = parent[x]
  BY <1>0, <1>1, SiteFacts DEF LowTree, q
<1>3. s' \in Seq(AllSites) /\ deja_vu' \in [AllSites -> BOOLEAN] /\ x' \in AllSites
  BY <1>0, <1>1, <1>2 DEF LowTypes
<1>4. LowTypes'
  BY <1>0, <1>3 DEF LowTypes
<1>5. LowTree'
  BY <1>0, <1>1, <1>2 DEF LowTree, Linked
<1> QED BY <1>0, <1>4, <1>5 DEF LowInv, Flooding

LEMMA SettleStep == ASSUME LowInv, Settle PROVE LowInv'
<1>a. PICK w : w = IF q \in ExtSite /\ ~ IsNode(q) THEN parent[q] ELSE q
  OBVIOUS
<1>b. PICK u : u = IF fext[w] = fext[parent[w]] THEN parent[w] ELSE w
  OBVIOUS
<1>0. /\ LowTypes /\ LowTree /\ pc = "canonize" /\ pos <= N
      /\ parent' = [parent EXCEPT ![x] = u]
      /\ s' = Append(s, s_f[pos]) /\ pos' = pos + 1
      /\ x' = IF pos < N THEN s_f[pos + 1] ELSE Unset
      /\ UNCHANGED <<f, m, s_f, pc, hqueues, is_node_at_level, node_at_level, deja_vu, h_idx, p,
                     nth, mn, calls>>
  BY <1>a, <1>b DEF LowInv, Settle, Canonizing, inputs, nodes, frame
<1>1. /\ x \in AllSites /\ Linked(x) /\ q = parent[x]
      /\ parent \in [AllSites -> AllSites \cup {Unset}]
      /\ \A t \in AllSites : Linked(t) => parent[t] \in AllSites /\ Linked(parent[t])
  BY <1>0 DEF LowTypes, LowTree, Linked, q
<1>2. q \in AllSites /\ Linked(q)
  BY <1>1
<1>3. w \in AllSites /\ Linked(w)
  BY <1>1, <1>2, <1>a
<1>4. u \in AllSites /\ Linked(u)
  BY <1>1, <1>3, <1>b
<1>5. pos \in Nat /\ pos >= 1 /\ s_f[pos] \in AllSites /\ pos' \in 1..(N + 1)
      /\ (pos < N => x' \in Site) /\ x' \in AllSites \cup {Unset}
  BY <1>0, SiteFacts DEF LowTypes
<1>6. s' \in Seq(AllSites) /\ parent' \in [AllSites -> AllSites \cup {Unset}]
  <2>1. s \in Seq(AllSites)
    BY <1>0 DEF LowTypes
  <2> QED BY <1>0, <1>1, <1>4, <1>5, <2>1
<1>7. LowTypes'
  BY <1>0, <1>5, <1>6 DEF LowTypes
<1>8. \A t \in AllSites : Linked(t)' <=> Linked(t)
  BY <1>0, <1>1, <1>4, SiteFacts DEF Linked
<1>9. ASSUME NEW t \in AllSites, Linked(t)' PROVE Linked(parent[t])'
  <2>1. PICK r : r = parent'[t]
    OBVIOUS
  <2>2. r \in AllSites /\ Linked(r)
    BY <1>0, <1>1, <1>4, <1>8, <1>9, <2>1
  <2>3. Linked(r)'
    BY <1>8, <2>2
  <2> QED BY <2>1, <2>3 DEF Linked
<1>10. \A t \in Site : Linked(t)'
  BY <1>0, <1>8, SiteFacts DEF LowTree
<1>11. pos' <= N => x' \in AllSites /\ Linked(x)'
  <2>1. pos' <= N => x' \in Site
    BY <1>0, <1>5, SiteFacts
  <2> QED BY <1>10, <2>1, SiteFacts DEF Linked
<1>12. LowTree'
  BY <1>9, <1>10, <1>11 DEF LowTree
<1> QED BY <1>0, <1>7, <1>12 DEF LowInv, Flooding

LEMMA LowStutter == LowInv /\ UNCHANGED vars => LowInv'
<1> SUFFICES ASSUME LowInv, UNCHANGED vars PROVE LowInv'
  OBVIOUS
<1>0. UNCHANGED <<f, m, s_f, parent, s, pc, hqueues, is_node_at_level, node_at_level, deja_vu,
                  h_idx, p, nth, mn, calls, pos, x>>
  BY DEF vars, inputs, nodes, frame
<1>1. hmin' = hmin /\ pmin' = pmin /\ fext' = fext
  BY <1>0 DEF hmin, pmin, fext
<1>2. LowTypes => LowTypes'
  BY <1>0 DEF LowTypes
<1>3. /\ \A t, l : Waits(t, l)' <=> Waits(t, l)
      /\ \A t : Linked(t)' <=> Linked(t)
      /\ \A t : LevelNode(t)' <=> LevelNode(t)
      /\ \A t, j : ToBrowse(t, j)' <=> ToBrowse(t, j)
  BY <1>0 DEF Waits, Linked, LevelNode, ToBrowse
<1>4. \A t : Linked(parent[t])' <=> Linked(parent[t])
  BY <1>0 DEF Linked
<1>5. \A t : LevelNode(parent[t])' <=> LevelNode(parent[t])
  BY <1>0 DEF LevelNode
<1>6. Linked(x)' <=> Linked(x)
  BY <1>0 DEF Linked
<1>7. LowQueues => LowQueues'
  BY <1>0, <1>1, <1>3 DEF LowQueues
<1>8. LowCalls => LowCalls'
  BY <1>0, <1>1 DEF LowCalls
<1>9. \A t : Popped(t)' <=> Popped(t)
  BY <1>0, <1>3 DEF Popped
<1>10. LowSeen => LowSeen'
  BY <1>0, <1>1, <1>3, <1>9 DEF LowSeen
<1>11. LowParents => LowParents'
  BY <1>3, <1>4, <1>5, <1>9 DEF LowParents
<1>12. LowRoot => LowRoot'
  BY <1>0, <1>1, <1>3, <1>4, <1>5 DEF LowRoot
<1>13. LowTree => LowTree'
  BY <1>0, <1>3, <1>4, <1>6 DEF LowTree
<1> QED BY <1>0, <1>2, <1>7, <1>8, <1>10, <1>11, <1>12, <1>13 DEF LowInv, Flooding

LEMMA LowStep == LowInv /\ [Next]_vars => LowInv'
<1> SUFFICES ASSUME LowInv, [Next]_vars PROVE LowInv'
  OBVIOUS
<1>1. CASE Attach
  BY <1>1, AttachBack, AttachEnd
<1>2. CASE UNCHANGED vars \/ Returned
  BY <1>2, LowStutter DEF Returned
<1> QED
  BY <1>1, <1>2, PopRegularStep, PopAboveStep, PopBelowStep, SkipNeighbourStep,
     PushNeighbourStep, FloodNeighboursDone, CallStep, NoCallStep, AttachUnderStep,
     CollectStep, SettleStep DEF Next

-----------------------------------------------------------------------------
(* The links of dual_union_find: recursion along links that lead down.      *)

LEMMA UnionFindShares ==
    /\ UnionFind!Site = Site /\ UnionFind!AllSites = AllSites /\ UnionFind!ExtSite = ExtSite
    /\ UnionFind!Unset = Unset /\ UnionFind!Outside = Outside /\ UnionFind!fext = fext
    /\ \A t : UnionFind!Extend(t) = Extend(t)
    /\ \A g : (UnionFind!IsInjective(g) <=> IsInjective(g)) /\ UnionFind!Range(g) = Range(g)
    /\ \A g : UnionFind!Last(g) = Last(g) /\ UnionFind!Front(g) = Front(g)
    /\ \A g, t : UnionFind!FlatZone(g, t) = FlatZone(g, t)
<1>1. /\ UnionFind!Site = Site /\ UnionFind!Unset = Unset /\ UnionFind!Outside = Outside
      /\ \A t : UnionFind!Extend(t) = Extend(t)
  BY DEF UnionFind!Site, Site, UnionFind!Unset, Unset, UnionFind!Outside, Outside,
         UnionFind!Extend, Extend
<1>2. UnionFind!ExtSite = ExtSite /\ UnionFind!AllSites = AllSites
  BY <1>1 DEF UnionFind!ExtSite, ExtSite, UnionFind!AllSites, AllSites
<1>3. UnionFind!fext = fext
  BY <1>1, <1>2 DEF UnionFind!fext, fext
<1>4. /\ \A g : (UnionFind!IsInjective(g) <=> IsInjective(g)) /\ UnionFind!Range(g) = Range(g)
      /\ \A g : UnionFind!Last(g) = Last(g) /\ UnionFind!Front(g) = Front(g)
  BY DEF UnionFind!IsInjective, IsInjective, UnionFind!Range, Range, UnionFind!Last, Last,
         UnionFind!Front, Front
<1>5. \A g, t : UnionFind!FlatZone(g, t) = FlatZone(g, t)
  <2>1. UnionFind!Neighbours = Neighbours
    BY <1>1 DEF UnionFind!Neighbours, Neighbours
  <2> QED BY <1>1, <2>1 DEF UnionFind!FlatZone, FlatZone, UnionFind!Closed, Closed,
            UnionFind!ZoneIn, ZoneIn, UnionFind!SiteSets, SiteSets
<1> QED BY <1>1, <1>2, <1>3, <1>4, <1>5

\* A function can be defined by recursion along links whose ranks go down.
LinkedDown(D, T, B, rk, Stop, link, base, step) ==
    /\ B \in Nat /\ rk \in [D -> 0..B] /\ Stop \in SUBSET D /\ link \in [D -> D]
    /\ \A t \in D \ Stop : rk[link[t]] < rk[t]
    /\ base \in [D -> T] /\ step \in [D \X T -> T]
Recurses(g, D, Stop, link, base, step) ==
    \A t \in D : g[t] = IF t \in Stop THEN base[t] ELSE step[<<t, g[link[t]]>>]

LEMMA LinkRecursion ==
    ASSUME NEW D, NEW T, NEW B, NEW rk, NEW Stop, NEW link, NEW base, NEW step,
           LinkedDown(D, T, B, rk, Stop, link, base, step)
    PROVE  \E g \in [D -> T] : Recurses(g, D, Stop, link, base, step)
<1> USE DEF LinkedDown, Recurses
<1> DEFINE Next1(g) == [t \in D |-> IF t \in Stop THEN base[t] ELSE step[<<t, g[link[t]]>>]]
           F == [a \in (1..(B + 1)) \X [D -> T] |-> Next1(a[2])]
<1>1. \A g \in [D -> T] : Next1(g) \in [D -> T]
  OBVIOUS
<1> HIDE DEF Next1
<1>2. F \in [(1..(B + 1)) \X [D -> T] -> [D -> T]]
  BY <1>1
<1>3. \A j \in 1..(B + 1), g \in [D -> T] : F[<<j, g>>] = Next1(g)
  OBVIOUS
<1> HIDE DEF F
<1>4. PICK up : Follows(up, F, base, B + 1, [D -> T])
  <2>1. PICK n \in Nat : n = B + 1
    OBVIOUS
  <2>2. PICK M : M = [D -> T]
    OBVIOUS
  <2>3. base \in M /\ F \in [(1..n) \X M -> M]
    BY <1>2, <2>1, <2>2
  <2>4. \E up : Follows(up, F, base, n, M)
    BY <2>3, Recursion
  <2> QED BY <2>1, <2>2, <2>4
<1>5. /\ up \in [0..(B + 1) -> [D -> T]] /\ up[0] = base
      /\ \A j \in 1..(B + 1) : up[j] = Next1(up[j - 1])
  <2>1. /\ up \in [0..(B + 1) -> [D -> T]] /\ up[0] = base
        /\ \A j \in 1..(B + 1) : up[j] = F[<<j, up[j - 1]>>]
    BY <1>4 DEF Follows
  <2>2. ASSUME NEW j \in 1..(B + 1) PROVE up[j] = Next1(up[j - 1])
    <3>1. j - 1 \in 0..(B + 1)
      OBVIOUS
    <3>2. up[j - 1] \in [D -> T]
      BY <2>1, <3>1
    <3> QED BY <1>3, <2>1, <3>2
  <2> QED BY <2>1, <2>2
<1> DEFINE Bad == {j \in 0..B : \E t \in D : rk[t] < j /\ up[j][t] # up[j + 1][t]}
<1>6. Bad = {}
  <2> SUFFICES ASSUME Bad # {} PROVE FALSE
    OBVIOUS
  <2>1. PICK j \in Bad : \A l \in Bad : j <= l
    <3>1. Bad \in SUBSET Nat
      OBVIOUS
    <3> HIDE DEF Bad
    <3> QED BY <3>1, LeastNat
  <2>2. PICK t \in D : rk[t] < j /\ up[j][t] # up[j + 1][t]
    BY <2>1
  <2>3. rk[t] \in 0..B /\ j \in 0..B
    BY <2>1
  <2>4. j \in 1..(B + 1) /\ j + 1 \in 1..(B + 1) /\ (j + 1) - 1 = j /\ j - 1 \in 0..B
        /\ j - 1 \notin Bad /\ (j - 1) + 1 = j
    BY <2>1, <2>2, <2>3
  <2>5. up[j] = Next1(up[j - 1]) /\ up[j + 1] = Next1(up[j])
    BY <1>5, <2>4
  <2>6. CASE t \in Stop
    BY <2>2, <2>5, <2>6 DEF Next1
  <2>7. CASE t \notin Stop
    <3>1. rk[link[t]] < rk[t] /\ link[t] \in D /\ rk[link[t]] \in 0..B
      BY <2>7
    <3>2. rk[link[t]] < j - 1
      BY <2>2, <2>3, <3>1
    <3>3. up[j - 1][link[t]] = up[j][link[t]]
      BY <2>4, <3>1, <3>2
    <3>4. /\ Next1(up[j - 1])[t] = step[<<t, up[j - 1][link[t]]>>]
          /\ Next1(up[j])[t] = step[<<t, up[j][link[t]]>>]
      BY <2>7 DEF Next1
    <3> QED BY <2>2, <2>5, <3>3, <3>4
  <2> QED BY <2>6, <2>7
<1>7. PICK g : g = up[B + 1]
  OBVIOUS
<1>8. g \in [D -> T] /\ g = Next1(up[B])
  <2>1. B + 1 \in 0..(B + 1) /\ B + 1 \in 1..(B + 1) /\ (B + 1) - 1 = B
    OBVIOUS
  <2> QED BY <1>5, <1>7, <2>1
<1>9. ASSUME NEW t \in D
      PROVE  g[t] = IF t \in Stop THEN base[t] ELSE step[<<t, g[link[t]]>>]
  <2>1. CASE t \in Stop
    BY <1>8, <2>1 DEF Next1
  <2>2. CASE t \notin Stop
    <3>1. rk[link[t]] < rk[t] /\ link[t] \in D /\ rk[link[t]] \in 0..B /\ rk[t] \in 0..B
      BY <2>2
    <3>2. rk[link[t]] < B /\ B \in 0..B
      BY <3>1
    <3>3. up[B][link[t]] = g[link[t]]
      BY <1>6, <1>7, <3>1, <3>2
    <3> QED BY <1>8, <2>2, <3>3 DEF Next1
  <2> QED BY <2>1, <2>2
<1> QED BY <1>8, <1>9

\* Links that lead down: each to a site of a lesser rank, to itself or to none.
Falls(link, rk, B) ==
    /\ B \in Nat /\ rk \in [AllSites -> 0..B]
    /\ link \in [AllSites -> AllSites \cup {Unset}]
    /\ \A t \in AllSites : link[t] # Unset /\ link[t] # t => rk[link[t]] < rk[t]

\* top is met on the way from c.
Reaches(link, c, top) ==
    \A C \in SUBSET AllSites :
       c \in C /\ (\A t \in C : link[t] # Unset => link[t] \in C) => top \in C

\* No link leaves C or enters it.
Kept(link, C) == \A t \in AllSites : link[t] # Unset => (t \in C <=> link[t] \in C)

LEMMA ReachFacts ==
    ASSUME NEW link, NEW rk, NEW B, Falls(link, rk, B), NEW c \in AllSites, NEW top \in AllSites,
           Reaches(link, c, top)
    PROVE  /\ c = top \/ /\ link[c] \in AllSites /\ link[c] # c /\ link[c] # Unset
                         /\ Reaches(link, link[c], top)
                         /\ rk[top] < rk[c]
           /\ rk[top] <= rk[c]
           /\ \A C \in SUBSET AllSites : Kept(link, C) => (c \in C <=> top \in C)
<1>0. /\ link \in [AllSites -> AllSites \cup {Unset}] /\ Unset \notin AllSites
      /\ B \in Nat /\ \A t \in AllSites : rk[t] \in 0..B
      /\ \A t \in AllSites : link[t] # Unset /\ link[t] # t => rk[link[t]] < rk[t]
  BY SiteFacts DEF Falls
<1>1. ASSUME c # top PROVE link[c] \in AllSites /\ link[c] # c /\ link[c] # Unset
  <2>1. ~ (\A t \in {c} : link[t] # Unset => link[t] \in {c})
    BY <1>1 DEF Reaches
  <2> QED BY <1>0, <2>1
<1>2. ASSUME c # top PROVE Reaches(link, link[c], top)
  <2> SUFFICES ASSUME NEW C \in SUBSET AllSites, link[c] \in C,
                      \A t \in C : link[t] # Unset => link[t] \in C
               PROVE  top \in C
    BY DEF Reaches
  <2>1. C \cup {c} \in SUBSET AllSites /\ \A t \in C \cup {c} : link[t] # Unset => link[t] \in C \cup {c}
    OBVIOUS
  <2>2. top \in C \cup {c}
    BY <2>1 DEF Reaches
  <2> QED BY <1>2, <2>2
<1>3. ASSUME NEW w \in AllSites, Reaches(link, w, top) PROVE rk[top] <= rk[w]
  <2> DEFINE C == {t \in AllSites : rk[t] <= rk[w]}
  <2>1. w \in C /\ \A t \in C : link[t] # Unset => link[t] \in C
    BY <1>0
  <2>2. C \in SUBSET AllSites
    OBVIOUS
  <2> HIDE DEF C
  <2>3. top \in C
    BY <1>3, <2>1, <2>2 DEF Reaches
  <2> QED BY <2>3 DEF C
<1>4. ASSUME c # top PROVE rk[top] < rk[c]
  <2>1. /\ link[c] \in AllSites /\ rk[top] <= rk[link[c]] /\ rk[link[c]] < rk[c]
    BY <1>0, <1>1, <1>2, <1>3, <1>4
  <2> QED BY <1>0, <2>1
<1>5. ASSUME NEW C \in SUBSET AllSites, Kept(link, C) PROVE c \in C <=> top \in C
  <2>1. \A t \in C : link[t] # Unset => link[t] \in C
    BY <1>5 DEF Kept
  <2>2. \A t \in AllSites \ C : link[t] # Unset => link[t] \in AllSites \ C
    BY <1>0, <1>5 DEF Kept
  <2>3. c \in C => top \in C
    BY <2>1 DEF Reaches
  <2>4. c \in AllSites \ C => top \in AllSites \ C
    <3> DEFINE E == AllSites \ C
    <3>1. E \in SUBSET AllSites /\ \A t \in E : link[t] # Unset => link[t] \in E
      BY <2>2
    <3> HIDE DEF E
    <3>2. c \in E => top \in E
      BY <3>1 DEF Reaches
    <3> QED BY <3>2 DEF E
  <2> QED BY <2>3, <2>4
<1> QED BY <1>1, <1>2, <1>3, <1>4, <1>5

\* What update_m_parent and find_root redirect on the way from c to top.
LEMMA PathFacts ==
    ASSUME NEW link, NEW rk, NEW B, Falls(link, rk, B), NEW c \in AllSites, NEW top \in AllSites,
           Reaches(link, c, top)
    PROVE  \E P \in SUBSET AllSites :
             /\ P = UnionFind!Path(link, c, top)
             /\ \A t \in P : /\ t # top /\ rk[top] < rk[t] /\ rk[t] <= rk[c] /\ Reaches(link, t, top)
                             /\ link[t] # t /\ link[t] # Unset /\ link[t] \in P \cup {top}
             /\ c # top => c \in P
<1>0. /\ link \in [AllSites -> AllSites \cup {Unset}] /\ Unset \notin AllSites
      /\ B \in Nat /\ \A t \in AllSites : rk[t] \in 0..B
      /\ \A t \in AllSites : link[t] # Unset /\ link[t] # t => rk[link[t]] < rk[t]
  BY SiteFacts DEF Falls
<1> DEFINE D == AllSites \cup {Unset}
           IsOnward(g) == g = [r \in D |-> IF r \in {top, Unset} THEN {} ELSE {r} \cup g[link[r]]]
<1>1. PICK g \in [D -> SUBSET AllSites] : IsOnward(g)
  <2> DEFINE Stop == {r \in D : r \in {top, Unset} \/ link[r] = r}
             base == [r \in D |-> IF r \in {top, Unset} THEN {} ELSE {r}]
             step == [a \in D \X SUBSET AllSites |-> ({a[1]} \cap AllSites) \cup a[2]]
             on == [r \in D |-> IF r = Unset THEN Unset ELSE link[r]]
             lv == [r \in D |-> IF r = Unset THEN 0 ELSE rk[r] + 1]
  <2>1. Stop \in SUBSET D /\ base \in [D -> SUBSET AllSites] /\ on \in [D -> D]
    BY <1>0
  <2>2. step \in [D \X SUBSET AllSites -> SUBSET AllSites]
    OBVIOUS
  <2>3. lv \in [D -> 0..(B + 1)] /\ B + 1 \in Nat
    BY <1>0
  <2>4. \A r \in D \ Stop : lv[on[r]] < lv[r]
    BY <1>0
  <2>5. \A r \in AllSites, S \in SUBSET AllSites : step[<<r, S>>] = {r} \cup S
    OBVIOUS
  <2>6. \A r \in D : /\ r \in Stop <=> r \in {top, Unset} \/ link[r] = r
                     /\ base[r] = IF r \in {top, Unset} THEN {} ELSE {r}
                     /\ r # Unset => on[r] = link[r]
    OBVIOUS
  <2> HIDE DEF Stop, base, step, on, lv, D
  <2>7. PICK g \in [D -> SUBSET AllSites] :
          \A r \in D : g[r] = IF r \in Stop THEN base[r] ELSE step[<<r, g[on[r]]>>]
    <3>1. LinkedDown(D, SUBSET AllSites, B + 1, lv, Stop, on, base, step)
      BY <2>1, <2>2, <2>3, <2>4 DEF LinkedDown
    <3>2. \E g \in [D -> SUBSET AllSites] : Recurses(g, D, Stop, on, base, step)
      BY <3>1, LinkRecursion
    <3> QED BY <3>2 DEF Recurses
  <2>8. ASSUME NEW r \in D PROVE g[r] = IF r \in {top, Unset} THEN {} ELSE {r} \cup g[link[r]]
    <3>1. CASE r \in {top, Unset}
      BY <2>6, <2>7, <3>1
    <3>2. CASE r \notin {top, Unset} /\ link[r] = r
      <4>1. g[r] = {r}
        BY <2>6, <2>7, <3>2
      <4> QED BY <3>2, <4>1
    <3>3. CASE r \notin {top, Unset} /\ link[r] # r
      <4>1. r \in AllSites /\ on[r] = link[r] /\ link[r] \in D /\ g[link[r]] \in SUBSET AllSites
        BY <1>0, <2>6, <3>3 DEF D
      <4>2. g[r] = step[<<r, g[link[r]]>>]
        BY <2>6, <2>7, <3>3, <4>1
      <4> QED BY <2>5, <3>3, <4>1, <4>2
    <3> QED BY <3>1, <3>2, <3>3
  <2>9. IsOnward(g)
    BY <2>8
  <2> QED BY <2>9
<1>2. PICK h : h = CHOOSE g1 : IsOnward(g1)
  OBVIOUS
<1>3. IsOnward(h)
  BY <1>1, <1>2
<1>4. UnionFind!Path(link, c, top) = h[c]
  BY <1>2, UnionFindShares DEF UnionFind!Path
<1>5. \A r \in AllSites : h[r] = IF r = top THEN {} ELSE {r} \cup h[link[r]]
  BY <1>0, <1>3
<1> HIDE DEF IsOnward, D
<1> DEFINE Sound(r) == /\ \A t \in h[r] : /\ t \in AllSites /\ t # top /\ Reaches(link, t, top)
                                           /\ rk[t] <= rk[r]
                       /\ \A t \in h[r] : link[t] \in h[r] \cup {top}
<1>6. \A r \in AllSites : Reaches(link, r, top) => Sound(r)
  <2> DEFINE Bad == {rk[r] : r \in {w \in AllSites : Reaches(link, w, top) /\ ~ Sound(w)}}
  <2> SUFFICES ASSUME Bad # {} PROVE FALSE
    OBVIOUS
  <2>1. PICK b \in Bad : \A a \in Bad : b <= a
    <3>1. Bad \in SUBSET Nat
      BY <1>0
    <3> HIDE DEF Bad
    <3> QED BY <3>1, LeastNat
  <2>2. PICK r \in AllSites : b = rk[r] /\ Reaches(link, r, top) /\ ~ Sound(r)
    BY <2>1
  <2>3. CASE r = top
    BY <1>5, <2>2, <2>3
  <2>4. CASE r # top
    <3>1. link[r] \in AllSites /\ link[r] # r /\ Reaches(link, link[r], top) /\ link[r] # Unset
      BY <2>2, <2>4, ReachFacts
    <3>2. rk[link[r]] < rk[r]
      BY <1>0, <3>1
    <3>3. rk[link[r]] \notin Bad
      BY <1>0, <2>1, <2>2, <3>1, <3>2
    <3>4. Sound(link[r])
      BY <3>1, <3>3
    <3>5. h[r] = {r} \cup h[link[r]]
      BY <1>5, <2>4
    <3>6. link[r] = top \/ link[r] \in h[link[r]]
      BY <1>5, <3>1
    <3> HIDE DEF Bad
    <3>7. \A t \in h[link[r]] : rk[t] <= rk[r]
      BY <1>0, <3>1, <3>2, <3>4
    <3>8. Sound(r)
      BY <1>0, <2>2, <2>4, <3>4, <3>5, <3>6, <3>7
    <3> QED BY <2>2, <3>8
  <2> QED BY <2>3, <2>4
<1>7. PICK P : P = h[c]
  OBVIOUS
<1>8. Sound(c)
  BY <1>6
<1>9. ASSUME NEW t \in P
      PROVE  /\ t \in AllSites /\ t # top /\ rk[top] < rk[t] /\ rk[t] <= rk[c] /\ Reaches(link, t, top)
             /\ link[t] # t /\ link[t] # Unset /\ link[t] \in P \cup {top}
  <2>1. /\ t \in AllSites /\ t # top /\ Reaches(link, t, top) /\ link[t] \in P \cup {top}
        /\ rk[t] <= rk[c]
    BY <1>7, <1>8
  <2> QED BY <2>1, ReachFacts
<1>10. c # top => c \in P
  BY <1>5, <1>7
<1> QED BY <1>4, <1>7, <1>9, <1>10

LEMMA ReachMore ==
    ASSUME NEW link, NEW c \in AllSites
    PROVE  /\ Reaches(link, c, c)
           /\ \A t, u \in AllSites : Reaches(link, c, t) /\ Reaches(link, t, u) => Reaches(link, c, u)
           /\ link[c] # Unset => Reaches(link, c, link[c])
BY DEF Reaches

\* Whoever is reached is reached still when only links below change.
LEMMA ReachKept ==
    ASSUME NEW link, NEW rk, NEW B, Falls(link, rk, B), NEW c \in AllSites, NEW top \in AllSites,
           Reaches(link, c, top), NEW link2,
           \A t \in AllSites : rk[top] < rk[t] => link2[t] = link[t]
    PROVE  Reaches(link2, c, top)
<1>0. /\ link \in [AllSites -> AllSites \cup {Unset}] /\ Unset \notin AllSites
      /\ B \in Nat /\ \A t \in AllSites : rk[t] \in 0..B
      /\ \A t \in AllSites : link[t] # Unset /\ link[t] # t => rk[link[t]] < rk[t]
  BY SiteFacts DEF Falls
<1> SUFFICES ASSUME NEW C \in SUBSET AllSites, c \in C,
                    \A t \in C : link2[t] # Unset => link2[t] \in C, top \notin C
             PROVE  FALSE
  BY DEF Reaches
<1> DEFINE E == C \cup {t \in AllSites : rk[t] <= rk[top] /\ t # top}
<1>1. ASSUME NEW t \in E, link[t] # Unset PROVE link[t] \in E
  <2>0. t \in AllSites /\ link[t] \in AllSites
    BY <1>0, <1>1
  <2>1. CASE rk[top] < rk[t]
    BY <1>0, <1>1, <2>0, <2>1
  <2>2. CASE rk[t] <= rk[top]
    <3>1. t # top
      BY <1>1
    <3>2. link[t] = t \/ rk[link[t]] < rk[top]
      BY <1>0, <1>1, <2>0, <2>2
    <3>3. link[t] = t \/ link[t] # top
      BY <1>0, <3>2
    <3>4. rk[link[t]] <= rk[top]
      BY <1>0, <2>0, <2>2, <3>2
    <3> QED BY <2>0, <3>1, <3>3, <3>4
  <2> QED BY <1>0, <2>0, <2>1, <2>2
<1>2. E \in SUBSET AllSites /\ c \in E /\ top \notin E
  OBVIOUS
<1> HIDE DEF E
<1> QED BY <1>1, <1>2 DEF Reaches

\* Every link leads to a site that has one.
Rooted(link) == \A t \in AllSites : link[t] # Unset => link[t] \in AllSites /\ link[link[t]] # Unset

\* find_root ends at a site that is its own root.
LEMMA RootFacts ==
    ASSUME NEW rk, NEW B, Falls(zpar, rk, B), Rooted(zpar)
    PROVE  \A t \in AllSites : zpar[t] # Unset =>
             /\ UnionFind!Root(t) \in AllSites
             /\ zpar[UnionFind!Root(t)] = UnionFind!Root(t)
             /\ Reaches(zpar, t, UnionFind!Root(t))
             /\ UnionFind!Root(t) = UnionFind!Root(zpar[t])
             /\ zpar[t] = t => UnionFind!Root(t) = t
<1>0. /\ zpar \in [AllSites -> AllSites \cup {Unset}] /\ Unset \notin AllSites
      /\ B \in Nat /\ \A t \in AllSites : rk[t] \in 0..B
      /\ \A t \in AllSites : zpar[t] # Unset /\ zpar[t] # t => rk[zpar[t]] < rk[t]
      /\ \A t \in AllSites : zpar[t] # Unset => zpar[t] \in AllSites /\ zpar[zpar[t]] # Unset
  BY SiteFacts DEF Falls, Rooted
<1> DEFINE D == AllSites \cup {Unset}
           IsUp(g) == g = [r \in D |-> IF r = Unset \/ zpar[r] = r THEN r ELSE g[zpar[r]]]
<1>1. PICK g \in [D -> D] : IsUp(g)
  <2> DEFINE Stop == {r \in D : r = Unset \/ zpar[r] = r}
             base == [r \in D |-> r]
             step == [a \in D \X D |-> a[2]]
             on == [r \in D |-> IF r = Unset THEN Unset ELSE zpar[r]]
             lv == [r \in D |-> IF r = Unset THEN 0 ELSE rk[r] + 1]
  <2>1. Stop \in SUBSET D /\ base \in [D -> D] /\ on \in [D -> D] /\ step \in [D \X D -> D]
    BY <1>0
  <2>2. lv \in [D -> 0..(B + 1)] /\ B + 1 \in Nat
    BY <1>0
  <2>3. \A r \in D \ Stop : lv[on[r]] < lv[r]
    BY <1>0
  <2>4. \A r, t \in D : step[<<r, t>>] = t /\ base[r] = r
    OBVIOUS
  <2>5. \A r \in D : /\ r \in Stop <=> r = Unset \/ zpar[r] = r
                     /\ r # Unset => on[r] = zpar[r]
                     /\ on[r] \in D
    BY <1>0
  <2> HIDE DEF Stop, base, step, on, lv, D
  <2>6. PICK g \in [D -> D] : Recurses(g, D, Stop, on, base, step)
    <3>1. LinkedDown(D, D, B + 1, lv, Stop, on, base, step)
      BY <2>1, <2>2, <2>3 DEF LinkedDown
    <3> QED BY <3>1, LinkRecursion
  <2>7. ASSUME NEW r \in D PROVE g[r] = IF r = Unset \/ zpar[r] = r THEN r ELSE g[zpar[r]]
    <3>1. g[r] = IF r \in Stop THEN base[r] ELSE step[<<r, g[on[r]]>>]
      BY <2>6 DEF Recurses
    <3>2. g[on[r]] \in D
      BY <2>5
    <3> QED BY <2>4, <2>5, <3>1, <3>2
  <2>8. IsUp(g)
    BY <2>7
  <2> QED BY <2>8
<1>2. PICK h : h = CHOOSE g1 : IsUp(g1)
  OBVIOUS
<1>3. IsUp(h)
  BY <1>1, <1>2
<1>4. \A t \in AllSites : UnionFind!Root(t) = h[t]
  BY <1>2, UnionFindShares DEF UnionFind!Root
<1>5. \A r \in AllSites : h[r] = IF zpar[r] = r THEN r ELSE h[zpar[r]]
  BY <1>0, <1>3
<1> HIDE DEF IsUp, D
<1> DEFINE Sound(r) == h[r] \in AllSites /\ zpar[h[r]] = h[r] /\ Reaches(zpar, r, h[r])
           Bad == {rk[r] : r \in {t \in AllSites : zpar[t] # Unset /\ ~ Sound(t)}}
<1>6. Bad = {}
  <2> SUFFICES ASSUME Bad # {} PROVE FALSE
    OBVIOUS
  <2>1. PICK b \in Bad : \A a \in Bad : b <= a
    <3>1. Bad \in SUBSET Nat
      BY <1>0
    <3> HIDE DEF Bad
    <3> QED BY <3>1, LeastNat
  <2>2. PICK r \in AllSites : b = rk[r] /\ zpar[r] # Unset /\ ~ Sound(r)
    BY <2>1
  <2>3. CASE zpar[r] = r
    <3>1. h[r] = r
      BY <1>5, <2>3
    <3> QED BY <2>2, <2>3, <3>1, ReachMore
  <2>4. CASE zpar[r] # r
    <3>1. /\ zpar[r] \in AllSites /\ zpar[zpar[r]] # Unset /\ rk[zpar[r]] < rk[r]
          /\ h[r] = h[zpar[r]]
      BY <1>0, <1>5, <2>2, <2>4
    <3>2. rk[zpar[r]] \notin Bad
      <4>1. ~ (b <= rk[zpar[r]])
        BY <1>0, <2>2, <3>1
      <4> HIDE DEF Bad
      <4> QED BY <2>1, <4>1
    <3>3. Sound(zpar[r])
      BY <3>1, <3>2
    <3>4. Reaches(zpar, r, h[r])
      BY <2>2, <3>1, <3>3, ReachMore
    <3> QED BY <2>2, <3>1, <3>3, <3>4
  <2> QED BY <2>3, <2>4
<1>7. \A t \in AllSites : zpar[t] # Unset => Sound(t)
  BY <1>6
<1> QED BY <1>0, <1>4, <1>5, <1>7

\* find_root compresses the path: the ranks, the roots and the sets that no
\* link crosses stay.
LEMMA CompressedFacts ==
    ASSUME NEW rk, NEW B, Falls(zpar, rk, B), Rooted(zpar), NEW c \in AllSites, zpar[c] # Unset
    PROVE  \E Z, r :
             /\ Z = UnionFind!Compressed(c) /\ r = UnionFind!Root(c)
             /\ zpar[c] = c => r = c
             /\ r \in AllSites /\ Z[r] = r /\ zpar[r] = r
             /\ Falls(Z, rk, B)
             /\ \A t \in AllSites : /\ Z[t] = Unset <=> zpar[t] = Unset
                                    /\ Z[t] = t <=> zpar[t] = t
                                    /\ Z[t] \in {zpar[t], r}
             /\ \A C \in SUBSET AllSites : /\ Kept(Z, C) <=> Kept(zpar, C)
                                           /\ Kept(Z, C) => (c \in C <=> r \in C)
<1>0. /\ zpar \in [AllSites -> AllSites \cup {Unset}] /\ Unset \notin AllSites
      /\ B \in Nat /\ rk \in [AllSites -> 0..B] /\ \A t \in AllSites : rk[t] \in 0..B
      /\ \A t \in AllSites : zpar[t] # Unset /\ zpar[t] # t => rk[zpar[t]] < rk[t]
  BY SiteFacts DEF Falls
<1>1. PICK r : r = UnionFind!Root(c)
  OBVIOUS
<1>2. r \in AllSites /\ zpar[r] = r /\ Reaches(zpar, c, r) /\ (zpar[c] = c => r = c)
  BY <1>1, RootFacts
<1>3. PICK P \in SUBSET AllSites :
        /\ P = UnionFind!Path(zpar, c, r)
        /\ \A t \in P : /\ t # r /\ rk[r] < rk[t] /\ rk[t] <= rk[c] /\ Reaches(zpar, t, r)
                        /\ zpar[t] # t /\ zpar[t] # Unset /\ zpar[t] \in P \cup {r}
        /\ c # r => c \in P
  BY <1>2, PathFacts
<1>4. PICK Z : Z = [t \in AllSites |-> IF t \in P THEN r ELSE zpar[t]]
  OBVIOUS
<1>5. Z = UnionFind!Compressed(c)
  BY <1>1, <1>3, <1>4, UnionFindShares DEF UnionFind!Compressed, UnionFind!Redirected
<1>6. /\ \A t \in AllSites : Z[t] = IF t \in P THEN r ELSE zpar[t]
      /\ Z \in [AllSites -> AllSites \cup {Unset}] /\ r \notin P
  BY <1>0, <1>2, <1>3, <1>4
<1>7. Falls(Z, rk, B)
  BY <1>0, <1>2, <1>3, <1>6 DEF Falls
<1>8. \A t \in AllSites : /\ Z[t] = Unset <=> zpar[t] = Unset
                          /\ Z[t] = t <=> zpar[t] = t
                          /\ Z[t] \in {zpar[t], r}
  BY <1>0, <1>2, <1>3, <1>6
<1>9. ASSUME NEW C \in SUBSET AllSites PROVE Kept(Z, C) <=> Kept(zpar, C)
  <2>1. ASSUME Kept(zpar, C), NEW t \in AllSites, Z[t] # Unset PROVE t \in C <=> Z[t] \in C
    <3>1. CASE t \in P
      <4>1. Reaches(zpar, t, r)
        BY <1>3, <3>1
      <4>2. t \in C <=> r \in C
        BY <1>2, <2>1, <4>1, ReachFacts
      <4> QED BY <1>6, <3>1, <4>2
    <3>2. CASE t \notin P
      BY <1>6, <2>1, <3>2 DEF Kept
    <3> QED BY <3>1, <3>2
  <2>2. ASSUME Kept(Z, C), NEW t \in AllSites, zpar[t] # Unset PROVE t \in C <=> zpar[t] \in C
    <3>1. \A u \in P : u \in C <=> r \in C
      BY <1>0, <1>2, <1>3, <1>6, <2>2 DEF Kept
    <3>2. CASE t \in P
      BY <1>3, <3>1, <3>2
    <3>3. CASE t \notin P
      BY <1>6, <2>2, <3>3 DEF Kept
    <3> QED BY <3>2, <3>3
  <2> QED BY <2>1, <2>2 DEF Kept
<1>10. ASSUME NEW C \in SUBSET AllSites, Kept(zpar, C) PROVE c \in C <=> r \in C
  BY <1>2, <1>10, ReachFacts
<1> QED BY <1>1, <1>2, <1>5, <1>6, <1>7, <1>8, <1>9, <1>10

\* A new site goes to the lowest rank, whatever links to it.
LEMMA RootAdded ==
    ASSUME NEW link, NEW rk, NEW B, Falls(link, rk, B), NEW u \in AllSites,
           NEW link2 \in [AllSites -> AllSites \cup {Unset}],
           \A t \in AllSites : IF t = u THEN link2[t] \in {u, Unset}
                                        ELSE link2[t] \in {link[t], u, t, Unset}
    PROVE  Falls(link2, [t \in AllSites |-> IF t = u THEN 0 ELSE rk[t] + 1], B + 1)
<1>0. /\ link \in [AllSites -> AllSites \cup {Unset}] /\ Unset \notin AllSites
      /\ B \in Nat /\ rk \in [AllSites -> 0..B] /\ \A t \in AllSites : rk[t] \in 0..B
      /\ \A t \in AllSites : link[t] # Unset /\ link[t] # t => rk[link[t]] < rk[t]
  BY SiteFacts DEF Falls
<1>1. PICK up : up = [t \in AllSites |-> IF t = u THEN 0 ELSE rk[t] + 1]
  OBVIOUS
<1>2. up \in [AllSites -> 0..(B + 1)] /\ B + 1 \in Nat
  BY <1>0, <1>1
<1>3. ASSUME NEW t \in AllSites, link2[t] # Unset, link2[t] # t PROVE up[link2[t]] < up[t]
  <2>1. t # u /\ up[t] = rk[t] + 1 /\ link2[t] \in AllSites
    BY <1>1, <1>3
  <2>2. CASE link2[t] = u
    BY <1>0, <1>1, <2>1, <2>2
  <2>3. CASE link2[t] # u
    <3>1. link2[t] = link[t] /\ up[link2[t]] = rk[link2[t]] + 1
      BY <1>1, <1>3, <2>1, <2>3
    <3> QED BY <1>0, <1>3, <2>1, <3>1
  <2> QED BY <2>2, <2>3
<1>4. Falls(link2, up, B + 1)
  BY <1>2, <1>3 DEF Falls
<1> QED BY <1>1, <1>4

-----------------------------------------------------------------------------
(* The first loop of dual_union_find.  z is the image of the compressed      *)
(* parents, a that of the parents, d that of what was seen, e the site of    *)
(* the extension whose first j neighbours were browsed, Unset when none is.  *)

\* The sites that were made: those of the extension that the mask reached, and
\* those of the domain that both images reached.
Made(z, d, e) ==
    /\ z \in [AllSites -> AllSites \cup {Unset}] /\ d \in [AllSites -> BOOLEAN]
    /\ e # Unset => e \in ExtSite /\ ~ d[e]
    /\ \A t \in Site : z[Extend(t)] # Unset <=> d[Extend(t)] \/ e = Extend(t)
    /\ \A t \in Site : z[t] # Unset <=> d[t] /\ z[Extend(t)] # Unset
    /\ Rooted(z)

\* A made site has a parent, unless it is a root that the image did not reach.
Given(z, a, d) ==
    /\ a \in [AllSites -> AllSites \cup {Unset}]
    /\ \A t \in AllSites : a[t] # Unset => z[t] # Unset
    /\ \A t \in AllSites : z[t] # Unset /\ a[t] = Unset =>
         t \in ExtSite /\ z[t] = t /\ ~ d[t - N]

\* Both images lead down, to e last.
Ranked(z, a, e) ==
    \E B, rk : /\ Falls(z, rk, B) /\ Falls(a, rk, B)
               /\ e # Unset => \A t \in AllSites \ {e} : z[t] # Unset => rk[e] < rk[t]

\* C straddles nothing that was joined.
Joined(C, z, d, e, j) ==
    /\ \A t \in Site : z[t] # Unset => (t \in C <=> Extend(t) \in C)
    /\ \A t \in Site : \A u \in Neighbours[t] :
         d[Extend(t)] /\ d[Extend(u)] => (Extend(t) \in C <=> Extend(u) \in C)
    /\ e # Unset => \A i \in 1..j :
         Nbh[e - N][i] \in Site /\ d[Extend(Nbh[e - N][i])] =>
           (e \in C <=> Extend(Nbh[e - N][i]) \in C)

\* No link crosses C exactly when C straddles nothing that was joined.
Parts(z, a, d, e, j) ==
    \A C \in SUBSET AllSites : /\ Kept(z, C) <=> Joined(C, z, d, e, j)
                               /\ Kept(z, C) => Kept(a, C)

Holds(z, a, d, e, j) ==
    /\ Made(z, d, e) /\ Given(z, a, d) /\ Ranked(z, a, e) /\ Parts(z, a, d, e, j)

LEMMA HoldsCompressed ==
    ASSUME NEW a, NEW d, NEW e, NEW j, Holds(zpar, a, d, e, j),
           NEW c \in AllSites, zpar[c] # Unset
    PROVE  \E Z, r : /\ Z = UnionFind!Compressed(c) /\ r = UnionFind!Root(c)
                     /\ r \in AllSites /\ Z[r] = r /\ (Z[c] = c => r = c)
                     /\ \A C \in SUBSET AllSites : Kept(Z, C) => (c \in C <=> r \in C)
                     /\ Holds(Z, a, d, e, j)
<1>0. Made(zpar, d, e) /\ Given(zpar, a, d) /\ Ranked(zpar, a, e) /\ Parts(zpar, a, d, e, j)
      /\ Rooted(zpar)
  BY DEF Holds, Made
<1>1. PICK B, rk : /\ Falls(zpar, rk, B) /\ Falls(a, rk, B)
                   /\ e # Unset => \A t \in AllSites \ {e} : zpar[t] # Unset => rk[e] < rk[t]
  BY <1>0 DEF Ranked
<1>2. PICK Z, r :
        /\ Z = UnionFind!Compressed(c) /\ r = UnionFind!Root(c)
        /\ zpar[c] = c => r = c
        /\ r \in AllSites /\ Z[r] = r /\ zpar[r] = r
        /\ Falls(Z, rk, B)
        /\ \A t \in AllSites : /\ Z[t] = Unset <=> zpar[t] = Unset
                               /\ Z[t] = t <=> zpar[t] = t
                               /\ Z[t] \in {zpar[t], r}
        /\ \A C \in SUBSET AllSites : /\ Kept(Z, C) <=> Kept(zpar, C)
                                      /\ Kept(Z, C) => (c \in C <=> r \in C)
  BY <1>0, <1>1, CompressedFacts
<1>3. Z \in [AllSites -> AllSites \cup {Unset}] /\ Unset \notin AllSites
  BY <1>2, SiteFacts DEF Falls
<1>4. Made(Z, d, e)
  <2>1. Rooted(Z)
    BY <1>0, <1>2, <1>3 DEF Rooted
  <2> QED BY <1>0, <1>2, <1>3, <2>1, SiteFacts DEF Made
<1>5. Given(Z, a, d)
  BY <1>0, <1>2 DEF Given
<1>6. Ranked(Z, a, e)
  BY <1>1, <1>2 DEF Ranked
<1>7. Parts(Z, a, d, e, j)
  <2> SUFFICES ASSUME NEW C \in SUBSET AllSites
               PROVE  /\ Kept(Z, C) <=> Joined(C, Z, d, e, j)
                      /\ Kept(Z, C) => Kept(a, C)
    BY DEF Parts
  <2>1. Joined(C, Z, d, e, j) <=> Joined(C, zpar, d, e, j)
    BY <1>2, SiteFacts DEF Joined
  <2>2. /\ Kept(zpar, C) <=> Joined(C, zpar, d, e, j)
        /\ Kept(zpar, C) => Kept(a, C)
    BY <1>0 DEF Parts
  <2>3. Kept(Z, C) <=> Kept(zpar, C)
    BY <1>2
  <2> QED BY <2>1, <2>2, <2>3
<1> QED BY <1>2, <1>4, <1>5, <1>6, <1>7 DEF Holds

\* A site of the domain goes above the root of its copy.
LEMMA HoldsBelow ==
    ASSUME NEW z, NEW a, NEW d, NEW j, Holds(z, a, d, Unset, j), NEW u \in Site,
           d[Extend(u)], ~ d[u], NEW r \in AllSites, z[r] = r, z[Extend(u)] = Extend(u) => r = Extend(u),
           \A C \in SUBSET AllSites : Kept(z, C) => (Extend(u) \in C <=> r \in C)
    PROVE  Holds([z EXCEPT ![u] = u, ![r] = u], [a EXCEPT ![u] = u, ![r] = u],
                 [d EXCEPT ![u] = TRUE], Unset, j)
<1>0. Made(z, d, Unset) /\ Given(z, a, d) /\ Ranked(z, a, Unset) /\ Parts(z, a, d, Unset, j)
  BY DEF Holds
<1>1. PICK z2, a2, d2 : /\ z2 = [z EXCEPT ![u] = u, ![r] = u]
                        /\ a2 = [a EXCEPT ![u] = u, ![r] = u]
                        /\ d2 = [d EXCEPT ![u] = TRUE]
  OBVIOUS
<1>2. /\ z \in [AllSites -> AllSites \cup {Unset}] /\ a \in [AllSites -> AllSites \cup {Unset}]
      /\ d \in [AllSites -> BOOLEAN] /\ u \in AllSites /\ Unset \notin AllSites
      /\ z[u] = Unset /\ r # u
  BY <1>0, SiteFacts DEF Made, Given
<1>3. /\ z2 \in [AllSites -> AllSites \cup {Unset}] /\ a2 \in [AllSites -> AllSites \cup {Unset}]
      /\ d2 \in [AllSites -> BOOLEAN]
      /\ \A t \in AllSites : /\ z2[t] = IF t \in {u, r} THEN u ELSE z[t]
                             /\ a2[t] = IF t \in {u, r} THEN u ELSE a[t]
                             /\ d2[t] <=> d[t] \/ t = u
  BY <1>1, <1>2
<1>4. \A t \in AllSites : z2[t] # Unset <=> z[t] # Unset \/ t = u
  BY <1>2, <1>3
<1>5. Made(z2, d2, Unset)
  <2>1. Rooted(z2)
    BY <1>0, <1>2, <1>3, <1>4 DEF Made, Rooted
  <2> QED BY <1>0, <1>2, <1>3, <1>4, <2>1, SiteFacts DEF Made
<1>6. Given(z2, a2, d2)
  <2>1. ASSUME NEW t \in AllSites, z2[t] # Unset, a2[t] = Unset
        PROVE  t \in ExtSite /\ z2[t] = t /\ ~ d2[t - N]
    <3>1. t # u /\ t # r /\ z[t] # Unset /\ a[t] = Unset /\ z2[t] = z[t]
      BY <1>2, <1>3, <1>4, <2>1
    <3>2. t \in ExtSite /\ z[t] = t /\ ~ d[t - N]
      BY <1>0, <3>1 DEF Given
    <3>3. t - N \in Site /\ Extend(t - N) = t
      BY <3>2, SiteFacts
    <3>4. t - N # u
      BY <3>1, <3>2, <3>3
    <3> QED BY <1>3, <3>1, <3>2, <3>3, <3>4, SiteFacts
  <2> QED BY <1>0, <1>3, <1>4, <2>1 DEF Given
<1>7. Ranked(z2, a2, Unset)
  <2>1. PICK B, rk : Falls(z, rk, B) /\ Falls(a, rk, B)
    BY <1>0 DEF Ranked
  <2>2. /\ Falls(z2, [t \in AllSites |-> IF t = u THEN 0 ELSE rk[t] + 1], B + 1)
        /\ Falls(a2, [t \in AllSites |-> IF t = u THEN 0 ELSE rk[t] + 1], B + 1)
    BY <1>2, <1>3, <2>1, RootAdded
  <2> QED BY <2>2 DEF Ranked
<1>8. ASSUME NEW C \in SUBSET AllSites
      PROVE  /\ Kept(z2, C) <=> Joined(C, z2, d2, Unset, j)
             /\ Kept(z2, C) => Kept(a2, C)
  <2>1. /\ Kept(z, C) <=> Joined(C, z, d, Unset, j)
        /\ Kept(z, C) => Kept(a, C)
    BY <1>0 DEF Parts
  <2>2. Kept(z2, C) <=> Kept(z, C) /\ (u \in C <=> r \in C)
    BY <1>2, <1>3, <1>4 DEF Kept
  <2>3. Joined(C, z2, d2, Unset, j) <=> Joined(C, z, d, Unset, j) /\ (u \in C <=> Extend(u) \in C)
    <3>1. \A t \in Site : d2[Extend(t)] <=> d[Extend(t)]
      BY <1>3, SiteFacts
    <3>2. \A t \in Site : \A w \in Neighbours[t] : w \in Site
      BY DEF Neighbours
    <3>3. \A t \in Site : z2[t] # Unset <=> z[t] # Unset \/ t = u
      BY <1>4, SiteFacts
    <3> QED BY <1>2, <3>1, <3>2, <3>3 DEF Joined
  <2>4. Kept(a, C) /\ (u \in C <=> r \in C) => Kept(a2, C)
    BY <1>2, <1>3 DEF Kept
  <2> QED BY <2>1, <2>2, <2>3, <2>4
<1> QED BY <1>1, <1>5, <1>6, <1>7, <1>8 DEF Holds, Parts

\* The copy of a site of the domain, above it.
LEMMA HoldsAbove ==
    ASSUME NEW z, NEW a, NEW d, NEW j, Holds(z, a, d, Unset, j), NEW u \in Site,
           ~ d[Extend(u)], d[u]
    PROVE  Holds([z EXCEPT ![u] = Extend(u), ![Extend(u)] = Extend(u)],
                 [a EXCEPT ![u] = Extend(u), ![Extend(u)] = Extend(u)], d, Extend(u), 0)
<1>0. Made(z, d, Unset) /\ Given(z, a, d) /\ Ranked(z, a, Unset) /\ Parts(z, a, d, Unset, j)
  BY DEF Holds
<1>1. PICK z2, a2, e : /\ z2 = [z EXCEPT ![u] = Extend(u), ![Extend(u)] = Extend(u)]
                       /\ a2 = [a EXCEPT ![u] = Extend(u), ![Extend(u)] = Extend(u)]
                       /\ e = Extend(u)
  OBVIOUS
<1>2. /\ z \in [AllSites -> AllSites \cup {Unset}] /\ a \in [AllSites -> AllSites \cup {Unset}]
      /\ d \in [AllSites -> BOOLEAN] /\ u \in AllSites /\ e \in AllSites /\ Unset \notin AllSites
      /\ e \in ExtSite /\ e # Unset /\ e # u /\ ~ d[e]
      /\ \A t \in Site : Extend(t) = e <=> t = u
      /\ \A t \in Site : t \in AllSites /\ Extend(t) \in AllSites /\ t # e /\ Extend(t) # u
  BY <1>0, <1>1, SiteFacts DEF Made, Given
<1>3. z[e] = Unset /\ z[u] = Unset
  BY <1>0, <1>1, <1>2, SiteFacts DEF Made
<1>4. /\ z2 \in [AllSites -> AllSites \cup {Unset}] /\ a2 \in [AllSites -> AllSites \cup {Unset}]
      /\ \A t \in AllSites : /\ z2[t] = IF t \in {u, e} THEN e ELSE z[t]
                             /\ a2[t] = IF t \in {u, e} THEN e ELSE a[t]
  BY <1>1, <1>2
<1>5. \A t \in AllSites : z2[t] # Unset <=> z[t] # Unset \/ t = u \/ t = e
  BY <1>2, <1>4
<1>6. Made(z2, d, e)
  <2>1. Rooted(z2)
    BY <1>0, <1>2, <1>4, <1>5 DEF Made, Rooted
  <2>2. ASSUME NEW t \in Site
        PROVE  /\ z2[Extend(t)] # Unset <=> d[Extend(t)] \/ e = Extend(t)
               /\ z2[t] # Unset <=> d[t] /\ z2[Extend(t)] # Unset
    <3>1. /\ z[Extend(t)] # Unset <=> d[Extend(t)] \/ Unset = Extend(t)
          /\ z[t] # Unset <=> d[t] /\ z[Extend(t)] # Unset
      BY <1>0 DEF Made
    <3>2. t \in AllSites /\ Extend(t) \in AllSites /\ Extend(t) # Unset
      BY <1>2
    <3>3. z2[Extend(t)] # Unset <=> z[Extend(t)] # Unset \/ Extend(t) = e
      BY <1>2, <1>5, <3>2
    <3>4. z2[t] # Unset <=> z[t] # Unset \/ t = u
      BY <1>2, <1>5, <3>2
    <3> QED BY <1>2, <3>1, <3>2, <3>3, <3>4
  <2> QED BY <1>2, <1>4, <2>1, <2>2 DEF Made
<1>7. Given(z2, a2, d)
  <2>1. ASSUME NEW t \in AllSites, z2[t] # Unset, a2[t] = Unset
        PROVE  t \in ExtSite /\ z2[t] = t /\ ~ d[t - N]
    <3>1. t # u /\ t # e /\ z[t] # Unset /\ a[t] = Unset /\ z2[t] = z[t]
      BY <1>2, <1>4, <1>5, <2>1
    <3> QED BY <1>0, <3>1 DEF Given
  <2>2. \A t \in AllSites : a2[t] # Unset => z2[t] # Unset
    BY <1>0, <1>2, <1>4, <1>5 DEF Given
  <2> QED BY <1>4, <2>1, <2>2 DEF Given
<1>8. Ranked(z2, a2, e)
  <2>1. PICK B, rk : Falls(z, rk, B) /\ Falls(a, rk, B)
    BY <1>0 DEF Ranked
  <2>2. PICK up : up = [t \in AllSites |-> IF t = e THEN 0 ELSE rk[t] + 1]
    OBVIOUS
  <2>3. Falls(z2, up, B + 1) /\ Falls(a2, up, B + 1)
    BY <1>2, <1>3, <1>4, <2>1, <2>2, RootAdded
  <2>4. \A t \in AllSites \ {e} : up[e] < up[t]
    BY <1>2, <2>1, <2>2 DEF Falls
  <2> QED BY <2>3, <2>4 DEF Ranked
<1>9. ASSUME NEW C \in SUBSET AllSites
      PROVE  /\ Kept(z2, C) <=> Joined(C, z2, d, e, 0)
             /\ Kept(z2, C) => Kept(a2, C)
  <2>1. /\ Kept(z, C) <=> Joined(C, z, d, Unset, j)
        /\ Kept(z, C) => Kept(a, C)
    BY <1>0 DEF Parts
  <2>2. Kept(z2, C) <=> Kept(z, C) /\ (u \in C <=> e \in C)
    BY <1>2, <1>3, <1>4, <1>5 DEF Kept
  <2>3. Joined(C, z2, d, e, 0) <=> Joined(C, z, d, Unset, j) /\ (u \in C <=> e \in C)
    <3>1. \A t \in Site : z2[t] # Unset <=> z[t] # Unset \/ t = u
      BY <1>2, <1>5
    <3>2. 1..0 = {}
      OBVIOUS
    <3> QED BY <1>1, <1>2, <3>1, <3>2 DEF Joined
  <2>4. Kept(a, C) /\ (u \in C <=> e \in C) => Kept(a2, C)
    BY <1>2, <1>4 DEF Kept
  <2> QED BY <2>1, <2>2, <2>3, <2>4
<1> QED BY <1>1, <1>6, <1>7, <1>8, <1>9 DEF Holds, Parts

\* The copy of a site of the domain that the image did not reach, alone.
LEMMA HoldsFirst ==
    ASSUME NEW z, NEW a, NEW d, NEW j, Holds(z, a, d, Unset, j), NEW u \in Site,
           ~ d[Extend(u)], ~ d[u]
    PROVE  Holds([z EXCEPT ![Extend(u)] = Extend(u)], a, d, Extend(u), 0)
<1>0. Made(z, d, Unset) /\ Given(z, a, d) /\ Ranked(z, a, Unset) /\ Parts(z, a, d, Unset, j)
  BY DEF Holds
<1>1. PICK z2, e : z2 = [z EXCEPT ![Extend(u)] = Extend(u)] /\ e = Extend(u)
  OBVIOUS
<1>2. /\ z \in [AllSites -> AllSites \cup {Unset}] /\ a \in [AllSites -> AllSites \cup {Unset}]
      /\ d \in [AllSites -> BOOLEAN] /\ u \in AllSites /\ e \in AllSites /\ Unset \notin AllSites
      /\ e \in ExtSite /\ e # Unset /\ ~ d[e] /\ e - N = u
      /\ \A t \in Site : Extend(t) = e <=> t = u
      /\ \A t \in Site : t \in AllSites /\ Extend(t) \in AllSites /\ t # e
  BY <1>0, <1>1, SiteFacts DEF Made, Given
<1>3. z[e] = Unset /\ a[e] = Unset
  BY <1>0, <1>1, <1>2, SiteFacts DEF Made, Given
<1>4. /\ z2 \in [AllSites -> AllSites \cup {Unset}]
      /\ \A t \in AllSites : z2[t] = IF t = e THEN e ELSE z[t]
  BY <1>1, <1>2
<1>5. \A t \in AllSites : z2[t] # Unset <=> z[t] # Unset \/ t = e
  BY <1>2, <1>4
<1>6. Made(z2, d, e)
  <2>1. Rooted(z2)
    BY <1>0, <1>2, <1>4, <1>5 DEF Made, Rooted
  <2>2. ASSUME NEW t \in Site
        PROVE  /\ z2[Extend(t)] # Unset <=> d[Extend(t)] \/ e = Extend(t)
               /\ z2[t] # Unset <=> d[t] /\ z2[Extend(t)] # Unset
    <3>1. /\ z[Extend(t)] # Unset <=> d[Extend(t)] \/ Unset = Extend(t)
          /\ z[t] # Unset <=> d[t] /\ z[Extend(t)] # Unset
      BY <1>0 DEF Made
    <3>2. t \in AllSites /\ Extend(t) \in AllSites /\ Extend(t) # Unset
      BY <1>2
    <3>3. z2[Extend(t)] # Unset <=> z[Extend(t)] # Unset \/ Extend(t) = e
      BY <1>2, <1>5, <3>2
    <3>4. z2[t] # Unset <=> z[t] # Unset
      BY <1>2, <1>5, <3>2
    <3> QED BY <1>2, <3>1, <3>2, <3>3, <3>4
  <2> QED BY <1>2, <1>4, <2>1, <2>2 DEF Made
<1>7. Given(z2, a, d)
  <2>1. ASSUME NEW t \in AllSites, z2[t] # Unset, a[t] = Unset
        PROVE  t \in ExtSite /\ z2[t] = t /\ ~ d[t - N]
    <3>1. CASE t = e
      BY <1>2, <1>4, <3>1
    <3>2. CASE t # e
      BY <1>0, <1>4, <1>5, <2>1, <3>2 DEF Given
    <3> QED BY <3>1, <3>2
  <2> QED BY <1>0, <1>5, <2>1 DEF Given
<1>8. Ranked(z2, a, e)
  <2>1. PICK B, rk : Falls(z, rk, B) /\ Falls(a, rk, B)
    BY <1>0 DEF Ranked
  <2>2. PICK up : up = [t \in AllSites |-> IF t = e THEN 0 ELSE rk[t] + 1]
    OBVIOUS
  <2>3. Falls(z2, up, B + 1)
    BY <1>2, <1>4, <2>1, <2>2, RootAdded
  <2>4. Falls(a, up, B + 1)
    BY <1>2, <1>3, <2>1, <2>2, RootAdded
  <2>5. \A t \in AllSites \ {e} : up[e] < up[t]
    BY <1>2, <2>1, <2>2 DEF Falls
  <2> QED BY <2>3, <2>4, <2>5 DEF Ranked
<1>9. ASSUME NEW C \in SUBSET AllSites
      PROVE  /\ Kept(z2, C) <=> Joined(C, z2, d, e, 0)
             /\ Kept(z2, C) => Kept(a, C)
  <2>1. /\ Kept(z, C) <=> Joined(C, z, d, Unset, j)
        /\ Kept(z, C) => Kept(a, C)
    BY <1>0 DEF Parts
  <2>2. Kept(z2, C) <=> Kept(z, C)
    BY <1>2, <1>3, <1>4, <1>5 DEF Kept
  <2>3. Joined(C, z2, d, e, 0) <=> Joined(C, z, d, Unset, j)
    <3>1. \A t \in Site : z2[t] # Unset <=> z[t] # Unset
      BY <1>2, <1>5
    <3>2. 1..0 = {}
      OBVIOUS
    <3> QED BY <1>2, <3>1, <3>2 DEF Joined
  <2> QED BY <2>1, <2>2, <2>3
<1> QED BY <1>1, <1>6, <1>7, <1>8, <1>9 DEF Holds, Parts

\* A site of the domain that the mask did not reach.
LEMMA HoldsSeen ==
    ASSUME NEW z, NEW a, NEW d, NEW j, Holds(z, a, d, Unset, j), NEW u \in Site,
           ~ d[Extend(u)], ~ d[u]
    PROVE  Holds(z, a, [d EXCEPT ![u] = TRUE], Unset, j)
<1>0. Made(z, d, Unset) /\ Given(z, a, d) /\ Ranked(z, a, Unset) /\ Parts(z, a, d, Unset, j)
  BY DEF Holds
<1>1. PICK d2 : d2 = [d EXCEPT ![u] = TRUE]
  OBVIOUS
<1>2. /\ d2 \in [AllSites -> BOOLEAN] /\ \A t \in AllSites : d2[t] <=> d[t] \/ t = u
      /\ \A t \in Site : t \in AllSites /\ (d2[Extend(t)] <=> d[Extend(t)])
      /\ z[Extend(u)] = Unset /\ Unset \notin AllSites
  BY <1>0, <1>1, SiteFacts DEF Made
<1>3. Made(z, d2, Unset)
  BY <1>0, <1>2 DEF Made
<1>4. Given(z, a, d2)
  <2>1. ASSUME NEW t \in AllSites, z[t] # Unset, a[t] = Unset
        PROVE  t \in ExtSite /\ z[t] = t /\ ~ d2[t - N]
    <3>1. t \in ExtSite /\ z[t] = t /\ ~ d[t - N]
      BY <1>0, <2>1 DEF Given
    <3>2. t - N \in Site /\ Extend(t - N) = t /\ t - N # u
      BY <1>2, <2>1, <3>1, SiteFacts
    <3> QED BY <1>2, <3>1, <3>2
  <2> QED BY <1>0, <2>1 DEF Given
<1>5. Parts(z, a, d2, Unset, j)
  <2>1. \A t \in Site : \A w \in Neighbours[t] : w \in Site
    BY DEF Neighbours
  <2>2. \A C \in SUBSET AllSites : Joined(C, z, d2, Unset, j) <=> Joined(C, z, d, Unset, j)
    BY <1>2, <2>1 DEF Joined
  <2> QED BY <1>0, <2>2 DEF Parts
<1> QED BY <1>0, <1>1, <1>3, <1>4, <1>5 DEF Holds

\* A neighbour that was not browsed joins nothing.
LEMMA HoldsSkip ==
    ASSUME NEW z, NEW a, NEW d, NEW j \in Nat, NEW e, Holds(z, a, d, e, j), e # Unset,
           ~ (Nbh[e - N][j + 1] \in Site /\ d[Extend(Nbh[e - N][j + 1])])
    PROVE  Holds(z, a, d, e, j + 1)
<1>1. ASSUME NEW C \in SUBSET AllSites PROVE Joined(C, z, d, e, j + 1) <=> Joined(C, z, d, e, j)
  <2>1. \A i : i \in 1..(j + 1) <=> i \in 1..j \/ i = j + 1
    OBVIOUS
  <2> QED BY <2>1 DEF Joined
<1> QED BY <1>1 DEF Holds, Parts

\* The root of the component of a neighbour goes under e.
LEMMA HoldsJoin ==
    ASSUME NEW z, NEW a, NEW d, NEW j \in Nat, NEW e, Holds(z, a, d, e, j), e # Unset,
           NEW v \in Site, v = Nbh[e - N][j + 1], d[Extend(v)],
           NEW r \in AllSites, z[r] = r,
           \A C \in SUBSET AllSites : Kept(z, C) => (Extend(v) \in C <=> r \in C)
    PROVE  Holds([z EXCEPT ![r] = e], IF r = e THEN a ELSE [a EXCEPT ![r] = e], d, e, j + 1)
<1>0. Made(z, d, e) /\ Given(z, a, d) /\ Ranked(z, a, e) /\ Parts(z, a, d, e, j)
  BY DEF Holds
<1>1. PICK z2, a2 : z2 = [z EXCEPT ![r] = e] /\ a2 = IF r = e THEN a ELSE [a EXCEPT ![r] = e]
  OBVIOUS
<1>2. /\ z \in [AllSites -> AllSites \cup {Unset}] /\ a \in [AllSites -> AllSites \cup {Unset}]
      /\ d \in [AllSites -> BOOLEAN] /\ e \in AllSites /\ Unset \notin AllSites
      /\ z[e] # Unset /\ e \in ExtSite
      /\ \A t \in Site : t \in AllSites /\ Extend(t) \in AllSites
  BY <1>0, SiteFacts DEF Made, Given
<1>3. /\ z2 \in [AllSites -> AllSites \cup {Unset}] /\ a2 \in [AllSites -> AllSites \cup {Unset}]
      /\ \A t \in AllSites : /\ z2[t] = IF t = r THEN e ELSE z[t]
                             /\ r # e => a2[t] = IF t = r THEN e ELSE a[t]
                             /\ r = e => a2[t] = a[t]
  BY <1>1, <1>2
<1>4. \A t \in AllSites : z2[t] # Unset <=> z[t] # Unset
  BY <1>2, <1>3
<1>5. Made(z2, d, e)
  <2>1. Rooted(z2)
    BY <1>0, <1>2, <1>3, <1>4 DEF Made, Rooted
  <2> QED BY <1>0, <1>2, <1>3, <1>4, <2>1 DEF Made
<1>6. Given(z2, a2, d)
  <2>1. ASSUME NEW t \in AllSites, z2[t] # Unset, a2[t] = Unset
        PROVE  t \in ExtSite /\ z2[t] = t /\ ~ d[t - N]
    <3>1. z[t] # Unset /\ a[t] = Unset /\ z2[t] = z[t]
      BY <1>2, <1>3, <1>4, <2>1
    <3> QED BY <1>0, <3>1 DEF Given
  <2>2. \A t \in AllSites : a2[t] # Unset => z2[t] # Unset
    BY <1>0, <1>2, <1>3, <1>4 DEF Given
  <2> QED BY <1>3, <2>1, <2>2 DEF Given
<1>7. Ranked(z2, a2, e)
  <2>1. PICK B, rk : /\ Falls(z, rk, B) /\ Falls(a, rk, B)
                     /\ \A t \in AllSites \ {e} : z[t] # Unset => rk[e] < rk[t]
    BY <1>0 DEF Ranked
  <2>2. r # e => rk[e] < rk[r]
    BY <1>2, <2>1
  <2>3. Falls(z2, rk, B)
    BY <1>2, <1>3, <2>1, <2>2 DEF Falls
  <2>4. Falls(a2, rk, B)
    <3>1. CASE r = e
      BY <1>3, <2>1, <3>1 DEF Falls
    <3>2. CASE r # e
      BY <1>2, <1>3, <2>1, <2>2, <3>2 DEF Falls
    <3> QED BY <3>1, <3>2
  <2> QED BY <1>4, <2>1, <2>3, <2>4 DEF Ranked
<1>8. ASSUME NEW C \in SUBSET AllSites
      PROVE  /\ Kept(z2, C) <=> Joined(C, z2, d, e, j + 1)
             /\ Kept(z2, C) => Kept(a2, C)
  <2>1. /\ Kept(z, C) <=> Joined(C, z, d, e, j)
        /\ Kept(z, C) => Kept(a, C)
    BY <1>0 DEF Parts
  <2>2. Kept(z2, C) <=> Kept(z, C) /\ (e \in C <=> r \in C)
    BY <1>2, <1>3, <1>4 DEF Kept
  <2>3. Joined(C, z2, d, e, j + 1) <=> Joined(C, z, d, e, j) /\ (e \in C <=> Extend(v) \in C)
    <3>1. \A t \in Site : z2[t] # Unset <=> z[t] # Unset
      BY <1>2, <1>4
    <3>2. \A i : i \in 1..(j + 1) <=> i \in 1..j \/ i = j + 1
      OBVIOUS
    <3> QED BY <3>1, <3>2 DEF Joined
  <2>4. Kept(a, C) /\ (e \in C <=> r \in C) => Kept(a2, C)
    <3>1. CASE r = e
      BY <1>3, <3>1 DEF Kept
    <3>2. CASE r # e
      BY <1>2, <1>3, <3>2 DEF Kept
    <3> QED BY <3>1, <3>2
  <2> QED BY <2>1, <2>2, <2>3, <2>4
<1> QED BY <1>1, <1>5, <1>6, <1>7, <1>8 DEF Holds, Parts

\* All the neighbours of e were browsed.
LEMMA HoldsDone ==
    ASSUME NEW z, NEW a, NEW d, NEW e, NEW j, Holds(z, a, d, e, Len(Nbh[e - N])), e # Unset
    PROVE  Holds(z, a, [d EXCEPT ![e] = TRUE], Unset, j)
<1>0. /\ Made(z, d, e) /\ Given(z, a, d) /\ Ranked(z, a, e)
      /\ Parts(z, a, d, e, Len(Nbh[e - N]))
  BY DEF Holds
<1>1. PICK d2 : d2 = [d EXCEPT ![e] = TRUE]
  OBVIOUS
<1>2. /\ d \in [AllSites -> BOOLEAN] /\ e \in AllSites /\ Unset \notin AllSites /\ ~ d[e]
      /\ e - N \in Site /\ Extend(e - N) = e
      /\ \A t \in Site : /\ t \in AllSites /\ Extend(t) \in AllSites /\ t # e
                         /\ Extend(t) = e <=> t = e - N
  BY <1>0, SiteFacts DEF Made
<1>3. /\ d2 \in [AllSites -> BOOLEAN] /\ \A t \in AllSites : d2[t] <=> d[t] \/ t = e
      /\ \A t \in Site : d2[t] <=> d[t]
  BY <1>1, <1>2
<1>4. Made(z, d2, Unset)
  BY <1>0, <1>2, <1>3 DEF Made
<1>5. Given(z, a, d2)
  <2>1. \A t \in ExtSite : t - N \in Site
    BY SiteFacts
  <2> QED BY <1>0, <1>3, <2>1 DEF Given
<1>6. Ranked(z, a, Unset)
  BY <1>0 DEF Ranked
<1>7. ASSUME NEW C \in SUBSET AllSites
      PROVE  Joined(C, z, d2, Unset, j) <=> Joined(C, z, d, e, Len(Nbh[e - N]))
  <2> DEFINE Agree(t, u) == Extend(t) \in C <=> Extend(u) \in C
  <2>1. PICK u : u = e - N
    OBVIOUS
  <2>2. u \in Site /\ Extend(u) = e /\ \A t \in Site : Extend(t) = e <=> t = u
    BY <1>2, <2>1
  <2>3. /\ \A t \in Site : \A w \in Neighbours[t] : w \in Site /\ t \in Neighbours[w]
        /\ \A w : w \in Neighbours[u] <=> \E i \in 1..Len(Nbh[u]) : Nbh[u][i] = w /\ w \in Site
    <3>1. Nbh[u] \in Seq(Site \cup {Outside})
      BY <2>2, RegionsAssumption
    <3>2. DOMAIN Nbh[u] = 1..Len(Nbh[u])
      BY <3>1
    <3> QED BY <2>2, <3>2, NeighboursSymmetric DEF Neighbours
  <2>4. /\ \A t \in Site : d2[Extend(t)] <=> d[Extend(t)] \/ t = u
        /\ ~ d[Extend(u)]
    BY <1>2, <1>3, <2>2
  <2> DEFINE L == \A t \in Site : \A w \in Neighbours[t] : d2[Extend(t)] /\ d2[Extend(w)] => Agree(t, w)
             M == \A t \in Site : \A w \in Neighbours[t] : d[Extend(t)] /\ d[Extend(w)] => Agree(t, w)
             K == \A w \in Neighbours[u] : d[Extend(w)] => Agree(u, w)
             J == \A i \in 1..Len(Nbh[u]) :
                    Nbh[u][i] \in Site /\ d[Extend(Nbh[u][i])] =>
                      (e \in C <=> Extend(Nbh[u][i]) \in C)
  <2>5. J <=> K
    BY <2>2, <2>3
  <2> HIDE DEF J
  <2>6. L <=> M /\ K
    <3>1. L => M /\ K
      BY <2>2, <2>3, <2>4
    <3>2. ASSUME M, K, NEW t \in Site, NEW w \in Neighbours[t], d2[Extend(t)], d2[Extend(w)]
          PROVE  Agree(t, w)
      <4>1. w \in Site /\ t \in Neighbours[w]
        BY <2>3
      <4>2. CASE t = u /\ w = u
        BY <4>2
      <4>3. CASE t = u /\ w # u
        BY <2>4, <3>2, <4>1, <4>3
      <4>4. CASE t # u /\ w = u
        BY <2>4, <3>2, <4>1, <4>4
      <4>5. CASE t # u /\ w # u
        BY <2>4, <3>2, <4>1, <4>5
      <4> QED BY <4>2, <4>3, <4>4, <4>5
    <3> QED BY <3>1, <3>2
  <2> HIDE DEF K
  <2>7. Joined(C, z, d2, Unset, j) <=> (\A t \in Site : z[t] # Unset => (t \in C <=> Extend(t) \in C)) /\ L
    BY DEF Joined
  <2>8. Joined(C, z, d, e, Len(Nbh[e - N])) <=>
          (\A t \in Site : z[t] # Unset => (t \in C <=> Extend(t) \in C)) /\ M /\ J
    BY <2>1 DEF Joined, J
  <2> QED BY <2>5, <2>6, <2>7, <2>8
<1>8. Parts(z, a, d2, Unset, j)
  BY <1>0, <1>7 DEF Parts
<1> QED BY <1>1, <1>4, <1>5, <1>6, <1>8 DEF Holds

-----------------------------------------------------------------------------
(* The invariant of dual_union_find.                                         *)

\* What sort_psites_increasing makes of the image g.
Ordered(o, g) ==
    /\ o \in [1..N -> Site]
    /\ \A k, l \in 1..N : o[k] = o[l] => k = l
    /\ \A t \in Site : \E k \in 1..N : o[k] = t
    /\ \A k, l \in 1..N : k < l => g[o[k]] <= g[o[l]]

AnyTypes ==
    /\ f \in [Site -> Value] /\ m \in [Site -> Value]
    /\ Ordered(s_f, f) /\ Ordered(s_m, m)
    /\ pc \in {"merge", "neighbours", "canonize", "update", "return"}
    /\ p_f \in 0..N /\ p_m \in 0..N /\ ext \in ExtSite \cup {Unset} /\ nth \in Nat
    /\ parent \in [AllSites -> AllSites \cup {Unset}]
    /\ zpar \in [AllSites -> AllSites \cup {Unset}]
    /\ deja_vu \in [AllSites -> BOOLEAN]
    /\ s \in Seq(AllSites) /\ pos \in 1..(N + 1) /\ calls \in Seq(AllSites)

\* The site of the extension whose neighbours are browsed.
Current == IF pc = "neighbours" THEN ext ELSE Unset

\* What follows j in s_f and k in s_m was seen.
SeenFrom(d, j, k) ==
    /\ \A i \in 1..N : d[s_f[i]] <=> i > j
    /\ \A i \in 1..N : d[Extend(s_m[i])] <=> i > k

AnyMerging ==
    /\ SeenFrom(deja_vu, p_f, p_m) /\ calls = <<>>
    /\ pc = "neighbours" =>
         /\ UnionFind!MaskIsNext /\ p_m > 0
         /\ ext = Extend(s_m[p_m]) /\ nth <= Len(Nbh[ext - N])
    /\ Holds(zpar, parent, deja_vu, Current, nth)

\* The pending calls of update_m_parent go down one after the other.
AnyTree ==
    /\ parent \in [AllSites -> AllSites]
    /\ \E B, rk : Falls(parent, rk, B)
    /\ \A i, j \in 1..Len(calls) : i <= j => Reaches(parent, calls[i], calls[j])
    /\ IF pc = "canonize" THEN calls = <<>> ELSE Len(calls) >= 1 /\ pos <= N

AnyInv ==
    /\ AnyTypes
    /\ IF pc \in {"merge", "neighbours"} THEN AnyMerging ELSE AnyTree

LEMMA SortsOrders ==
    ASSUME NEW o, NEW g, UnionFind!Sorts(o, g)
    PROVE  Ordered(o, g)
<1>1. /\ o \in [1..N -> Site] /\ IsInjective(o)
      /\ \A k, l \in 1..N : k < l => g[o[k]] <= g[o[l]]
  BY UnionFindShares DEF UnionFind!Sorts
<1>2. \A k, l \in 1..N : o[k] = o[l] => k = l
  BY <1>1 DEF IsInjective
<1>3. \A t \in Site : \E k \in 1..N : o[k] = t
  <2>1. Site = 1..N /\ IsFiniteSet(Site)
    BY SitesAreFinite DEF Site
  <2>2. o \in Injection(Site, Site)
    BY <1>1, <2>1 DEF Injection
  <2>3. o \in Surjection(Site, Site)
    BY <2>1, <2>2, FS_Injection
  <2> QED BY <2>1, <2>3 DEF Surjection
<1> QED BY <1>1, <1>2, <1>3 DEF Ordered

LEMMA AnyInit == UnionFind!Init => AnyInv
<1> SUFFICES ASSUME UnionFind!Init PROVE AnyInv
  OBVIOUS
<1>1. /\ f \in [Site -> Value] /\ m \in [Site -> Value]
      /\ UnionFind!Sorts(s_f, f) /\ UnionFind!Sorts(s_m, m) /\ UnionFind!Start
  BY UnionFindShares DEF UnionFind!Init
<1>2. /\ pc = "merge" /\ p_f = N /\ p_m = N /\ ext = Unset /\ nth = 0
      /\ parent = [t \in AllSites |-> Unset] /\ zpar = [t \in AllSites |-> Unset]
      /\ deja_vu = [t \in AllSites |-> FALSE] /\ s = <<>> /\ pos = 1 /\ calls = <<>>
  BY <1>1, UnionFindShares DEF UnionFind!Start
<1>3. Ordered(s_f, f) /\ Ordered(s_m, m)
  BY <1>1, SortsOrders
<1>4. AnyTypes
  BY <1>1, <1>2, <1>3, SiteFacts DEF AnyTypes
<1>5. SeenFrom(deja_vu, p_f, p_m)
  <2>1. \A i \in 1..N : s_f[i] \in Site /\ s_m[i] \in Site
    BY <1>3 DEF Ordered
  <2>2. \A t \in AllSites : ~ deja_vu[t]
    BY <1>2
  <2>3. \A t \in Site : t \in AllSites /\ Extend(t) \in AllSites
    BY SiteFacts
  <2>4. \A i \in 1..N : ~ (i > p_f) /\ ~ (i > p_m)
    BY <1>2, SiteFacts
  <2> QED BY <2>1, <2>2, <2>3, <2>4 DEF SeenFrom
<1>6. Holds(zpar, parent, deja_vu, Unset, nth)
  <2>1. \A t \in AllSites : zpar[t] = Unset /\ parent[t] = Unset /\ ~ deja_vu[t]
    BY <1>2
  <2>2. Made(zpar, deja_vu, Unset)
    BY <1>2, <2>1, SiteFacts DEF Made, Rooted
  <2>3. Given(zpar, parent, deja_vu)
    BY <1>2, <2>1, SiteFacts DEF Given
  <2>4. Ranked(zpar, parent, Unset)
    <3>1. PICK rk : rk = [t \in AllSites |-> 0]
      OBVIOUS
    <3>2. rk \in [AllSites -> 0..0] /\ 0 \in Nat
      BY <3>1
    <3>3. Falls(zpar, rk, 0) /\ Falls(parent, rk, 0)
      BY <1>4, <2>1, <3>2 DEF Falls, AnyTypes
    <3> QED BY <3>3 DEF Ranked
  <2>5. Parts(zpar, parent, deja_vu, Unset, nth)
    <3>1. ASSUME NEW C \in SUBSET AllSites
          PROVE  Kept(zpar, C) /\ Kept(parent, C) /\ Joined(C, zpar, deja_vu, Unset, nth)
      BY <2>1, SiteFacts DEF Kept, Joined, Neighbours
    <3> QED BY <3>1 DEF Parts
  <2> QED BY <2>2, <2>3, <2>4, <2>5 DEF Holds
<1> QED BY <1>2, <1>4, <1>5, <1>6 DEF AnyInv, AnyMerging, Current

\* The image that moves is the one that has not seen the site.
LEMMA ScanFacts ==
    ASSUME AnyTypes, SeenFrom(deja_vu, p_f, p_m), p_m > 0 \/ p_f > 0
    PROVE  /\ UnionFind!p \in Site
           /\ UnionFind!MaskIsNext => /\ p_m > 0 /\ UnionFind!p = s_m[p_m]
                                      /\ ~ deja_vu[Extend(UnionFind!p)]
           /\ ~ UnionFind!MaskIsNext => /\ p_f > 0 /\ UnionFind!p = s_f[p_f]
                                        /\ ~ deja_vu[UnionFind!p]
           /\ ~ deja_vu[UnionFind!p] /\ ~ deja_vu[Extend(UnionFind!p)] =>
                (UnionFind!MaskIsNext <=> f[UnionFind!p] <= m[UnionFind!p])
<1>0. /\ Ordered(s_f, f) /\ Ordered(s_m, m) /\ p_f \in 0..N /\ p_m \in 0..N
      /\ \A t \in Site : f[t] \in Int /\ m[t] \in Int
      /\ \A i \in 1..N : deja_vu[s_f[i]] <=> i > p_f
      /\ \A i \in 1..N : deja_vu[Extend(s_m[i])] <=> i > p_m
      /\ N \in Nat
  <2>1. \A t \in Site : f[t] \in Value /\ m[t] \in Value
    BY DEF AnyTypes
  <2>2. \A t \in Value : t \in Int
    BY ValueAssumption
  <2>3. Ordered(s_f, f) /\ Ordered(s_m, m) /\ p_f \in 0..N /\ p_m \in 0..N
    BY DEF AnyTypes
  <2> QED BY <2>1, <2>2, <2>3, SiteFacts DEF SeenFrom
<1>1. PICK u : u = UnionFind!p
  OBVIOUS
<1>2. UnionFind!MaskIsNext => p_m > 0 /\ p_m \in 1..N /\ u = s_m[p_m]
  BY <1>0, <1>1 DEF UnionFind!MaskIsNext, UnionFind!p
<1>3. ~ UnionFind!MaskIsNext => p_f > 0 /\ p_f \in 1..N /\ u = s_f[p_f]
  BY <1>0, <1>1 DEF UnionFind!MaskIsNext, UnionFind!p
<1>4. u \in Site
  BY <1>0, <1>2, <1>3 DEF Ordered
<1>5. UnionFind!MaskIsNext => ~ deja_vu[Extend(u)]
  BY <1>0, <1>2
<1>6. ~ UnionFind!MaskIsNext => ~ deja_vu[u]
  BY <1>0, <1>3
<1>7. ASSUME ~ deja_vu[u], ~ deja_vu[Extend(u)] PROVE UnionFind!MaskIsNext <=> f[u] <= m[u]
  <2>1. PICK k \in 1..N : s_f[k] = u
    BY <1>0, <1>4 DEF Ordered
  <2>2. PICK l \in 1..N : s_m[l] = u
    BY <1>0, <1>4 DEF Ordered
  <2>3. k <= p_f /\ l <= p_m /\ p_f \in 1..N /\ p_m \in 1..N
    BY <1>0, <1>7, <2>1, <2>2
  <2>4. f[u] <= f[s_f[p_f]] /\ m[u] <= m[s_m[p_m]]
    <3>1. k = p_f \/ k < p_f
      BY <1>0, <2>3
    <3>2. l = p_m \/ l < p_m
      BY <1>0, <2>3
    <3>3. f[u] <= f[s_f[p_f]]
      <4>1. k = p_f \/ f[s_f[k]] <= f[s_f[p_f]]
        BY <1>0, <2>3, <3>1 DEF Ordered
      <4> QED BY <1>0, <1>4, <2>1, <4>1
    <3>4. m[u] <= m[s_m[p_m]]
      <4>1. l = p_m \/ m[s_m[l]] <= m[s_m[p_m]]
        BY <1>0, <2>3, <3>2 DEF Ordered
      <4> QED BY <1>0, <1>4, <2>2, <4>1
    <3> QED BY <3>3, <3>4
  <2>5. s_f[p_f] \in Site /\ s_m[p_m] \in Site
    BY <1>0, <2>3 DEF Ordered
  <2>6. CASE UnionFind!MaskIsNext
    <3>1. f[s_f[p_f]] <= m[s_m[p_m]] /\ u = s_m[p_m]
      BY <1>0, <1>2, <2>3, <2>6 DEF UnionFind!MaskIsNext
    <3> QED BY <1>0, <1>4, <2>4, <2>5, <2>6, <3>1
  <2>7. CASE ~ UnionFind!MaskIsNext
    <3>1. ~ (f[s_f[p_f]] <= m[s_m[p_m]]) /\ u = s_f[p_f]
      BY <1>0, <1>3, <2>3, <2>7 DEF UnionFind!MaskIsNext
    <3> QED BY <1>0, <1>4, <2>4, <2>5, <2>7, <3>1
  <2> QED BY <2>6, <2>7
<1> QED BY <1>1, <1>2, <1>3, <1>4, <1>5, <1>6, <1>7

LEMMA ScanMoves ==
    ASSUME AnyTypes, SeenFrom(deja_vu, p_f, p_m), p_m > 0 \/ p_f > 0, UnionFind!NextSite
    PROVE  /\ p_f' \in 0..N /\ p_m' \in 0..N
           /\ ~ UnionFind!MaskIsNext => SeenFrom([deja_vu EXCEPT ![UnionFind!p] = TRUE], p_f', p_m')
           /\ UnionFind!MaskIsNext =>
                SeenFrom([deja_vu EXCEPT ![Extend(UnionFind!p)] = TRUE], p_f', p_m')
<1>1. PICK u : u = UnionFind!p
  OBVIOUS
<1>2. /\ u \in Site
      /\ UnionFind!MaskIsNext => p_m > 0 /\ u = s_m[p_m]
      /\ ~ UnionFind!MaskIsNext => p_f > 0 /\ u = s_f[p_f]
  BY <1>1, ScanFacts
<1>3. /\ UnionFind!MaskIsNext => p_m' = p_m - 1 /\ p_f' = p_f
      /\ ~ UnionFind!MaskIsNext => p_f' = p_f - 1 /\ p_m' = p_m
  BY DEF UnionFind!NextSite
<1>4. /\ p_f \in 0..N /\ p_m \in 0..N /\ N \in Nat
      /\ deja_vu \in [AllSites -> BOOLEAN]
      /\ \A i \in 1..N : s_f[i] \in Site /\ s_m[i] \in Site
      /\ \A i, j \in 1..N : (s_f[i] = s_f[j] => i = j) /\ (s_m[i] = s_m[j] => i = j)
  BY SiteFacts DEF AnyTypes, Ordered
<1>5. p_f' \in 0..N /\ p_m' \in 0..N
  BY <1>2, <1>3, <1>4
<1>6. \A t, w \in Site : /\ t \in AllSites /\ Extend(t) \in AllSites /\ t # Extend(w)
                         /\ Extend(t) = Extend(w) => t = w
  BY SiteFacts
<1>7. ASSUME ~ UnionFind!MaskIsNext
      PROVE  SeenFrom([deja_vu EXCEPT ![u] = TRUE], p_f', p_m')
  <2>1. PICK d : d = [deja_vu EXCEPT ![u] = TRUE]
    OBVIOUS
  <2>2. \A t \in Site : /\ d[t] <=> deja_vu[t] \/ t = u
                        /\ d[Extend(t)] <=> deja_vu[Extend(t)]
    BY <1>2, <1>4, <1>6, <2>1
  <2>3. ASSUME NEW i \in 1..N PROVE d[s_f[i]] <=> i > p_f'
    <3>1. deja_vu[s_f[i]] <=> i > p_f
      BY DEF SeenFrom
    <3>2. s_f[i] = u <=> i = p_f
      BY <1>2, <1>4, <1>7
    <3>3. i > p_f - 1 <=> i > p_f \/ i = p_f
      BY <1>4
    <3> QED BY <1>3, <1>4, <1>7, <2>2, <3>1, <3>2, <3>3
  <2>4. ASSUME NEW i \in 1..N PROVE d[Extend(s_m[i])] <=> i > p_m'
    BY <1>3, <1>4, <1>7, <2>2 DEF SeenFrom
  <2> QED BY <2>1, <2>3, <2>4 DEF SeenFrom
<1>8. ASSUME UnionFind!MaskIsNext
      PROVE  SeenFrom([deja_vu EXCEPT ![Extend(u)] = TRUE], p_f', p_m')
  <2>1. PICK d : d = [deja_vu EXCEPT ![Extend(u)] = TRUE]
    OBVIOUS
  <2>2. \A t \in Site : /\ d[t] <=> deja_vu[t]
                        /\ d[Extend(t)] <=> deja_vu[Extend(t)] \/ t = u
    BY <1>2, <1>4, <1>6, <2>1
  <2>3. ASSUME NEW i \in 1..N PROVE d[Extend(s_m[i])] <=> i > p_m'
    <3>1. deja_vu[Extend(s_m[i])] <=> i > p_m
      BY DEF SeenFrom
    <3>2. s_m[i] = u <=> i = p_m
      BY <1>2, <1>4, <1>8
    <3>3. i > p_m - 1 <=> i > p_m \/ i = p_m
      BY <1>4
    <3> QED BY <1>3, <1>4, <1>8, <2>2, <3>1, <3>2, <3>3
  <2>4. ASSUME NEW i \in 1..N PROVE d[s_f[i]] <=> i > p_f'
    BY <1>3, <1>4, <1>8, <2>2 DEF SeenFrom
  <2> QED BY <2>1, <2>3, <2>4 DEF SeenFrom
<1> QED BY <1>1, <1>5, <1>7, <1>8

\* Between two sites of the first loop.
LEMMA BrowsingFacts ==
    ASSUME AnyInv, UnionFind!Browsing
    PROVE  /\ pc = "merge" /\ (p_m > 0 \/ p_f > 0) /\ AnyTypes
           /\ SeenFrom(deja_vu, p_f, p_m) /\ calls = <<>>
           /\ Holds(zpar, parent, deja_vu, Unset, nth)
BY DEF UnionFind!Browsing, AnyInv, AnyMerging, Current

LEMMA HoldsTypes ==
    ASSUME NEW z, NEW a, NEW d, NEW e, NEW j, Holds(z, a, d, e, j)
    PROVE  /\ z \in [AllSites -> AllSites \cup {Unset}] /\ a \in [AllSites -> AllSites \cup {Unset}]
           /\ d \in [AllSites -> BOOLEAN]
BY DEF Holds, Made, Given

\* The merge goes on to the next site.
LEMMA MergeGoesOn ==
    ASSUME AnyTypes, UNCHANGED <<f, m, s_f, s_m, s, pos, calls, ext, nth>>, pc' = "merge",
           calls = <<>>,
           p_f' \in 0..N, p_m' \in 0..N, SeenFrom(deja_vu', p_f', p_m'),
           Holds(zpar', parent', deja_vu', Unset, nth')
    PROVE  AnyInv'
<1>1. AnyTypes'
  BY HoldsTypes DEF AnyTypes, Ordered
<1>2. AnyMerging'
  BY DEF AnyMerging, SeenFrom, Current
<1> QED BY <1>1, <1>2 DEF AnyInv

LEMMA JoinBelowStep == ASSUME AnyInv, UnionFind!JoinBelow PROVE AnyInv'
<1>1. PICK u : u = UnionFind!p
  OBVIOUS
<1>2. UnionFind!Browsing
  BY DEF UnionFind!JoinBelow
<1>3. /\ pc = "merge" /\ (p_m > 0 \/ p_f > 0) /\ AnyTypes
      /\ SeenFrom(deja_vu, p_f, p_m)
      /\ Holds(zpar, parent, deja_vu, Unset, nth) /\ calls = <<>>
  BY <1>2, BrowsingFacts
<1>4. /\ deja_vu[Extend(u)] /\ UnionFind!NextSite
      /\ deja_vu' = [deja_vu EXCEPT ![u] = TRUE]
      /\ parent' = [parent EXCEPT ![u] = u, ![UnionFind!Root(Extend(u))] = u]
      /\ zpar' = [UnionFind!Compressed(Extend(u)) EXCEPT ![u] = u, ![UnionFind!Root(Extend(u))] = u]
      /\ UNCHANGED <<f, m, s_f, s_m, s, pc, ext, nth, pos, calls>>
  BY <1>1, UnionFindShares DEF UnionFind!JoinBelow, UnionFind!inputs
<1>5. u \in Site /\ ~ UnionFind!MaskIsNext /\ ~ deja_vu[u]
  BY <1>1, <1>3, <1>4, ScanFacts
<1>6. /\ Extend(u) \in AllSites /\ zpar[Extend(u)] # Unset
  BY <1>3, <1>4, <1>5, SiteFacts DEF Holds, Made
<1>7. PICK Z, r : /\ Z = UnionFind!Compressed(Extend(u)) /\ r = UnionFind!Root(Extend(u))
                  /\ r \in AllSites /\ Z[r] = r /\ (Z[Extend(u)] = Extend(u) => r = Extend(u))
                  /\ \A C \in SUBSET AllSites : Kept(Z, C) => (Extend(u) \in C <=> r \in C)
                  /\ Holds(Z, parent, deja_vu, Unset, nth)
  BY <1>3, <1>6, HoldsCompressed
<1>8. Holds(zpar', parent', deja_vu', Unset, nth)
  BY <1>4, <1>5, <1>7, HoldsBelow
<1>9. p_f' \in 0..N /\ p_m' \in 0..N /\ SeenFrom(deja_vu', p_f', p_m')
  BY <1>1, <1>3, <1>4, <1>5, ScanMoves
<1> QED BY <1>3, <1>4, <1>8, <1>9, MergeGoesOn

LEMMA ImageFirstStep == ASSUME AnyInv, UnionFind!ImageFirst PROVE AnyInv'
<1>1. PICK u : u = UnionFind!p
  OBVIOUS
<1>2. UnionFind!Browsing
  BY DEF UnionFind!ImageFirst
<1>3. /\ pc = "merge" /\ (p_m > 0 \/ p_f > 0) /\ AnyTypes
      /\ SeenFrom(deja_vu, p_f, p_m)
      /\ Holds(zpar, parent, deja_vu, Unset, nth) /\ calls = <<>>
  BY <1>2, BrowsingFacts
<1>4. /\ ~ deja_vu[Extend(u)] /\ ~ deja_vu[u] /\ f[u] > m[u] /\ UnionFind!NextSite
      /\ deja_vu' = [deja_vu EXCEPT ![u] = TRUE]
      /\ UNCHANGED <<f, m, s_f, s_m, s, pc, ext, nth, pos, calls, parent, zpar>>
  BY <1>1, UnionFindShares DEF UnionFind!ImageFirst, UnionFind!inputs
<1>5. u \in Site /\ ~ UnionFind!MaskIsNext
  <2>1. u \in Site /\ (UnionFind!MaskIsNext <=> f[u] <= m[u])
    BY <1>1, <1>3, <1>4, ScanFacts
  <2>2. f[u] \in Level /\ m[u] \in Level /\ Level = 0..MaxValue /\ MaxValue \in Nat
    BY <1>3, <2>1, FextFacts DEF AnyTypes
  <2> QED BY <1>4, <2>1, <2>2
<1>6. Holds(zpar', parent', deja_vu', Unset, nth)
  BY <1>3, <1>4, <1>5, HoldsSeen
<1>7. p_f' \in 0..N /\ p_m' \in 0..N /\ SeenFrom(deja_vu', p_f', p_m')
  BY <1>1, <1>3, <1>4, <1>5, ScanMoves
<1> QED BY <1>3, <1>4, <1>6, <1>7, MergeGoesOn

\* The mask reaches a site: its neighbours come next.
LEMMA MergeBrowses ==
    ASSUME AnyTypes, SeenFrom(deja_vu, p_f, p_m), NEW u \in Site,
           UnionFind!MaskIsNext, p_m > 0, u = s_m[p_m], calls = <<>>,
           UNCHANGED <<f, m, s_f, s_m, s, pos, calls, p_f, p_m, deja_vu>>,
           pc' = "neighbours", ext' = Extend(u), nth' = 0,
           Holds(zpar', parent', deja_vu, Extend(u), 0)
    PROVE  AnyInv'
<1>1. Extend(u) \in ExtSite /\ Extend(u) - N = u
  BY SiteFacts
<1>2. AnyTypes'
  BY <1>1, HoldsTypes DEF AnyTypes, Ordered
<1>3. Len(Nbh[u]) \in Nat
  BY RegionsAssumption
<1>4. UnionFind!MaskIsNext'
  BY DEF UnionFind!MaskIsNext
<1>5. AnyMerging'
  BY <1>1, <1>3, <1>4 DEF AnyMerging, SeenFrom, Current
<1> QED BY <1>2, <1>5 DEF AnyInv

LEMMA JoinAboveStep == ASSUME AnyInv, UnionFind!JoinAbove PROVE AnyInv'
<1>1. PICK u : u = UnionFind!p
  OBVIOUS
<1>2. UnionFind!Browsing
  BY DEF UnionFind!JoinAbove
<1>3. /\ pc = "merge" /\ (p_m > 0 \/ p_f > 0) /\ AnyTypes
      /\ SeenFrom(deja_vu, p_f, p_m)
      /\ Holds(zpar, parent, deja_vu, Unset, nth) /\ calls = <<>>
  BY <1>2, BrowsingFacts
<1>4. /\ ~ deja_vu[Extend(u)] /\ deja_vu[u]
      /\ parent' = [parent EXCEPT ![u] = Extend(u), ![Extend(u)] = Extend(u)]
      /\ zpar' = [zpar EXCEPT ![u] = Extend(u), ![Extend(u)] = Extend(u)]
      /\ ext' = Extend(u) /\ nth' = 0 /\ pc' = "neighbours"
      /\ UNCHANGED <<f, m, s_f, s_m, s, p_f, p_m, deja_vu, pos, calls>>
  BY <1>1, UnionFindShares DEF UnionFind!JoinAbove, UnionFind!inputs
<1>5. u \in Site /\ UnionFind!MaskIsNext /\ p_m > 0 /\ u = s_m[p_m]
  BY <1>1, <1>3, <1>4, ScanFacts
<1>6. Holds(zpar', parent', deja_vu, Extend(u), 0)
  BY <1>3, <1>4, <1>5, HoldsAbove
<1> QED BY <1>3, <1>4, <1>5, <1>6, MergeBrowses

LEMMA MaskFirstStep == ASSUME AnyInv, UnionFind!MaskFirst PROVE AnyInv'
<1>1. PICK u : u = UnionFind!p
  OBVIOUS
<1>2. UnionFind!Browsing
  BY DEF UnionFind!MaskFirst
<1>3. /\ pc = "merge" /\ (p_m > 0 \/ p_f > 0) /\ AnyTypes
      /\ SeenFrom(deja_vu, p_f, p_m)
      /\ Holds(zpar, parent, deja_vu, Unset, nth) /\ calls = <<>>
  BY <1>2, BrowsingFacts
<1>4. /\ ~ deja_vu[Extend(u)] /\ ~ deja_vu[u] /\ f[u] <= m[u]
      /\ zpar' = [zpar EXCEPT ![Extend(u)] = Extend(u)]
      /\ ext' = Extend(u) /\ nth' = 0 /\ pc' = "neighbours"
      /\ UNCHANGED <<f, m, s_f, s_m, s, p_f, p_m, deja_vu, pos, calls, parent>>
  BY <1>1, UnionFindShares DEF UnionFind!MaskFirst, UnionFind!inputs
<1>5. u \in Site /\ UnionFind!MaskIsNext /\ p_m > 0 /\ u = s_m[p_m]
  BY <1>1, <1>3, <1>4, ScanFacts
<1>6. Holds(zpar', parent', deja_vu, Extend(u), 0)
  BY <1>3, <1>4, <1>5, HoldsFirst
<1> QED BY <1>3, <1>4, <1>5, <1>6, MergeBrowses

\* Between two neighbours.
LEMMA NeighboursFacts ==
    ASSUME AnyInv, pc = "neighbours"
    PROVE  /\ AnyTypes /\ SeenFrom(deja_vu, p_f, p_m) /\ UnionFind!MaskIsNext /\ p_m > 0
           /\ ext \in ExtSite /\ ext # Unset /\ ext - N \in Site /\ ext = Extend(UnionFind!p)
           /\ nth \in Nat /\ nth <= Len(Nbh[ext - N])
           /\ Holds(zpar, parent, deja_vu, ext, nth) /\ calls = <<>>
           /\ \A i \in 1..Len(Nbh[ext - N]) :
                UnionFind!Seen(Nbh[ext - N][i]) <=>
                  Nbh[ext - N][i] \in Site /\ deja_vu[Extend(Nbh[ext - N][i])]
<1>1. AnyTypes /\ AnyMerging /\ Current = ext
  BY DEF AnyInv, Current
<1>2. /\ SeenFrom(deja_vu, p_f, p_m) /\ UnionFind!MaskIsNext /\ p_m > 0
      /\ ext = Extend(s_m[p_m]) /\ nth <= Len(Nbh[ext - N])
      /\ Holds(zpar, parent, deja_vu, ext, nth) /\ nth \in Nat /\ calls = <<>>
  BY <1>1 DEF AnyMerging, AnyTypes
<1>3. UnionFind!p \in Site /\ UnionFind!p = s_m[p_m]
  BY <1>1, <1>2, ScanFacts
<1>4. ext \in ExtSite /\ ext # Unset /\ ext - N \in Site
  BY <1>2, <1>3, SiteFacts
<1>5. ASSUME NEW i \in 1..Len(Nbh[ext - N])
      PROVE  Nbh[ext - N][i] \in Site <=> Nbh[ext - N][i] # Outside
  <2>1. Nbh[ext - N] \in Seq(Site \cup {Outside})
    BY <1>4, RegionsAssumption
  <2>2. Nbh[ext - N][i] \in Site \cup {Outside}
    BY <2>1
  <2> QED BY <2>2 DEF Outside, Site
<1> QED BY <1>1, <1>2, <1>3, <1>4, <1>5, UnionFindShares DEF UnionFind!Seen

LEMMA BrowseGoesOn ==
    ASSUME AnyInv, UnionFind!HasNeighbour, nth' = nth + 1,
           UNCHANGED <<f, m, s_f, s_m, s, pc, p_f, p_m, ext, deja_vu, pos, calls>>,
           Holds(zpar', parent', deja_vu, ext, nth + 1)
    PROVE  AnyInv'
<1>1. pc = "neighbours" /\ nth < Len(Nbh[ext - N])
  BY UnionFindShares DEF UnionFind!HasNeighbour
<1>2. /\ AnyTypes /\ SeenFrom(deja_vu, p_f, p_m) /\ UnionFind!MaskIsNext /\ p_m > 0
      /\ ext - N \in Site /\ nth \in Nat /\ ext = Extend(s_m[p_m]) /\ calls = <<>>
  BY <1>1, NeighboursFacts DEF AnyInv, AnyMerging
<1>3. Len(Nbh[ext - N]) \in Nat
  BY <1>2, RegionsAssumption
<1>4. nth + 1 \in Nat /\ nth + 1 <= Len(Nbh[ext - N])
  BY <1>1, <1>2, <1>3
<1>5. AnyTypes'
  BY <1>2, <1>4, HoldsTypes DEF AnyTypes, Ordered
<1>6. UnionFind!MaskIsNext'
  BY <1>2 DEF UnionFind!MaskIsNext
<1>7. AnyMerging'
  BY <1>1, <1>2, <1>4, <1>6 DEF AnyMerging, SeenFrom, Current
<1> QED BY <1>1, <1>5, <1>7 DEF AnyInv

LEMMA AnySkipNeighbourStep == ASSUME AnyInv, UnionFind!SkipNeighbour PROVE AnyInv'
<1>1. /\ UnionFind!HasNeighbour /\ ~ UnionFind!Seen(Nbh[ext - N][nth + 1]) /\ nth' = nth + 1
      /\ UNCHANGED <<f, m, s_f, s_m, s, pc, p_f, p_m, ext, deja_vu, pos, calls, parent, zpar>>
  BY UnionFindShares DEF UnionFind!SkipNeighbour, UnionFind!Neighbour, UnionFind!inputs
<1>2. pc = "neighbours" /\ nth < Len(Nbh[ext - N])
  BY <1>1, UnionFindShares DEF UnionFind!HasNeighbour
<1>3. /\ nth \in Nat /\ ext # Unset /\ Holds(zpar, parent, deja_vu, ext, nth)
      /\ nth + 1 \in 1..Len(Nbh[ext - N])
  <2>1. nth \in Nat /\ ext # Unset /\ Holds(zpar, parent, deja_vu, ext, nth) /\ ext - N \in Site
    BY <1>2, NeighboursFacts
  <2>2. Len(Nbh[ext - N]) \in Nat
    BY <2>1, RegionsAssumption
  <2> QED BY <1>2, <2>1, <2>2
<1>4. ~ (Nbh[ext - N][nth + 1] \in Site /\ deja_vu[Extend(Nbh[ext - N][nth + 1])])
  BY <1>1, <1>2, <1>3, NeighboursFacts
<1>5. Holds(zpar, parent, deja_vu, ext, nth + 1)
  BY <1>3, <1>4, HoldsSkip
<1> QED BY <1>1, <1>5, BrowseGoesOn

LEMMA AnyJoinNeighbourStep == ASSUME AnyInv, UnionFind!JoinNeighbour PROVE AnyInv'
<1>0. PICK v : v = Nbh[ext - N][nth + 1]
  OBVIOUS
<1>1. /\ UnionFind!HasNeighbour /\ UnionFind!Seen(v) /\ nth' = nth + 1
      /\ zpar' = [UnionFind!Compressed(Extend(v)) EXCEPT ![UnionFind!Root(Extend(v))] = ext]
      /\ parent' = IF UnionFind!Root(Extend(v)) = ext THEN parent
                     ELSE [parent EXCEPT ![UnionFind!Root(Extend(v))] = ext]
      /\ UNCHANGED <<f, m, s_f, s_m, s, pc, p_f, p_m, ext, deja_vu, pos, calls>>
  BY <1>0, UnionFindShares DEF UnionFind!JoinNeighbour, UnionFind!Neighbour, UnionFind!inputs
<1>2. pc = "neighbours" /\ nth < Len(Nbh[ext - N])
  BY <1>1, UnionFindShares DEF UnionFind!HasNeighbour
<1>3. /\ nth \in Nat /\ ext # Unset /\ Holds(zpar, parent, deja_vu, ext, nth)
      /\ nth + 1 \in 1..Len(Nbh[ext - N])
  <2>1. nth \in Nat /\ ext # Unset /\ Holds(zpar, parent, deja_vu, ext, nth) /\ ext - N \in Site
    BY <1>2, NeighboursFacts
  <2>2. Len(Nbh[ext - N]) \in Nat
    BY <2>1, RegionsAssumption
  <2> QED BY <1>2, <2>1, <2>2
<1>4. v \in Site /\ deja_vu[Extend(v)]
  BY <1>0, <1>1, <1>2, <1>3, NeighboursFacts
<1>5. Extend(v) \in AllSites /\ zpar[Extend(v)] # Unset
  BY <1>3, <1>4, SiteFacts DEF Holds, Made
<1>6. PICK Z, r : /\ Z = UnionFind!Compressed(Extend(v)) /\ r = UnionFind!Root(Extend(v))
                  /\ r \in AllSites /\ Z[r] = r
                  /\ \A C \in SUBSET AllSites : Kept(Z, C) => (Extend(v) \in C <=> r \in C)
                  /\ Holds(Z, parent, deja_vu, ext, nth)
  BY <1>3, <1>5, HoldsCompressed
<1>7. Holds([Z EXCEPT ![r] = ext], IF r = ext THEN parent ELSE [parent EXCEPT ![r] = ext],
            deja_vu, ext, nth + 1)
  BY <1>0, <1>3, <1>4, <1>6, HoldsJoin
<1>8. Holds(zpar', parent', deja_vu, ext, nth + 1)
  BY <1>1, <1>6, <1>7
<1> QED BY <1>1, <1>8, BrowseGoesOn

LEMMA AnyNeighboursDone == ASSUME AnyInv, UnionFind!NeighboursDone PROVE AnyInv'
<1>1. /\ pc = "neighbours" /\ nth = Len(Nbh[ext - N]) /\ UnionFind!NextSite /\ pc' = "merge"
      /\ deja_vu' = [deja_vu EXCEPT ![ext] = TRUE]
      /\ UNCHANGED <<f, m, s_f, s_m, s, ext, nth, zpar, pos, calls, parent>>
  BY UnionFindShares DEF UnionFind!NeighboursDone, UnionFind!inputs
<1>2. /\ AnyTypes /\ SeenFrom(deja_vu, p_f, p_m) /\ UnionFind!MaskIsNext /\ p_m > 0
      /\ ext = Extend(UnionFind!p) /\ Holds(zpar, parent, deja_vu, ext, nth) /\ ext # Unset
      /\ calls = <<>>
  BY <1>1, NeighboursFacts
<1>3. Holds(zpar', parent', deja_vu', Unset, nth)
  BY <1>1, <1>2, HoldsDone
<1>4. p_f' \in 0..N /\ p_m' \in 0..N /\ SeenFrom(deja_vu', p_f', p_m')
  BY <1>1, <1>2, ScanMoves
<1> QED BY <1>1, <1>2, <1>3, <1>4, MergeGoesOn

\* Everything was made: every site has a parent.
LEMMA MergedStep == ASSUME AnyInv, UnionFind!Merged PROVE AnyInv'
<1>1. /\ pc = "merge" /\ p_m = 0 /\ p_f = 0 /\ pc' = "canonize"
      /\ deja_vu' = [t \in AllSites |-> FALSE]
      /\ UNCHANGED <<f, m, s_f, s_m, s, p_f, p_m, ext, nth, zpar, pos, calls, parent>>
  BY UnionFindShares DEF UnionFind!Merged, UnionFind!inputs, UnionFind!scan
<1>2. /\ AnyTypes /\ SeenFrom(deja_vu, p_f, p_m) /\ Holds(zpar, parent, deja_vu, Unset, nth)
      /\ calls = <<>>
  BY <1>1 DEF AnyInv, AnyMerging, Current
<1>3. AnyTypes'
  BY <1>1, <1>2 DEF AnyTypes, Ordered
<1>4. ASSUME NEW t \in Site PROVE deja_vu[t] /\ deja_vu[Extend(t)]
  <2>1. PICK i \in 1..N : s_f[i] = t
    BY <1>2 DEF AnyTypes, Ordered
  <2>2. PICK j \in 1..N : s_m[j] = t
    BY <1>2 DEF AnyTypes, Ordered
  <2> QED BY <1>1, <1>2, <2>1, <2>2 DEF SeenFrom
<1>5. ASSUME NEW t \in AllSites PROVE parent[t] \in AllSites
  <2>1. zpar[t] # Unset
    <3>1. CASE t \in Site
      BY <1>2, <1>4, <3>1 DEF Holds, Made
    <3>2. CASE t \in ExtSite
      BY <1>2, <1>4, <3>2, SiteFacts DEF Holds, Made
    <3> QED BY <3>1, <3>2, SiteFacts
  <2>2. parent[t] \in AllSites \cup {Unset}
    BY <1>2 DEF AnyTypes
  <2>3. ASSUME parent[t] = Unset PROVE FALSE
    <3>1. t \in ExtSite /\ ~ deja_vu[t - N]
      BY <1>2, <2>1, <2>3 DEF Holds, Given
    <3> QED BY <1>4, <3>1, SiteFacts
  <2> QED BY <2>2, <2>3
<1>6. parent \in [AllSites -> AllSites]
  BY <1>2, <1>5 DEF AnyTypes
<1>7. \E B, rk : Falls(parent, rk, B)
  BY <1>2 DEF Holds, Ranked
<1>8. AnyTree'
  BY <1>1, <1>2, <1>6, <1>7 DEF AnyTree
<1> QED BY <1>1, <1>3, <1>8 DEF AnyInv

-----------------------------------------------------------------------------
(* The second loop of dual_union_find.                                       *)

\* The links of a path go to a site that is not above its end.
LEMMA RedirectedFacts ==
    ASSUME NEW link \in [AllSites -> AllSites], NEW rk, NEW B, Falls(link, rk, B),
           NEW c \in AllSites, NEW top \in AllSites, Reaches(link, c, top),
           NEW up \in AllSites, rk[up] <= rk[top]
    PROVE  \E g \in [AllSites -> AllSites] :
             /\ g = UnionFind!Redirected(link, UnionFind!Path(link, c, top), up)
             /\ Falls(g, rk, B)
             /\ \A t \in AllSites : rk[c] < rk[t] => g[t] = link[t]
<1>0. B \in Nat /\ rk \in [AllSites -> 0..B] /\ \A t \in AllSites : rk[t] \in 0..B
  BY DEF Falls
<1>1. PICK P \in SUBSET AllSites :
        /\ P = UnionFind!Path(link, c, top)
        /\ \A t \in P : /\ t # top /\ rk[top] < rk[t] /\ rk[t] <= rk[c] /\ Reaches(link, t, top)
                        /\ link[t] # t /\ link[t] # Unset /\ link[t] \in P \cup {top}
        /\ c # top => c \in P
  BY PathFacts
<1>2. PICK g : g = [t \in AllSites |-> IF t \in P THEN up ELSE link[t]]
  OBVIOUS
<1>3. g = UnionFind!Redirected(link, UnionFind!Path(link, c, top), up)
  BY <1>1, <1>2, UnionFindShares DEF UnionFind!Redirected
<1>4. g \in [AllSites -> AllSites] /\ \A t \in AllSites : g[t] = IF t \in P THEN up ELSE link[t]
  BY <1>2
<1>5. \A t \in P : rk[up] < rk[t]
  BY <1>0, <1>1
<1>6. Falls(g, rk, B)
  BY <1>0, <1>4, <1>5 DEF Falls
<1>7. ASSUME NEW t \in AllSites, rk[c] < rk[t] PROVE g[t] = link[t]
  <2>1. t \notin P
    BY <1>0, <1>1, <1>7
  <2> QED BY <1>4, <2>1
<1> QED BY <1>3, <1>4, <1>6, <1>7

\* update_m_parent goes up to a site of the same value.
LEMMA ClimbFacts ==
    ASSUME parent \in [AllSites -> AllSites], NEW rk, NEW B, Falls(parent, rk, B), NEW c \in AllSites
    PROVE  UnionFind!Climb(c) \in AllSites /\ Reaches(parent, c, UnionFind!Climb(c))
<1>0. /\ B \in Nat /\ rk \in [AllSites -> 0..B] /\ \A t \in AllSites : rk[t] \in 0..B
      /\ \A t \in AllSites : parent[t] # t => rk[parent[t]] < rk[t]
      /\ Unset \notin AllSites
  BY SiteFacts DEF Falls
<1> DEFINE Higher(t) == parent[t] \in ExtSite /\ fext[t] = fext[parent[t]] /\ t # parent[t]
           IsUp(g) == g = [t \in AllSites |-> IF Higher(t) THEN g[parent[t]] ELSE t]
<1>1. PICK g \in [AllSites -> AllSites] : IsUp(g)
  <2> DEFINE Stop == {t \in AllSites : ~ Higher(t)}
             base == [t \in AllSites |-> t]
             step == [a \in AllSites \X AllSites |-> a[2]]
  <2>1. PICK on : on = parent
    OBVIOUS
  <2>2. Stop \in SUBSET AllSites /\ base \in [AllSites -> AllSites] /\ on \in [AllSites -> AllSites]
        /\ step \in [AllSites \X AllSites -> AllSites]
    BY <2>1
  <2>3. \A t \in AllSites \ Stop : rk[on[t]] < rk[t]
    BY <1>0, <2>1
  <2>4. \A r, t \in AllSites : step[<<r, t>>] = t /\ base[r] = r
    OBVIOUS
  <2>5. \A t \in AllSites : t \in Stop <=> ~ Higher(t)
    OBVIOUS
  <2> HIDE DEF Stop, base, step, Higher
  <2>6. PICK g \in [AllSites -> AllSites] : Recurses(g, AllSites, Stop, on, base, step)
    <3>1. LinkedDown(AllSites, AllSites, B, rk, Stop, on, base, step)
      BY <1>0, <2>2, <2>3 DEF LinkedDown
    <3> QED BY <3>1, LinkRecursion
  <2>7. ASSUME NEW t \in AllSites PROVE g[t] = IF Higher(t) THEN g[parent[t]] ELSE t
    <3>1. g[t] = IF t \in Stop THEN base[t] ELSE step[<<t, g[on[t]]>>]
      BY <2>6 DEF Recurses
    <3>2. g[on[t]] \in AllSites
      BY <2>2
    <3> QED BY <2>1, <2>4, <2>5, <3>1, <3>2
  <2>8. IsUp(g)
    BY <2>7
  <2> QED BY <2>8
<1>2. PICK h : h = CHOOSE g1 : IsUp(g1)
  OBVIOUS
<1>3. IsUp(h)
  BY <1>1, <1>2
<1>4. UnionFind!Climb(c) = h[parent[c]]
  BY <1>2, UnionFindShares DEF UnionFind!Climb
<1>5. \A t \in AllSites : h[t] = IF Higher(t) THEN h[parent[t]] ELSE t
  BY <1>3
<1> HIDE DEF IsUp
<1> DEFINE Sound(t) == h[t] \in AllSites /\ Reaches(parent, t, h[t])
           Bad == {rk[t] : t \in {w \in AllSites : ~ Sound(w)}}
<1>6. Bad = {}
  <2> SUFFICES ASSUME Bad # {} PROVE FALSE
    OBVIOUS
  <2>1. PICK b \in Bad : \A a \in Bad : b <= a
    <3>1. Bad \in SUBSET Nat
      BY <1>0
    <3> HIDE DEF Bad
    <3> QED BY <3>1, LeastNat
  <2>2. PICK t \in AllSites : b = rk[t] /\ ~ Sound(t)
    BY <2>1
  <2>3. CASE ~ Higher(t)
    <3>1. h[t] = t
      BY <1>5, <2>3
    <3> QED BY <2>2, <3>1, ReachMore
  <2>4. CASE Higher(t)
    <3>1. parent[t] \in AllSites /\ rk[parent[t]] < rk[t] /\ h[t] = h[parent[t]]
      BY <1>0, <1>5, <2>4
    <3>2. rk[parent[t]] \notin Bad
      <4>1. ~ (b <= rk[parent[t]])
        BY <1>0, <2>2, <3>1
      <4> HIDE DEF Bad
      <4> QED BY <2>1, <4>1
    <3>3. Sound(parent[t])
      BY <3>1, <3>2
    <3>4. Reaches(parent, t, h[t])
      BY <1>0, <3>1, <3>3, ReachMore
    <3> QED BY <2>2, <3>1, <3>3, <3>4
  <2> QED BY <2>3, <2>4
<1>7. parent[c] \in AllSites /\ Sound(parent[c])
  BY <1>6
<1>8. Reaches(parent, c, h[parent[c]])
  BY <1>0, <1>7, ReachMore
<1> QED BY <1>4, <1>7, <1>8

\* The pending calls reach one another still when only what the last one
\* reaches was redirected.
LEMMA CallsKept ==
    ASSUME AnyTree, NEW rk, NEW B, Falls(parent, rk, B), calls \in Seq(AllSites),
           NEW n \in 1..Len(calls), NEW g,
           \A t \in AllSites : rk[calls[n]] < rk[t] => g[t] = parent[t]
    PROVE  \A i, j \in 1..n : i <= j => Reaches(g, calls[i], calls[j])
<1> SUFFICES ASSUME NEW i \in 1..n, NEW j \in 1..n, i <= j
             PROVE  Reaches(g, calls[i], calls[j])
  OBVIOUS
<1>0. B \in Nat /\ \A t \in AllSites : rk[t] \in 0..B
  BY DEF Falls
<1>1. /\ i \in 1..Len(calls) /\ j \in 1..Len(calls) /\ j <= n
      /\ calls[i] \in AllSites /\ calls[j] \in AllSites /\ calls[n] \in AllSites
  OBVIOUS
<1>2. Reaches(parent, calls[i], calls[j]) /\ Reaches(parent, calls[j], calls[n])
  BY <1>1 DEF AnyTree
<1>3. rk[calls[n]] <= rk[calls[j]]
  BY <1>1, <1>2, ReachFacts
<1>4. \A t \in AllSites : rk[calls[j]] < rk[t] => g[t] = parent[t]
  BY <1>0, <1>1, <1>3
<1> QED BY <1>1, <1>2, <1>4, ReachKept

\* The second loop goes on.
LEMMA TreeGoesOn ==
    ASSUME AnyTypes, UNCHANGED <<f, m, s_f, s_m, p_f, p_m, ext, nth, zpar>>,
           pc' \in {"canonize", "update", "return"}, pos' \in 1..(N + 1), s' \in Seq(AllSites),
           deja_vu' \in [AllSites -> BOOLEAN], calls' \in Seq(AllSites),
           parent' \in [AllSites -> AllSites], NEW rk, NEW B, Falls(parent', rk, B),
           \A i, j \in 1..Len(calls') : i <= j => Reaches(parent', calls'[i], calls'[j]),
           IF pc' = "canonize" THEN calls' = <<>> ELSE Len(calls') >= 1 /\ pos' <= N
    PROVE  AnyInv'
<1>1. AnyTypes'
  BY DEF AnyTypes, Ordered
<1>2. AnyTree'
  BY DEF AnyTree
<1> QED BY <1>1, <1>2 DEF AnyInv

\* In the second loop.
LEMMA TreeFacts ==
    ASSUME AnyInv, pc \in {"canonize", "update", "return"}
    PROVE  /\ AnyTypes /\ AnyTree /\ parent \in [AllSites -> AllSites]
           /\ \E B, rk : /\ Falls(parent, rk, B) /\ B \in Nat /\ rk \in [AllSites -> 0..B]
                         /\ \A t \in AllSites : parent[t] # t => rk[parent[t]] < rk[t]
           /\ s \in Seq(AllSites) /\ deja_vu \in [AllSites -> BOOLEAN] /\ pos \in 1..(N + 1)
           /\ calls \in Seq(AllSites) /\ Len(calls) \in Nat
           /\ \A i \in 1..Len(calls) : calls[i] \in AllSites
           /\ \A i, j \in 1..Len(calls) : i <= j => Reaches(parent, calls[i], calls[j])
           /\ \A i \in 1..N : s_f[i] \in Site /\ s_f[i] \in AllSites
           /\ IF pc = "canonize" THEN calls = <<>> ELSE Len(calls) >= 1 /\ pos <= N
<1>1. AnyTypes /\ AnyTree
  BY DEF AnyInv
<1>2. PICK B, rk : Falls(parent, rk, B)
  BY <1>1 DEF AnyTree
<1>3. /\ B \in Nat /\ rk \in [AllSites -> 0..B]
      /\ \A t \in AllSites : parent[t] # t => rk[parent[t]] < rk[t]
  BY <1>1, <1>2, SiteFacts DEF Falls, AnyTree
<1>4. \A i \in 1..N : s_f[i] \in Site /\ s_f[i] \in AllSites
  BY <1>1, SiteFacts DEF AnyTypes, Ordered
<1>5. /\ s \in Seq(AllSites) /\ deja_vu \in [AllSites -> BOOLEAN] /\ pos \in 1..(N + 1)
      /\ calls \in Seq(AllSites)
  BY <1>1 DEF AnyTypes
<1>6. Len(calls) \in Nat /\ \A i \in 1..Len(calls) : calls[i] \in AllSites
  BY <1>5
<1> QED BY <1>1, <1>2, <1>3, <1>4, <1>5, <1>6 DEF AnyTree

LEMMA CanonizeStep == ASSUME AnyInv, UnionFind!Canonize PROVE AnyInv'
<1>1. PICK t : t = s_f[pos]
  OBVIOUS
<1>2. /\ pc = "canonize" /\ pos <= N /\ s' = Append(s, t) /\ pos' = pos + 1
      /\ parent' \in {[parent EXCEPT ![t] = parent[parent[t]]], parent}
      /\ UNCHANGED <<f, m, s_f, s_m, p_f, p_m, ext, nth, zpar, pc, deja_vu, calls>>
  BY <1>1, UnionFindShares DEF UnionFind!Canonize, UnionFind!inputs, UnionFind!scan
<1>3. /\ AnyTypes /\ AnyTree /\ parent \in [AllSites -> AllSites]
      /\ s \in Seq(AllSites) /\ deja_vu \in [AllSites -> BOOLEAN] /\ pos \in 1..(N + 1)
      /\ calls = <<>> /\ calls \in Seq(AllSites)
      /\ \A i \in 1..N : s_f[i] \in Site /\ s_f[i] \in AllSites
  BY <1>2, TreeFacts
<1>4. PICK B, rk : /\ Falls(parent, rk, B) /\ B \in Nat /\ rk \in [AllSites -> 0..B]
                   /\ \A u \in AllSites : parent[u] # u => rk[parent[u]] < rk[u]
  BY <1>2, TreeFacts
<1>5. t \in AllSites /\ pos' \in 1..(N + 1)
  BY <1>1, <1>2, <1>3, SiteFacts
<1>6. PICK g : g = [parent EXCEPT ![t] = parent[parent[t]]]
  OBVIOUS
<1>7. /\ g \in [AllSites -> AllSites]
      /\ \A u \in AllSites : g[u] = IF u = t THEN parent[parent[t]] ELSE parent[u]
  BY <1>3, <1>5, <1>6
<1>8. ASSUME NEW u \in AllSites, g[u] # u PROVE rk[g[u]] < rk[u]
  <2>1. CASE u # t
    BY <1>4, <1>7, <1>8, <2>1
  <2>2. CASE u = t
    <3>1. parent[t] # t /\ parent[t] \in AllSites /\ parent[parent[t]] \in AllSites
      BY <1>3, <1>5, <1>7, <1>8, <2>2
    <3>2. rk[parent[t]] < rk[t] /\ (parent[parent[t]] = parent[t] \/ rk[parent[parent[t]]] < rk[parent[t]])
      BY <1>4, <1>5, <3>1
    <3>3. rk[t] \in Int /\ rk[parent[t]] \in Int /\ rk[parent[parent[t]]] \in Int
      BY <1>4, <1>5, <3>1
    <3> QED BY <1>7, <2>2, <3>2, <3>3
  <2> QED BY <2>1, <2>2
<1>9. Falls(g, rk, B)
  BY <1>4, <1>7, <1>8 DEF Falls
<1>10. parent' \in [AllSites -> AllSites] /\ Falls(parent', rk, B)
  BY <1>2, <1>3, <1>4, <1>6, <1>7, <1>9
<1>11. s' \in Seq(AllSites)
  BY <1>2, <1>3, <1>5
<1>12. /\ pc' = "canonize" /\ calls' = <<>> /\ calls' \in Seq(AllSites)
       /\ deja_vu' \in [AllSites -> BOOLEAN]
       /\ \A i, j \in 1..Len(calls') : i <= j => Reaches(parent', calls'[i], calls'[j])
  BY <1>2, <1>3
<1> QED BY <1>2, <1>3, <1>5, <1>10, <1>11, <1>12, TreeGoesOn

LEMMA UpdateCallStep == ASSUME AnyInv, UnionFind!UpdateCall PROVE AnyInv'
<1>1. PICK t : t = s_f[pos]
  OBVIOUS
<1>2. /\ pc = "canonize" /\ pos <= N /\ calls' = <<t>> /\ pc' = "update"
      /\ UNCHANGED <<f, m, s_f, s_m, p_f, p_m, ext, nth, zpar, parent, s, deja_vu, pos>>
  BY <1>1 DEF UnionFind!UpdateCall, UnionFind!inputs, UnionFind!scan
<1>3. /\ AnyTypes /\ parent \in [AllSites -> AllSites]
      /\ s \in Seq(AllSites) /\ deja_vu \in [AllSites -> BOOLEAN] /\ pos \in 1..(N + 1)
      /\ \A i \in 1..N : s_f[i] \in Site /\ s_f[i] \in AllSites
  BY <1>2, TreeFacts
<1>4. PICK B, rk : Falls(parent, rk, B)
  BY <1>2, TreeFacts
<1>5. t \in AllSites /\ pos \in 1..N
  BY <1>1, <1>2, <1>3, SiteFacts
<1>6. /\ calls' \in Seq(AllSites) /\ Len(calls') = 1 /\ calls'[1] = t
      /\ Reaches(parent, t, t)
  BY <1>2, <1>5, ReachMore
<1>7. \A i, j \in 1..Len(calls') : i <= j => Reaches(parent', calls'[i], calls'[j])
  <2>1. \A i \in 1..Len(calls') : i = 1
    BY <1>6
  <2> QED BY <1>2, <1>6, <2>1
<1>8. /\ pc' = "update" /\ pos' \in 1..(N + 1) /\ pos' <= N /\ s' \in Seq(AllSites)
      /\ deja_vu' \in [AllSites -> BOOLEAN] /\ parent' \in [AllSites -> AllSites]
      /\ Falls(parent', rk, B) /\ Len(calls') >= 1
  BY <1>2, <1>3, <1>4, <1>6
<1> QED BY <1>2, <1>3, <1>6, <1>7, <1>8, TreeGoesOn

\* The innermost call and the top of its climb.
LEMMA UpdateFacts ==
    ASSUME AnyInv, pc = "update"
    PROVE  \E B, rk, c, t :
             /\ c = Last(calls) /\ c = calls[Len(calls)] /\ Len(calls) \in 1..Len(calls)
             /\ t = UnionFind!Climb(c) /\ c \in AllSites /\ t \in AllSites
             /\ Reaches(parent, c, t)
             /\ Falls(parent, rk, B) /\ B \in Nat /\ rk \in [AllSites -> 0..B]
             /\ \A u \in AllSites : parent[u] # u => rk[parent[u]] < rk[u]
             /\ rk[t] <= rk[c]
<1>1. /\ AnyTypes /\ AnyTree /\ parent \in [AllSites -> AllSites]
      /\ calls \in Seq(AllSites) /\ Len(calls) \in Nat
      /\ \A i \in 1..Len(calls) : calls[i] \in AllSites
      /\ Len(calls) >= 1
  BY TreeFacts
<1>2. PICK B, rk : /\ Falls(parent, rk, B) /\ B \in Nat /\ rk \in [AllSites -> 0..B]
                   /\ \A u \in AllSites : parent[u] # u => rk[parent[u]] < rk[u]
  BY TreeFacts
<1>3. PICK c : c = calls[Len(calls)]
  OBVIOUS
<1>4. Len(calls) \in 1..Len(calls) /\ c \in AllSites /\ c = Last(calls)
  BY <1>1, <1>3 DEF Last
<1>5. PICK t : t = UnionFind!Climb(c)
  OBVIOUS
<1>6. t \in AllSites /\ Reaches(parent, c, t)
  BY <1>1, <1>2, <1>4, <1>5, ClimbFacts
<1>7. rk[t] <= rk[c]
  BY <1>2, <1>4, <1>6, ReachFacts
<1> QED BY <1>2, <1>3, <1>4, <1>5, <1>6, <1>7

\* update_m_parent returns.
LEMMA UpdateReturns ==
    ASSUME AnyInv, pc = "update", pc' = "return",
           UNCHANGED <<f, m, s_f, s_m, p_f, p_m, ext, nth, zpar, pos, calls>>,
           NEW B, NEW rk, Falls(parent, rk, B), NEW g \in [AllSites -> AllSites],
           parent' = g, Falls(g, rk, B),
           \A t \in AllSites : rk[calls[Len(calls)]] < rk[t] => g[t] = parent[t],
           s' = s \/ \E t \in AllSites : s' = Append(s, t), deja_vu' \in [AllSites -> BOOLEAN]
    PROVE  AnyInv'
<1>1. /\ AnyTypes /\ AnyTree /\ s \in Seq(AllSites) /\ pos \in 1..(N + 1)
      /\ calls \in Seq(AllSites) /\ Len(calls) \in Nat
      /\ Len(calls) >= 1 /\ pos <= N
  BY TreeFacts
<1>2. Len(calls) \in 1..Len(calls)
  BY <1>1
<1>3. \A i, j \in 1..Len(calls) : i <= j => Reaches(g, calls[i], calls[j])
  BY <1>1, <1>2, CallsKept
<1>4. s' \in Seq(AllSites)
  <2>1. \A t \in AllSites : Append(s, t) \in Seq(AllSites)
    BY <1>1, AppendProperties
  <2> QED BY Zenon, <1>1, <2>1
<1>5. AnyTypes'
  BY <1>1, <1>4 DEF AnyTypes, Ordered
<1>6. AnyTree'
  <2>1. parent' = g /\ calls' = calls /\ pos' = pos /\ pc' = "return"
    OBVIOUS
  <2>2. \A i, j \in 1..Len(calls') : i <= j => Reaches(parent', calls'[i], calls'[j])
    BY <1>3, <2>1
  <2>3. parent' \in [AllSites -> AllSites] /\ Falls(parent', rk, B)
    BY <2>1
  <2>4. IF pc' = "canonize" THEN calls' = <<>> ELSE Len(calls') >= 1 /\ pos' <= N
    BY <1>1, <2>1
  <2> QED BY <2>2, <2>3, <2>4 DEF AnyTree
<1> QED BY <1>5, <1>6 DEF AnyInv

LEMMA CollectedFacts ==
    ASSUME NEW t \in AllSites, UnionFind!Collected(t), deja_vu \in [AllSites -> BOOLEAN]
    PROVE  /\ s' = s \/ s' = Append(s, t)
           /\ deja_vu' \in [AllSites -> BOOLEAN]
BY DEF UnionFind!Collected

LEMMA UpdateAtRootStep == ASSUME AnyInv, UnionFind!UpdateAtRoot PROVE AnyInv'
<1>1. pc = "update"
  BY DEF UnionFind!UpdateAtRoot
<1>2. PICK B, rk, c, t :
        /\ c = Last(calls) /\ c = calls[Len(calls)] /\ Len(calls) \in 1..Len(calls)
        /\ t = UnionFind!Climb(c) /\ c \in AllSites /\ t \in AllSites
        /\ Reaches(parent, c, t)
        /\ Falls(parent, rk, B) /\ B \in Nat /\ rk \in [AllSites -> 0..B]
        /\ \A u \in AllSites : parent[u] # u => rk[parent[u]] < rk[u]
        /\ rk[t] <= rk[c]
  BY <1>1, UpdateFacts
<1>3. /\ UnionFind!Collected(t) /\ pc' = "return"
      /\ parent' = UnionFind!Redirected(parent, UnionFind!Path(parent, c, t), t)
      /\ UNCHANGED <<f, m, s_f, s_m, p_f, p_m, ext, nth, zpar, pos, calls>>
  BY <1>2, UnionFindShares DEF UnionFind!UpdateAtRoot, UnionFind!Return, UnionFind!inputs, UnionFind!scan
<1>4. parent \in [AllSites -> AllSites] /\ deja_vu \in [AllSites -> BOOLEAN]
  BY <1>1, TreeFacts
<1>5. /\ rk[t] <= rk[t] /\ Reaches(parent, c, t) /\ Falls(parent, rk, B)
      /\ c \in AllSites /\ t \in AllSites
  BY <1>2
<1>6. PICK g \in [AllSites -> AllSites] :
        /\ g = UnionFind!Redirected(parent, UnionFind!Path(parent, c, t), t)
        /\ Falls(g, rk, B)
        /\ \A u \in AllSites : rk[c] < rk[u] => g[u] = parent[u]
  BY <1>4, <1>5, RedirectedFacts
<1>7. /\ s' = s \/ \E u \in AllSites : s' = Append(s, u)
      /\ deja_vu' \in [AllSites -> BOOLEAN]
  BY <1>2, <1>3, <1>4, CollectedFacts
<1> QED BY <1>1, <1>2, <1>3, <1>6, <1>7, UpdateReturns

LEMMA UpdateAtDomainStep == ASSUME AnyInv, UnionFind!UpdateAtDomain PROVE AnyInv'
<1>1. pc = "update"
  BY DEF UnionFind!UpdateAtDomain
<1>2. PICK B, rk, c, t :
        /\ c = Last(calls) /\ c = calls[Len(calls)] /\ Len(calls) \in 1..Len(calls)
        /\ t = UnionFind!Climb(c) /\ c \in AllSites /\ t \in AllSites
        /\ Reaches(parent, c, t)
        /\ Falls(parent, rk, B) /\ B \in Nat /\ rk \in [AllSites -> 0..B]
        /\ \A u \in AllSites : parent[u] # u => rk[parent[u]] < rk[u]
        /\ rk[t] <= rk[c]
  BY <1>1, UpdateFacts
<1>3. PICK y : y = IF fext[parent[t]] = fext[parent[parent[t]]] THEN parent[parent[t]] ELSE parent[t]
  OBVIOUS
<1>4. PICK link : link = [parent EXCEPT ![t] = y]
  OBVIOUS
<1>5. \/ /\ UnionFind!Collected(t) /\ pc' = "return"
         /\ parent' = UnionFind!Redirected(link, UnionFind!Path(link, c, t), t)
         /\ UNCHANGED <<f, m, s_f, s_m, p_f, p_m, ext, nth, zpar, pos, calls>>
      \/ /\ UNCHANGED <<s, deja_vu>> /\ pc' = "return"
         /\ parent' = UnionFind!Redirected(link, UnionFind!Path(link, c, t), y)
         /\ UNCHANGED <<f, m, s_f, s_m, p_f, p_m, ext, nth, zpar, pos, calls>>
  BY <1>2, <1>3, <1>4, UnionFindShares
  DEF UnionFind!UpdateAtDomain, UnionFind!Return, UnionFind!inputs, UnionFind!scan
<1>6. parent \in [AllSites -> AllSites] /\ deja_vu \in [AllSites -> BOOLEAN]
  BY <1>1, TreeFacts
<1>7. y \in AllSites /\ (y = t \/ rk[y] < rk[t])
  <2>1. parent[t] \in AllSites /\ parent[parent[t]] \in AllSites
    BY <1>2, <1>6
  <2>2. /\ rk[t] \in Int /\ rk[parent[t]] \in Int /\ rk[parent[parent[t]]] \in Int
        /\ parent[t] = t \/ rk[parent[t]] < rk[t]
        /\ parent[parent[t]] = parent[t] \/ rk[parent[parent[t]]] < rk[parent[t]]
    BY <1>2, <2>1
  <2> QED BY <1>3, <2>1, <2>2
<1>8. /\ link \in [AllSites -> AllSites]
      /\ \A u \in AllSites : link[u] = IF u = t THEN y ELSE parent[u]
  BY <1>4, <1>6, <1>7
<1>9. Falls(link, rk, B)
  <2>1. link \in [AllSites -> AllSites \cup {Unset}]
    BY <1>8
  <2> QED BY <1>2, <1>7, <1>8, <2>1 DEF Falls
<1>10. Reaches(link, c, t)
  <2>1. \A u \in AllSites : rk[t] < rk[u] => link[u] = parent[u]
    BY <1>2, <1>8
  <2>2. c \in AllSites /\ t \in AllSites /\ Reaches(parent, c, t) /\ Falls(parent, rk, B)
    BY <1>2
  <2> QED BY <2>1, <2>2, ReachKept
<1>11. c \in AllSites /\ t \in AllSites /\ rk[t] <= rk[t] /\ rk[y] <= rk[t]
  BY <1>2, <1>7
<1>12. PICK w \in {t, y} : parent' = UnionFind!Redirected(link, UnionFind!Path(link, c, t), w)
  BY <1>5
<1>13. w \in AllSites /\ rk[w] <= rk[t]
  BY <1>7, <1>11, <1>12
<1>14. PICK g \in [AllSites -> AllSites] :
        /\ g = UnionFind!Redirected(link, UnionFind!Path(link, c, t), w)
        /\ Falls(g, rk, B)
        /\ \A u \in AllSites : rk[c] < rk[u] => g[u] = link[u]
  BY <1>8, <1>9, <1>10, <1>11, <1>13, RedirectedFacts
<1>15. \A u \in AllSites : rk[c] < rk[u] => g[u] = parent[u]
  BY <1>2, <1>8, <1>14
<1>16. /\ s' = s \/ \E u \in AllSites : s' = Append(s, u)
       /\ deja_vu' \in [AllSites -> BOOLEAN]
  BY <1>2, <1>5, <1>6, CollectedFacts
<1>17. /\ pc' = "return" /\ parent' = g /\ Falls(parent, rk, B) /\ c = calls[Len(calls)]
       /\ UNCHANGED <<f, m, s_f, s_m, p_f, p_m, ext, nth, zpar, pos, calls>>
  BY <1>2, <1>5, <1>12, <1>14
<1> QED BY <1>1, <1>14, <1>15, <1>16, <1>17, UpdateReturns

LEMMA UpdateRecursionStep == ASSUME AnyInv, UnionFind!UpdateRecursion PROVE AnyInv'
<1>1. pc = "update"
  BY DEF UnionFind!UpdateRecursion
<1>2. PICK B, rk, c, t :
        /\ c = Last(calls) /\ c = calls[Len(calls)] /\ Len(calls) \in 1..Len(calls)
        /\ t = UnionFind!Climb(c) /\ c \in AllSites /\ t \in AllSites
        /\ Reaches(parent, c, t)
        /\ Falls(parent, rk, B) /\ B \in Nat /\ rk \in [AllSites -> 0..B]
        /\ \A u \in AllSites : parent[u] # u => rk[parent[u]] < rk[u]
        /\ rk[t] <= rk[c]
  BY <1>1, UpdateFacts
<1>3. /\ calls' = Append(calls, t)
      /\ UNCHANGED <<f, m, s_f, s_m, p_f, p_m, ext, nth, zpar, pos, pc, s, parent, deja_vu>>
  BY <1>2, UnionFindShares DEF UnionFind!UpdateRecursion, UnionFind!inputs, UnionFind!scan
<1>4. /\ AnyTypes /\ parent \in [AllSites -> AllSites]
      /\ s \in Seq(AllSites) /\ deja_vu \in [AllSites -> BOOLEAN] /\ pos \in 1..(N + 1)
      /\ calls \in Seq(AllSites) /\ Len(calls) \in Nat
      /\ \A i \in 1..Len(calls) : calls[i] \in AllSites
      /\ \A i, j \in 1..Len(calls) : i <= j => Reaches(parent, calls[i], calls[j])
      /\ Len(calls) >= 1 /\ pos <= N
  BY <1>1, TreeFacts
<1>5. PICK n \in Nat : n = Len(calls)
  BY <1>4
<1>6. PICK k : k = Append(calls, t)
  OBVIOUS
<1>7. /\ k \in Seq(AllSites) /\ Len(k) = n + 1 /\ k[n + 1] = t
      /\ \A i \in 1..n : k[i] = calls[i]
  BY <1>2, <1>4, <1>5, <1>6
<1>8. ASSUME NEW i \in 1..(n + 1), NEW j \in 1..(n + 1), i <= j
      PROVE  Reaches(parent, k[i], k[j])
  <2>1. CASE j \in 1..n
    <3>1. i \in 1..n
      BY <1>8, <2>1
    <3> QED BY <1>4, <1>5, <1>7, <1>8, <2>1, <3>1
  <2>2. CASE j = n + 1 /\ i \in 1..n
    <3>1. /\ Reaches(parent, calls[i], calls[n]) /\ calls[n] = c /\ calls[i] \in AllSites
      BY <1>2, <1>4, <1>5, <2>2
    <3>2. Reaches(parent, calls[i], c) /\ Reaches(parent, c, t) /\ c \in AllSites /\ t \in AllSites
      BY <1>2, <3>1
    <3>3. Reaches(parent, calls[i], t)
      BY <3>1, <3>2, ReachMore
    <3> QED BY <1>7, <2>2, <3>3
  <2>3. CASE j = n + 1 /\ i = n + 1
    <3>1. Reaches(parent, t, t)
      BY <1>2, ReachMore
    <3> QED BY <1>7, <2>3, <3>1
  <2> QED BY <2>1, <2>2, <2>3
<1>9. /\ calls' = k /\ k \in Seq(AllSites) /\ Len(k) >= 1
      /\ \A i, j \in 1..Len(k) : i <= j => Reaches(parent, k[i], k[j])
  BY <1>3, <1>6, <1>7, <1>8
<1>10. Falls(parent', rk, B)
  BY <1>2, <1>3
<1> QED BY <1>1, <1>3, <1>4, <1>9, <1>10, TreeGoesOn

LEMMA UpdateReturnStep == ASSUME AnyInv, UnionFind!UpdateReturn PROVE AnyInv'
<1>1. PICK n, t, c : n = Len(calls) - 1 /\ t = Last(calls) /\ c = calls[Len(calls) - 1]
  OBVIOUS
<1>2. /\ pc = "return" /\ Len(calls) > 1 /\ UnionFind!Collected(t) /\ calls' = Front(calls)
      /\ parent' = UnionFind!Redirected(parent, UnionFind!Path(parent, c, t), t)
      /\ UNCHANGED <<f, m, s_f, s_m, p_f, p_m, ext, nth, zpar, pos, pc>>
  BY <1>1, UnionFindShares DEF UnionFind!UpdateReturn, UnionFind!inputs, UnionFind!scan
<1>3. /\ AnyTypes /\ AnyTree /\ parent \in [AllSites -> AllSites]
      /\ s \in Seq(AllSites) /\ deja_vu \in [AllSites -> BOOLEAN] /\ pos \in 1..(N + 1)
      /\ calls \in Seq(AllSites) /\ Len(calls) \in Nat
      /\ \A i \in 1..Len(calls) : calls[i] \in AllSites
      /\ \A i, j \in 1..Len(calls) : i <= j => Reaches(parent, calls[i], calls[j])
      /\ pos <= N
  BY <1>2, TreeFacts
<1>4. PICK B, rk : Falls(parent, rk, B) /\ B \in Nat /\ rk \in [AllSites -> 0..B]
  BY <1>2, TreeFacts
<1>5. /\ n \in Nat /\ n \in 1..Len(calls) /\ n + 1 \in 1..Len(calls) /\ n <= n + 1
      /\ t = calls[n + 1] /\ c = calls[n]
  BY <1>1, <1>2, <1>3 DEF Last
<1>6. /\ c \in AllSites /\ t \in AllSites /\ Reaches(parent, c, t) /\ rk[t] <= rk[t]
      /\ parent \in [AllSites -> AllSites] /\ Falls(parent, rk, B)
      /\ deja_vu \in [AllSites -> BOOLEAN] /\ s \in Seq(AllSites)
  BY <1>3, <1>4, <1>5
<1>7. PICK g \in [AllSites -> AllSites] :
        /\ g = UnionFind!Redirected(parent, UnionFind!Path(parent, c, t), t)
        /\ Falls(g, rk, B)
        /\ \A u \in AllSites : rk[c] < rk[u] => g[u] = parent[u]
  BY <1>6, RedirectedFacts
<1>8. \A i, j \in 1..n : i <= j => Reaches(g, calls[i], calls[j])
  BY <1>3, <1>4, <1>5, <1>7, CallsKept
<1>9. PICK k : k = Front(calls)
  OBVIOUS
<1>10. k \in Seq(AllSites) /\ Len(k) = n /\ \A i \in 1..n : k[i] = calls[i]
  <2>1. k = SubSeq(calls, 1, n)
    BY <1>1, <1>9 DEF Front
  <2> QED BY <1>3, <1>5, <2>1
<1>11. /\ calls' = k /\ parent' = g /\ Len(k) >= 1
       /\ \A i, j \in 1..Len(k) : i <= j => Reaches(g, k[i], k[j])
  BY <1>2, <1>5, <1>7, <1>8, <1>9, <1>10
<1>12. s' \in Seq(AllSites) /\ deja_vu' \in [AllSites -> BOOLEAN]
  <2>1. s' = s \/ s' = Append(s, t)
    BY <1>2, <1>6, CollectedFacts
  <2>2. deja_vu' \in [AllSites -> BOOLEAN]
    BY <1>2, <1>6, CollectedFacts
  <2> QED BY <1>6, <2>1, <2>2
<1> QED BY <1>2, <1>3, <1>7, <1>10, <1>11, <1>12, TreeGoesOn

LEMMA UpdateDoneStep == ASSUME AnyInv, UnionFind!UpdateDone PROVE AnyInv'
<1>1. /\ pc = "return" /\ Len(calls) = 1 /\ s' = Append(s, Last(calls)) /\ pos' = pos + 1
      /\ calls' = <<>> /\ pc' = "canonize"
      /\ UNCHANGED <<f, m, s_f, s_m, p_f, p_m, ext, nth, zpar, parent, deja_vu>>
  BY UnionFindShares DEF UnionFind!UpdateDone, UnionFind!inputs, UnionFind!scan
<1>2. /\ AnyTypes /\ parent \in [AllSites -> AllSites]
      /\ s \in Seq(AllSites) /\ deja_vu \in [AllSites -> BOOLEAN] /\ pos \in 1..(N + 1)
      /\ \A i \in 1..Len(calls) : calls[i] \in AllSites
      /\ pos <= N
  BY <1>1, TreeFacts
<1>3. PICK B, rk : Falls(parent, rk, B)
  BY <1>1, TreeFacts
<1>4. Last(calls) \in AllSites
  BY <1>1, <1>2 DEF Last
<1>5. s' \in Seq(AllSites) /\ pos' \in 1..(N + 1)
  BY <1>1, <1>2, <1>4, SiteFacts
<1>6. calls' \in Seq(AllSites) /\ \A i, j \in 1..Len(calls') : FALSE
  BY <1>1
<1> QED BY <1>1, <1>2, <1>3, <1>5, <1>6, TreeGoesOn

LEMMA AnyStutter == AnyInv /\ UNCHANGED UnionFind!vars => AnyInv'
<1> SUFFICES ASSUME AnyInv, UNCHANGED UnionFind!vars PROVE AnyInv'
  OBVIOUS
<1>1. UNCHANGED <<f, m, s_f, s_m, p_f, p_m, ext, nth, zpar, parent, deja_vu, s, pc, pos, calls>>
  BY DEF UnionFind!vars, UnionFind!inputs, UnionFind!scan
<1>2. AnyTypes'
  BY <1>1 DEF AnyInv, AnyTypes, Ordered
<1>3. UnionFind!MaskIsNext' <=> UnionFind!MaskIsNext
  BY <1>1 DEF UnionFind!MaskIsNext
<1>4. AnyMerging => AnyMerging'
  BY <1>1, <1>3 DEF AnyMerging, SeenFrom, Current
<1>5. AnyTree => AnyTree'
  BY <1>1 DEF AnyTree
<1> QED BY <1>1, <1>2, <1>4, <1>5 DEF AnyInv

LEMMA AnyStep == AnyInv /\ [UnionFind!Next]_UnionFind!vars => AnyInv'
BY AnyStutter, JoinBelowStep, JoinAboveStep, MaskFirstStep, ImageFirstStep,
   AnySkipNeighbourStep, AnyJoinNeighbourStep, AnyNeighboursDone, MergedStep, CanonizeStep,
   UpdateCallStep, UpdateAtDomainStep, UpdateAtRootStep, UpdateRecursionStep,
   UpdateReturnStep, UpdateDoneStep DEF UnionFind!Next, UnionFind!Returned

\* Two made sites have one root when no set that the links keep separates them.
LEMMA RootsAgree ==
    ASSUME NEW a, NEW d, NEW e, NEW j, Holds(zpar, a, d, e, j),
           NEW t \in AllSites, NEW u \in AllSites, zpar[t] # Unset, zpar[u] # Unset
    PROVE  UnionFind!Root(t) = UnionFind!Root(u) <=>
             \A C \in SUBSET AllSites : Kept(zpar, C) => (t \in C <=> u \in C)
<1>0. Rooted(zpar) /\ Ranked(zpar, a, e) /\ zpar \in [AllSites -> AllSites \cup {Unset}]
  BY DEF Holds, Made
<1>1. PICK B, rk : Falls(zpar, rk, B)
  BY <1>0 DEF Ranked
<1>2. \A w \in AllSites : zpar[w] # Unset =>
        /\ UnionFind!Root(w) \in AllSites /\ Reaches(zpar, w, UnionFind!Root(w))
        /\ UnionFind!Root(w) = UnionFind!Root(zpar[w])
        /\ zpar[w] \in AllSites /\ zpar[zpar[w]] # Unset
  BY <1>0, <1>1, RootFacts DEF Rooted
<1>3. ASSUME UnionFind!Root(t) = UnionFind!Root(u), NEW C \in SUBSET AllSites, Kept(zpar, C)
      PROVE  t \in C <=> u \in C
  <2>1. PICK r \in AllSites : r = UnionFind!Root(t) /\ Reaches(zpar, t, r) /\ Reaches(zpar, u, r)
    BY <1>2, <1>3
  <2>2. t \in C <=> r \in C
    BY <1>1, <1>3, <2>1, ReachFacts
  <2>3. u \in C <=> r \in C
    BY <1>1, <1>3, <2>1, ReachFacts
  <2> QED BY <2>2, <2>3
<1>4. ASSUME \A C \in SUBSET AllSites : Kept(zpar, C) => (t \in C <=> u \in C)
      PROVE  UnionFind!Root(t) = UnionFind!Root(u)
  <2>1. PICK C \in SUBSET AllSites :
          C = {w \in AllSites : zpar[w] # Unset /\ UnionFind!Root(w) = UnionFind!Root(t)}
    OBVIOUS
  <2>2. Kept(zpar, C)
    BY <1>2, <2>1 DEF Kept
  <2>3. t \in C
    BY <2>1
  <2>4. u \in C
    BY <1>4, <2>2, <2>3
  <2> QED BY <2>1, <2>4
<1> QED BY <1>3, <1>4

LEMMA AnyMergesTheMask == ASSUME AnyInv PROVE UnionFind!MergesTheMask
<1> SUFFICES ASSUME pc = "merge" PROVE UnionFind!MergesTheMask
  BY DEF UnionFind!MergesTheMask
<1>0. Holds(zpar, parent, deja_vu, Unset, nth)
  BY DEF AnyInv, AnyMerging, Current
<1>1. /\ Made(zpar, deja_vu, Unset) /\ Given(zpar, parent, deja_vu)
      /\ Parts(zpar, parent, deja_vu, Unset, nth)
  BY <1>0 DEF Holds
<1>2. PICK seen : seen = [t \in Site |-> deja_vu[Extend(t)]]
  OBVIOUS
<1>3. PICK browsed \in SUBSET Site : browsed = {t \in Site : seen[t]}
  OBVIOUS
<1>4. /\ deja_vu \in [AllSites -> BOOLEAN] /\ \A t \in Site : seen[t] = deja_vu[Extend(t)]
      /\ \A t \in Site : t \in browsed <=> deja_vu[Extend(t)]
      /\ \A t \in Site : t \in AllSites /\ Extend(t) \in AllSites /\ Extend(t) \in ExtSite
                         /\ Extend(t) - N = t /\ deja_vu[Extend(t)] \in BOOLEAN
      /\ \A t, u \in Site : t # Extend(u) /\ (Extend(t) = Extend(u) => t = u)
  BY <1>1, <1>2, <1>3, SiteFacts DEF Made
<1>5. \A t \in browsed : zpar[Extend(t)] # Unset
  BY <1>1, <1>4 DEF Made
<1>6. \A C \in SUBSET AllSites : /\ Kept(zpar, C) <=> Joined(C, zpar, deja_vu, Unset, nth)
                                 /\ Kept(zpar, C) => Kept(parent, C)
  BY <1>1 DEF Parts
<1>7. ASSUME NEW t \in browsed, NEW u \in browsed,
             UnionFind!Root(Extend(u)) = UnionFind!Root(Extend(t))
      PROVE  u \in FlatZone(seen, t)
  <2>1. \A C \in SUBSET AllSites : Kept(zpar, C) => (Extend(t) \in C <=> Extend(u) \in C)
    BY <1>0, <1>4, <1>5, <1>7, RootsAgree
  <2>2. ASSUME NEW C \in Closed(seen), t \in C PROVE u \in C
    <3>1. PICK E \in SUBSET AllSites : E = {w \in AllSites : w \in C \/ w - N \in C}
      OBVIOUS
    <3>2. C \subseteq Site
      BY DEF Closed, SiteSets
    <3>3. \A w \in Site : (w \in E <=> w \in C) /\ (Extend(w) \in E <=> w \in C)
      <4>1. \A w \in Site : w - N \notin C
        BY <3>2, SiteFacts
      <4>2. \A w \in Site : Extend(w) \notin C
        BY <1>4, <3>2
      <4> QED BY <1>4, <3>1, <4>1, <4>2
    <3>4. Joined(E, zpar, deja_vu, Unset, nth)
      <4>1. ASSUME NEW w \in Site, NEW v \in Neighbours[w], deja_vu[Extend(w)], deja_vu[Extend(v)]
            PROVE  Extend(w) \in E <=> Extend(v) \in E
        <5>1. v \in Site
          BY DEF Neighbours
        <5>2. seen[w] = seen[v]
          BY <1>4, <4>1, <5>1
        <5>3. w \in C <=> v \in C
          BY <5>2 DEF Closed
        <5> QED BY <3>3, <5>1, <5>3
      <4> QED BY <3>3, <4>1 DEF Joined
    <3>5. Extend(t) \in E <=> Extend(u) \in E
      BY <1>6, <2>1, <3>4
    <3> QED BY <2>2, <3>3, <3>5
  <2> QED BY <2>2 DEF FlatZone, ZoneIn
<1>8. ASSUME NEW t \in browsed, NEW u \in FlatZone(seen, t)
      PROVE  u \in browsed /\ UnionFind!Root(Extend(u)) = UnionFind!Root(Extend(t))
  <2>1. u \in Site /\ seen[u] = seen[t] /\ \A C \in Closed(seen) : t \in C <=> u \in C
    BY ZoneFacts
  <2>2. u \in browsed
    BY <1>4, <2>1
  <2>3. ASSUME NEW C \in SUBSET AllSites, Kept(zpar, C) PROVE Extend(u) \in C <=> Extend(t) \in C
    <3>1. Joined(C, zpar, deja_vu, Unset, nth)
      BY <1>6, <2>3
    <3>2. PICK E \in SUBSET Site : E = {w \in Site : deja_vu[Extend(w)] /\ Extend(w) \in C}
      OBVIOUS
    <3>3. ASSUME NEW w \in Site, NEW v \in Neighbours[w], seen[w] = seen[v]
          PROVE  w \in E <=> v \in E
      <4>1. v \in Site /\ (deja_vu[Extend(w)] <=> deja_vu[Extend(v)])
        BY <1>4, <3>3 DEF Neighbours
      <4> QED BY <3>1, <3>2, <4>1 DEF Joined
    <3>4. E \in Closed(seen)
      BY <3>3 DEF Closed, SiteSets
    <3> QED BY <1>4, <2>1, <2>2, <3>2, <3>4
  <2> QED BY <1>0, <1>4, <1>5, <2>2, <2>3, RootsAgree
<1>9. \A t \in browsed :
        {u \in browsed : UnionFind!Root(Extend(u)) = UnionFind!Root(Extend(t))} = FlatZone(seen, t)
  BY <1>7, <1>8
<1>10. ASSUME NEW t \in browsed, deja_vu[t]
       PROVE  /\ UnionFind!Root(t) = UnionFind!Root(Extend(t))
              /\ \A r \in {t, Extend(t)} :
                   parent[r] # Unset /\ UnionFind!Root(parent[r]) = UnionFind!Root(r)
  <2>1. zpar[t] # Unset /\ zpar[Extend(t)] # Unset
    BY <1>1, <1>4, <1>5, <1>10 DEF Made
  <2>2. \A C \in SUBSET AllSites : Kept(zpar, C) => (t \in C <=> Extend(t) \in C)
    BY <1>4, <1>6, <2>1 DEF Joined
  <2>3. UnionFind!Root(t) = UnionFind!Root(Extend(t))
    BY <1>0, <1>4, <2>1, <2>2, RootsAgree
  <2>4. ASSUME NEW r \in {t, Extend(t)}
        PROVE  parent[r] # Unset /\ UnionFind!Root(parent[r]) = UnionFind!Root(r)
    <3>1. r \in AllSites /\ zpar[r] # Unset
      BY <1>4, <2>1
    <3>2. parent[r] # Unset
      <4>1. ASSUME parent[r] = Unset PROVE FALSE
        <5>1. r \in ExtSite /\ ~ deja_vu[r - N]
          BY <1>1, <3>1, <4>1 DEF Given
        <5>2. r # t
          BY <5>1, SiteFacts
        <5> QED BY <1>4, <1>10, <5>1, <5>2
      <4> QED BY <4>1
    <3>3. parent[r] \in AllSites /\ zpar[parent[r]] # Unset /\ parent \in [AllSites -> AllSites \cup {Unset}]
      <4>1. parent[r] \in AllSites
        BY <1>1, <3>1, <3>2 DEF Given
      <4>2. PICK C \in SUBSET AllSites : C = {w \in AllSites : zpar[w] # Unset}
        OBVIOUS
      <4>3. Kept(zpar, C)
        BY <1>1, <4>2 DEF Kept, Made, Rooted
      <4>4. Kept(parent, C)
        BY <1>6, <4>3
      <4>5. parent[r] \in C
        BY <3>1, <3>2, <4>2, <4>4 DEF Kept
      <4> QED BY <1>1, <4>1, <4>2, <4>5 DEF Given
    <3>4. ASSUME NEW C \in SUBSET AllSites, Kept(zpar, C) PROVE parent[r] \in C <=> r \in C
      <4>1. Kept(parent, C)
        BY <1>6, <3>4
      <4> QED BY <3>1, <3>2, <4>1 DEF Kept
    <3> QED BY <1>0, <3>1, <3>2, <3>3, <3>4, RootsAgree
  <2> QED BY <2>3, <2>4
<1> QED BY <1>2, <1>3, <1>9, <1>10, UnionFindShares DEF UnionFind!MergesTheMask

-----------------------------------------------------------------------------
(* Whichever implementation was dispatched to.                               *)

DualInv ==
    /\ quant \in {"low", "any"}
    /\ IF Low THEN LowInv ELSE AnyInv

LEMMA DualStep == DualInv /\ [DispatchNext]_<<vars, quant, union_find_vars>> => DualInv'
<1> SUFFICES ASSUME DualInv, [DispatchNext]_<<vars, quant, union_find_vars>> PROVE DualInv'
  OBVIOUS
<1>1. CASE NextLow
  <2>1. Low /\ quant' = quant /\ Next
    BY <1>1 DEF NextLow, Low
  <2>2. LowInv'
    BY <2>1, LowStep DEF DualInv
  <2> QED BY <2>1, <2>2 DEF DualInv, Low
<1>2. CASE NextAny
  <2>1. ~ Low /\ quant' = quant /\ UnionFind!Next
    BY <1>2 DEF NextAny, Low
  <2>2. AnyInv'
    BY <2>1, AnyStep DEF DualInv
  <2> QED BY <2>1, <2>2 DEF DualInv, Low
<1>3. CASE UNCHANGED <<vars, quant, union_find_vars>>
  <2>1. /\ UNCHANGED vars /\ quant' = quant
        /\ UNCHANGED <<f, m, s_f, s_m, p_f, p_m, ext, nth, zpar, parent, deja_vu, s, pc, pos, calls>>
    BY <1>3 DEF vars, inputs, frame, union_find_vars
  <2>2. UNCHANGED UnionFind!vars
    BY <2>1 DEF UnionFind!vars, UnionFind!inputs, UnionFind!scan
  <2>3. (LowInv => LowInv') /\ (AnyInv => AnyInv')
    BY <2>1, <2>2, LowStutter, AnyStutter
  <2> QED BY <2>1, <2>3 DEF DualInv, Low
<1> QED BY <1>1, <1>2, <1>3 DEF DispatchNext

LEMMA DualInitially == DualInit => DualInv
BY LowInit, AnyInit DEF DualInit, DualInv, Low

LEMMA LowTypeOK == ASSUME LowInv PROVE TypeOK
<1>1. LowTypes
  BY DEF LowInv
<1>2. \A l \in Level : Range(hqueues[l]) \subseteq Site
  <2>1. ASSUME NEW l \in Level PROVE Range(hqueues[l]) \subseteq Site
    <3>1. hqueues[l] \in Seq(Site)
      BY <1>1 DEF LowTypes
    <3>2. \A i \in DOMAIN hqueues[l] : hqueues[l][i] \in Site
      BY <3>1
    <3> QED BY <3>2 DEF Range
  <2> QED BY <2>1
<1>3. Range(s) \subseteq AllSites
  <2>1. s \in Seq(AllSites)
    BY <1>1 DEF LowTypes
  <2>2. \A i \in DOMAIN s : s[i] \in AllSites
    BY <2>1
  <2> QED BY <2>2 DEF Range
<1> QED BY <1>1, <1>2, <1>3 DEF TypeOK, LowTypes

LEMMA AnyTypeOK == ASSUME AnyInv PROVE UnionFind!TypeOK
<1>1. AnyTypes
  BY DEF AnyInv
<1>2. Range(s) \subseteq AllSites /\ Range(calls) \subseteq AllSites
  <2>1. s \in Seq(AllSites) /\ calls \in Seq(AllSites)
    BY <1>1 DEF AnyTypes
  <2>2. /\ \A i \in DOMAIN s : s[i] \in AllSites
        /\ \A i \in DOMAIN calls : calls[i] \in AllSites
    BY <2>1
  <2> QED BY <2>2 DEF Range
<1>3. /\ IsInjective(s_f) /\ DOMAIN s_f = 1..N
      /\ IsInjective(s_m) /\ DOMAIN s_m = 1..N
  BY <1>1 DEF AnyTypes, Ordered, IsInjective
<1> QED BY <1>1, <1>2, <1>3, UnionFindShares DEF UnionFind!TypeOK, AnyTypes

LEMMA LowHighestFirst == ASSUME LowInv PROVE HighestLevelFirst
<1> SUFFICES ASSUME Flooding PROVE HighestLevelFirst
  BY DEF HighestLevelFirst
<1>1. LowTypes /\ LowQueues /\ LowCalls
  BY DEF LowInv
<1>2. Len(calls) \in Nat
  BY <1>1, CallTypes
<1>3. ASSUME NEW j \in 1..Len(calls)
      PROVE  calls[j].h_idx < (IF j = Len(calls) THEN h_idx ELSE calls[j + 1].h_idx)
  <2>1. CASE j = Len(calls)
    BY <1>1, <2>1 DEF LowCalls
  <2>2. CASE j # Len(calls)
    <3>1. j + 1 \in 1..Len(calls) /\ j < j + 1
      BY <1>2, <2>2
    <3> QED BY <1>1, <2>2, <3>1 DEF LowCalls
  <2> QED BY <2>1, <2>2
<1>4. ASSUME pc \in {"flood", "neighbours"}, NEW l \in Level, l > h_idx PROVE hqueues[l] = <<>>
  BY <1>1, <1>4 DEF LowQueues, LowCalls
<1> QED BY <1>1, <1>3, <1>4 DEF HighestLevelFirst, LowQueues

\* From every pair of images, the variables of the dual input trees stay in
\* their types: every index is in its array, every site that dual_hqueue and
\* dual_union_find link, queue or collect is of the extended domain.
THEOREM DualTreesFitTypes == DualSpec => []DispatchTypeOK
<1>1. DualInv => DispatchTypeOK
  BY LowTypeOK, AnyTypeOK DEF DualInv, DispatchTypeOK
<1> QED BY <1>1, DualInitially, DualStep, PTL DEF DualSpec

\* dual_hqueue floods the levels of the mask from the highest down, one node to
\* a level; and between two sites of the first loop of dual_union_find, the
\* union-find holds the connected components of what was browsed of the mask,
\* to which the uncompressed parents keep too.
THEOREM DualTreesFollowLevels == DualSpec => []DispatchFollowsLevels
<1>1. DualInv => DispatchFollowsLevels
  BY LowHighestFirst, AnyMergesTheMask DEF DualInv, DispatchFollowsLevels
<1> QED BY <1>1, DualInitially, DualStep, PTL DEF DualSpec
=============================================================================
