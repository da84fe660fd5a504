----------------------------- MODULE DualHqueue -----------------------------
(***************************************************************************)
(* dual_hqueue, in milena/mln/morpho/tree/impl/dual_hqueue.hh: the dual     *)
(* input tree of images of low quantization.                                *)
(*                                                                         *)
(* flood(h) empties the queue of level h of the mask.  As soon as it meets  *)
(* a neighbour of a higher level it calls itself there, and goes on when    *)
(* the call comes back to its level; it ends by linking its node to the one *)
(* of the level below.  A second loop browses the sites of f forward,       *)
(* redirects the parents and collects the nodes of the extension.           *)
(*                                                                         *)
(* A value and its index in the value set are the same here: the lowest     *)
(* value of the type is 0.                                                  *)
(***************************************************************************)
EXTENDS DualInput

CONSTANT MaxValue      \* the greatest value of the type

ASSUME LevelsAssumption == MaxValue \in Nat /\ Value \subseteq 0..MaxValue

\* The flood starts from one seed: the domain is in one piece.
ASSUME DomainAssumption == IsConnected(Site)

Level == 0..MaxValue

VARIABLES
    s_f,               \* input: f's sites, by increasing values
    pc,                \* which statement comes next
    hqueues,           \* one queue of sites for each level
    is_node_at_level, node_at_level,
    deja_vu,           \* what was pushed, then what was appended to s
    h_idx, p, nth, mn, \* the current flood: its level, the site popped, how
                       \* many of its neighbours were browsed, the level of
                       \* the last one pushed
    calls,             \* the floods that wait for it, the innermost last
    pos,               \* index in s_f of the forward iterator
    x                  \* the second loop: the last site collected above s_f[pos]

inputs == <<f, m, s_f>>
frame == <<h_idx, p, nth, mn>>
nodes == <<is_node_at_level, node_at_level>>
vars == <<inputs, parent, s, pc, hqueues, nodes, deja_vu, frame, calls, pos, x>>

-----------------------------------------------------------------------------
(* The seed: the first site of the least value of the mask.                 *)

hmin == Min({m[q] : q \in Site})
pmin == CHOOSE q \in Site : m[q] = hmin /\ \A r \in 1..(q - 1) : m[r] # hmin

\* The representative of q at the level of the mask: itself when it is there.
NodeOf(q) == IF f[q] = m[q] THEN q ELSE Extend(q)

Start ==
    /\ pc = "flood"
    /\ hqueues = [l \in Level |-> IF l = hmin THEN <<pmin>> ELSE <<>>]
    /\ is_node_at_level = [l \in Level |-> l = hmin]
    /\ node_at_level = [l \in Level |-> IF l = hmin THEN NodeOf(pmin) ELSE Unset]
    /\ deja_vu = [q \in AllSites |-> q = pmin]
    /\ h_idx = hmin
    /\ p = Unset
    /\ nth = 0
    /\ mn = hmin
    /\ calls = <<>>
    /\ parent = [q \in AllSites |-> Unset]
    /\ s = <<>>
    /\ pos = 1
    /\ x = Unset

Init ==
    /\ f \in [Site -> Value]
    /\ m \in [Site -> Value]
    /\ s_f \in [1..N -> Site]
    /\ IsInjective(s_f)
    /\ \A j, k \in 1..N : j < k => f[s_f[j]] <= f[s_f[k]]
    /\ Start

-----------------------------------------------------------------------------
(* The flood.                                                               *)

front == Head(hqueues[h_idx])

Pop ==
    /\ pc = "flood"
    /\ hqueues[h_idx] # <<>>
    /\ p' = front
    /\ hqueues' = [hqueues EXCEPT ![h_idx] = Tail(@)]
    /\ nth' = 0
    /\ pc' = "neighbours"
    /\ UNCHANGED <<inputs, s, deja_vu, h_idx, mn, calls, pos, x>>

\* The parent image once p, not above the level h of the flood, is given the
\* node of its own level, node; p represents that level in its turn when the
\* node is of the extension or comes after p.
Represents(q, node) == node \notin Site \/ q < node

AtOrBelow(q, node, link) ==
    IF Represents(q, node)
      THEN /\ parent' = [link EXCEPT ![node] = q, ![q] = q]
           /\ node_at_level' = [node_at_level EXCEPT ![f[q]] = q]
      ELSE /\ parent' = [link EXCEPT ![q] = node]
           /\ node_at_level' = [node_at_level EXCEPT ![f[q]] = node]

\* The image has the level of the mask.
PopRegular ==
    /\ Pop
    /\ f[front] = h_idx
    /\ AtOrBelow(front, node_at_level[h_idx], parent)
    /\ UNCHANGED is_node_at_level

\* Singleton with parent at h_idx.
PopAbove ==
    /\ Pop
    /\ f[front] > h_idx
    /\ parent' = [parent EXCEPT ![Extend(front)] = node_at_level[h_idx],
                                ![front] = node_at_level[h_idx]]
    /\ UNCHANGED nodes

\* The site is of a lower level than its copy.
PopBelow ==
    /\ Pop
    /\ f[front] < h_idx
    /\ is_node_at_level' = [is_node_at_level EXCEPT ![f[front]] = TRUE]
    /\ AtOrBelow(front, IF is_node_at_level[f[front]] THEN node_at_level[f[front]] ELSE front,
                 [parent EXCEPT ![Extend(front)] = node_at_level[h_idx]])

Neighbour == Nbh[p][nth + 1]
HasNeighbour == pc = "neighbours" /\ nth < Len(Nbh[p])
Unseen(n) == n # Outside /\ ~ deja_vu[n]

SkipNeighbour ==
    /\ HasNeighbour
    /\ ~ Unseen(Neighbour)
    /\ nth' = nth + 1
    /\ UNCHANGED <<inputs, parent, s, pc, hqueues, nodes, deja_vu, h_idx, p, mn,
                   calls, pos, x>>

PushNeighbour ==
    /\ HasNeighbour
    /\ Unseen(Neighbour)
    /\ hqueues' = [hqueues EXCEPT ![m[Neighbour]] = Append(@, Neighbour)]
    /\ deja_vu' = [deja_vu EXCEPT ![Neighbour] = TRUE]
    /\ is_node_at_level' = [is_node_at_level EXCEPT ![m[Neighbour]] = TRUE]
    /\ node_at_level' =
         [node_at_level EXCEPT ![m[Neighbour]] =
            IF is_node_at_level[m[Neighbour]] THEN @ ELSE NodeOf(Neighbour)]
    /\ mn' = m[Neighbour]
    /\ nth' = nth + 1
    /\ pc' = "pushed"
    /\ UNCHANGED <<inputs, parent, s, h_idx, p, calls, pos, x>>

\* while (mn > h_idx) mn = flood(mn)
Call ==
    /\ pc = "pushed"
    /\ mn > h_idx
    /\ calls' = Append(calls, [h_idx |-> h_idx, p |-> p, nth |-> nth])
    /\ h_idx' = mn
    /\ pc' = "flood"
    /\ UNCHANGED <<inputs, parent, s, hqueues, nodes, deja_vu, p, nth, mn, pos, x>>

\* Mutant: the flood above may wait.
NoCallAbove ==
    /\ pc = "pushed"
    /\ pc' = "neighbours"
    /\ UNCHANGED <<inputs, parent, s, hqueues, nodes, deja_vu, frame, calls, pos, x>>

NoCall ==
    /\ pc = "pushed"
    /\ mn <= h_idx
    /\ pc' = "neighbours"
    /\ UNCHANGED <<inputs, parent, s, hqueues, nodes, deja_vu, frame, calls, pos, x>>

NeighboursDone ==
    /\ pc = "neighbours"
    /\ nth = Len(Nbh[p])
    /\ pc' = "flood"
    /\ UNCHANGED <<inputs, parent, s, hqueues, nodes, deja_vu, frame, calls, pos, x>>

\* Mutant: the search goes one step too far down.
DadTooFar == LET under == {l \in 1..(h_idx - 1) : is_node_at_level[l]}
             IN IF under = {} THEN -1 ELSE Max(under)

\* Retrieve dad: the level below that has a node, the lowest one for want of
\* any; but the node of the lowest level is nobody's dad.
Dad == LET under == {l \in 1..(h_idx - 1) : is_node_at_level[l]}
       IN IF under = {} THEN 0 ELSE Max(under)

Attach ==
    /\ pc = "flood"
    /\ hqueues[h_idx] = <<>>
    /\ is_node_at_level' = [is_node_at_level EXCEPT ![h_idx] = FALSE]
    /\ LET node == node_at_level[h_idx] IN
         parent' = [parent EXCEPT ![node] = IF Dad > 0 THEN node_at_level[Dad] ELSE node]
    /\ mn' = Dad
    /\ IF calls = <<>>
         THEN /\ pc' = "root"
              /\ UNCHANGED <<h_idx, p, nth, calls>>
         ELSE /\ pc' = "pushed"
              /\ h_idx' = Last(calls).h_idx
              /\ p' = Last(calls).p
              /\ nth' = Last(calls).nth
              /\ calls' = Front(calls)
    /\ UNCHANGED <<inputs, s, hqueues, node_at_level, deja_vu, pos, x>>

\* Mutant: the nodes down to hmin are all attached to the lowest one.
AttachToLowest ==
    /\ pc = "root"
    /\ LET under == {l \in 0..hmin : is_node_at_level[l]} \cup {hmin}
           linked == {node_at_level[l] : l \in under}
       IN parent' = [q \in AllSites |->
                       IF q \in linked THEN node_at_level[Min(under)] ELSE parent[q]]
    /\ deja_vu' = [q \in AllSites |-> FALSE]
    /\ pc' = "canonize"
    /\ x' = s_f[1]
    /\ UNCHANGED <<inputs, s, hqueues, nodes, frame, calls, pos>>

\* The nodes under hmin are attached, each to the next one below; the last is
\* its own parent.  The canonization has a deja_vu of its own.
AttachUnder ==
    /\ pc = "root"
    /\ LET under == {l \in 0..hmin : is_node_at_level[l]}
           Below(l) == Max({k \in under : k < l} \cup {-1})
           linked == {node_at_level[l] : l \in under \cup {hmin}}
       IN parent' =
            [q \in AllSites |->
               IF q \in linked
                 THEN LET l == Below(fext[q]) IN IF l = -1 THEN q ELSE node_at_level[l]
                 ELSE parent[q]]
    /\ deja_vu' = [q \in AllSites |-> FALSE]
    /\ pc' = "canonize"
    /\ x' = s_f[1]
    /\ UNCHANGED <<inputs, s, hqueues, nodes, frame, calls, pos>>

-----------------------------------------------------------------------------
(* Second loop.  q is the site of the code: the parent of x.                *)

q == parent[x]
Canonizing == pc = "canonize" /\ pos <= N

Collectable ==
    /\ q \in ExtSite
    /\ ~ deja_vu[q]
    /\ IsNode(q)

\* A node of the extension that was not met yet.
Collect ==
    /\ Canonizing
    /\ Collectable
    /\ s' = Append(s, q)
    /\ deja_vu' = [deja_vu EXCEPT ![q] = TRUE]
    /\ x' = q
    /\ UNCHANGED <<inputs, parent, pc, hqueues, nodes, frame, calls, pos>>

\* The last one gets a node as parent; then it is the turn of the next site.
Settle ==
    /\ Canonizing
    /\ ~ Collectable
    /\ LET up == IF q \in ExtSite /\ ~ IsNode(q) THEN parent[q] ELSE q
       IN parent' =
            [parent EXCEPT ![x] = IF fext[up] = fext[parent[up]] THEN parent[up] ELSE up]
    /\ s' = Append(s, s_f[pos])
    /\ pos' = pos + 1
    /\ x' = IF pos < N THEN s_f[pos + 1] ELSE Unset
    /\ UNCHANGED <<inputs, pc, hqueues, nodes, deja_vu, frame, calls>>

Finished == pc = "canonize" /\ pos > N
Returned == Finished /\ UNCHANGED vars

Next ==
    \/ PopRegular \/ PopAbove \/ PopBelow
    \/ SkipNeighbour \/ PushNeighbour \/ NeighboursDone
    \/ Call \/ NoCall \/ Attach \/ AttachUnder
    \/ Collect \/ Settle \/ Returned

Spec == Init /\ [][Next]_vars

-----------------------------------------------------------------------------
TypeOK ==
    /\ f \in [Site -> Value]
    /\ m \in [Site -> Value]
    /\ IsInjective(s_f) /\ DOMAIN s_f = 1..N
    /\ pc \in {"flood", "neighbours", "pushed", "root", "canonize"}
    /\ DOMAIN hqueues = Level
    /\ \A l \in Level : Range(hqueues[l]) \subseteq Site
    /\ is_node_at_level \in [Level -> BOOLEAN]
    /\ node_at_level \in [Level -> AllSites \cup {Unset}]
    /\ deja_vu \in [AllSites -> BOOLEAN]
    /\ h_idx \in Level
    /\ p \in Site \cup {Unset}
    /\ nth \in Nat
    /\ mn \in Level
    /\ parent \in [AllSites -> AllSites \cup {Unset}]
    /\ pos \in 1..(N + 1)
    /\ x \in AllSites \cup {Unset}
    /\ Range(s) \subseteq AllSites

Flooding == pc \in {"flood", "neighbours", "pushed"}

\* The floods that wait are of increasing levels, under the current one; no
\* queue above the current one has anything left when a site is popped; and a
\* level that has something in its queue has a node, of the value of the level.
HighestLevelFirst ==
    Flooding =>
      /\ \A j \in 1..Len(calls) :
           calls[j].h_idx < (IF j = Len(calls) THEN h_idx ELSE calls[j + 1].h_idx)
      /\ pc \in {"flood", "neighbours"} =>
           \A l \in Level : l > h_idx => hqueues[l] = <<>>
      /\ \A l \in Level : hqueues[l] # <<>> => is_node_at_level[l]
      /\ \A l \in Level : is_node_at_level[l] => fext[node_at_level[l]] = l

\* The tree returned is canonized.
ReturnsCanonized == Finished => Canonized

\* It has one root, and only the root is its own parent.
ReturnsRoot == Finished => SingleRoot

\* Its sites are sorted from the root.
ReturnsOrder == Finished => SitesFromRoots

\* Its components are those of the image under the connectivity of the mask.
ReturnsMaskTree == Finished => MaskConnected
=============================================================================
