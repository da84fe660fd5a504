--------------------------- MODULE DualUnionFind ----------------------------
(***************************************************************************)
(* dual_union_find, in milena/mln/morpho/tree/impl/dual_union_find.hh: the  *)
(* dual input tree of images of any quantization.                           *)
(*                                                                         *)
(* The first loop merges the two site arrays s_f and s_m, browsed backward: *)
(* a site of the extension is made when the mask reaches it, and joins its  *)
(* processed neighbours; a site of the domain joins it, above or below.     *)
(* The second loop browses s_f forward, redirects every parent to a node    *)
(* and collects the nodes of the extension; update_m_parent recurses        *)
(* towards the root.                                                        *)
(***************************************************************************)
EXTENDS DualInput

VARIABLES
    s_f, s_m,      \* input: the sorted site arrays
    pc,            \* which statement comes next
    p_f, p_m,      \* index of the backward iterators; 0: not valid
    ext,           \* the site of the extension whose neighbours are browsed
    nth,           \* how many of them were
    zpar,          \* the compressed parents
    deja_vu,       \* what was seen, then what update_m_parent appended to s
    pos,           \* index in s_f of the forward iterator
    calls          \* the sites of the pending calls of update_m_parent

inputs == <<f, m, s_f, s_m>>
scan == <<p_f, p_m, ext, nth>>
vars == <<inputs, parent, s, pc, scan, zpar, deja_vu, pos, calls>>

\* What sort_psites_increasing makes of an image, whatever it does of equal
\* values.
Sorts(o, g) ==
    /\ o \in [1..N -> Site]
    /\ IsInjective(o)
    /\ \A j, k \in 1..N : j < k => g[o[j]] <= g[o[k]]

Start ==
    /\ pc = "merge"
    /\ p_f = N
    /\ p_m = N
    /\ ext = Unset
    /\ nth = 0
    /\ parent = [q \in AllSites |-> Unset]
    /\ zpar = [q \in AllSites |-> Unset]
    /\ deja_vu = [q \in AllSites |-> FALSE]
    /\ s = <<>>
    /\ pos = 1
    /\ calls = <<>>

Init ==
    /\ f \in [Site -> Value]
    /\ m \in [Site -> Value]
    /\ s_f \in [1..N -> Site]
    /\ s_m \in [1..N -> Site]
    /\ Sorts(s_f, f)
    /\ Sorts(s_m, m)
    /\ Start

-----------------------------------------------------------------------------
(* find_root: the root of q, and zpar once the path to it is compressed.    *)
(* No link leads further than Unset.                                         *)

Root(q) ==
    LET up[r \in AllSites \cup {Unset}] ==
          IF r = Unset \/ zpar[r] = r THEN r ELSE up[zpar[r]]
    IN up[q]

\* The sites from q to top, top excluded, following link.
Path(link, q, top) ==
    LET onward[r \in AllSites \cup {Unset}] ==
          IF r \in {top, Unset} THEN {} ELSE {r} \cup onward[link[r]]
    IN onward[q]

\* What link becomes when the sites of a path are all linked to top.
Redirected(link, path, top) == [q \in AllSites |-> IF q \in path THEN top ELSE link[q]]

Compressed(q) == Redirected(zpar, Path(zpar, q, Root(q)), Root(q))

-----------------------------------------------------------------------------
(* First loop.                                                              *)

\* The mask is browsed while it is not below the image.
MaskIsNext == p_f = 0 \/ (p_m > 0 /\ f[s_f[p_f]] <= m[s_m[p_m]])

\* The site under the iterator that moves.
p == IF MaskIsNext THEN s_m[p_m] ELSE s_f[p_f]

Browsing == pc = "merge" /\ (p_m > 0 \/ p_f > 0)

NextSite ==
    IF MaskIsNext THEN p_m' = p_m - 1 /\ p_f' = p_f
                  ELSE p_f' = p_f - 1 /\ p_m' = p_m

\* Seen by mask before f: p becomes the root of the component of its copy.
JoinBelow ==
    /\ Browsing
    /\ deja_vu[Extend(p)]
    /\ LET r == Root(Extend(p)) IN
         /\ parent' = [parent EXCEPT ![p] = p, ![r] = p]
         /\ zpar' = [Compressed(Extend(p)) EXCEPT ![p] = p, ![r] = p]
    /\ deja_vu' = [deja_vu EXCEPT ![p] = TRUE]
    /\ NextSite
    /\ UNCHANGED <<inputs, s, pc, ext, nth, pos, calls>>

\* Seen by f before mask: p hangs under its copy, which joins its neighbours.
JoinAbove ==
    /\ Browsing
    /\ ~ deja_vu[Extend(p)]
    /\ deja_vu[p]
    /\ parent' = [parent EXCEPT ![p] = Extend(p), ![Extend(p)] = Extend(p)]
    /\ zpar' = [zpar EXCEPT ![p] = Extend(p), ![Extend(p)] = Extend(p)]
    /\ ext' = Extend(p)
    /\ nth' = 0
    /\ pc' = "neighbours"
    /\ UNCHANGED <<inputs, s, p_f, p_m, deja_vu, pos, calls>>

\* First time p encountered, by the mask.
MaskFirst ==
    /\ Browsing
    /\ ~ deja_vu[Extend(p)]
    /\ ~ deja_vu[p]
    /\ f[p] <= m[p]
    /\ zpar' = [zpar EXCEPT ![Extend(p)] = Extend(p)]
    /\ ext' = Extend(p)
    /\ nth' = 0
    /\ pc' = "neighbours"
    /\ UNCHANGED <<inputs, parent, s, p_f, p_m, deja_vu, pos, calls>>

\* First time p encountered, by f.
ImageFirst ==
    /\ Browsing
    /\ ~ deja_vu[Extend(p)]
    /\ ~ deja_vu[p]
    /\ f[p] > m[p]
    /\ deja_vu' = [deja_vu EXCEPT ![p] = TRUE]
    /\ NextSite
    /\ UNCHANGED <<inputs, parent, s, pc, ext, nth, zpar, pos, calls>>

Neighbour == Nbh[ext - N][nth + 1]
HasNeighbour == pc = "neighbours" /\ nth < Len(Nbh[ext - N])
Seen(n) == n # Outside /\ deja_vu[Extend(n)]

SkipNeighbour ==
    /\ HasNeighbour
    /\ ~ Seen(Neighbour)
    /\ nth' = nth + 1
    /\ UNCHANGED <<inputs, parent, s, pc, p_f, p_m, ext, zpar, deja_vu, pos, calls>>

JoinNeighbour ==
    /\ HasNeighbour
    /\ Seen(Neighbour)
    /\ LET r == Root(Extend(Neighbour)) IN
         /\ zpar' = [Compressed(Extend(Neighbour)) EXCEPT ![r] = ext]
         /\ parent' = IF r = ext THEN parent ELSE [parent EXCEPT ![r] = ext]
    /\ nth' = nth + 1
    /\ UNCHANGED <<inputs, s, pc, p_f, p_m, ext, deja_vu, pos, calls>>

NeighboursDone ==
    /\ pc = "neighbours"
    /\ nth = Len(Nbh[ext - N])
    /\ deja_vu' = [deja_vu EXCEPT ![ext] = TRUE]
    /\ pc' = "merge"
    /\ NextSite
    /\ UNCHANGED <<inputs, parent, s, ext, nth, zpar, pos, calls>>

\* The canonization has a deja_vu of its own, on the extension.
Merged ==
    /\ pc = "merge"
    /\ p_m = 0
    /\ p_f = 0
    /\ deja_vu' = [q \in AllSites |-> FALSE]
    /\ pc' = "canonize"
    /\ UNCHANGED <<inputs, parent, s, scan, zpar, pos, calls>>

-----------------------------------------------------------------------------
(* Second loop.                                                             *)

\* The parent of the site is in the domain already.
Canonize ==
    /\ pc = "canonize"
    /\ pos <= N
    /\ LET q == s_f[pos] IN
         /\ parent[q] \in Site
         /\ parent' = IF fext[parent[parent[q]]] = f[parent[q]]
                        THEN [parent EXCEPT ![q] = parent[parent[q]]] ELSE parent
         /\ s' = Append(s, q)
    /\ pos' = pos + 1
    /\ UNCHANGED <<inputs, pc, scan, zpar, deja_vu, calls>>

UpdateCall ==
    /\ pc = "canonize"
    /\ pos <= N
    /\ parent[s_f[pos]] \notin Site
    /\ calls' = <<s_f[pos]>>
    /\ pc' = "update"
    /\ UNCHANGED <<inputs, parent, s, scan, zpar, deja_vu, pos>>

\* update_m_parent(c) starts at the parent of c and goes up the extension as
\* long as the value stays the same.
Climb(c) ==
    LET up[q \in AllSites] ==
          LET x == parent[q] IN
          IF x \in ExtSite /\ fext[q] = fext[x] /\ q # x THEN up[x] ELSE q
    IN up[parent[c]]

\* q is appended to s unless it was.
Collected(q) ==
    /\ s' = IF deja_vu[q] THEN s ELSE Append(s, q)
    /\ deja_vu' = [deja_vu EXCEPT ![q] = TRUE]

\* The call ends; the sites from c to q get x as parent.
Return(c, link, q, x) ==
    /\ parent' = Redirected(link, Path(link, c, q), x)
    /\ pc' = "return"
    /\ UNCHANGED <<inputs, scan, zpar, pos, calls>>

\* The top q of the climb has its parent in the domain, ...
UpdateAtDomain ==
    /\ pc = "update"
    /\ LET c == Last(calls)
           q == Climb(c)
           x == IF fext[parent[q]] = fext[parent[parent[q]]]
                  THEN parent[parent[q]] ELSE parent[q]
           link == [parent EXCEPT ![q] = x]
       IN /\ parent[q] \notin ExtSite
          /\ IF fext[q] # fext[x]
               THEN Collected(q) /\ Return(c, link, q, q)
               ELSE UNCHANGED <<s, deja_vu>> /\ Return(c, link, q, x)

\* ... or is the root, ...
UpdateAtRoot ==
    /\ pc = "update"
    /\ LET c == Last(calls)
           q == Climb(c)
       IN /\ parent[q] = q
          /\ Collected(q)
          /\ Return(c, parent, q, q)

\* ... or has its parent in the extension, which is updated first.
UpdateRecursion ==
    /\ pc = "update"
    /\ LET q == Climb(Last(calls)) IN
         /\ parent[q] \in ExtSite
         /\ parent[q] # q
         /\ calls' = Append(calls, q)
    /\ UNCHANGED <<inputs, parent, s, pc, scan, zpar, deja_vu, pos>>

UpdateReturn ==
    /\ pc = "return"
    /\ Len(calls) > 1
    /\ LET q == Last(calls)
           c == calls[Len(calls) - 1]
       IN /\ Collected(q)
          /\ parent' = Redirected(parent, Path(parent, c, q), q)
    /\ calls' = Front(calls)
    /\ UNCHANGED <<inputs, pc, scan, zpar, pos>>

UpdateDone ==
    /\ pc = "return"
    /\ Len(calls) = 1
    /\ s' = Append(s, Last(calls))
    /\ pos' = pos + 1
    /\ calls' = <<>>
    /\ pc' = "canonize"
    /\ UNCHANGED <<inputs, parent, scan, zpar, deja_vu>>

Returned == pc = "canonize" /\ pos > N /\ UNCHANGED vars

Next ==
    \/ JoinBelow \/ JoinAbove \/ MaskFirst \/ ImageFirst
    \/ SkipNeighbour \/ JoinNeighbour \/ NeighboursDone \/ Merged
    \/ Canonize \/ UpdateCall \/ UpdateAtDomain \/ UpdateAtRoot
    \/ UpdateRecursion \/ UpdateReturn \/ UpdateDone
    \/ Returned

Spec == Init /\ [][Next]_vars

-----------------------------------------------------------------------------
TypeOK ==
    /\ f \in [Site -> Value]
    /\ m \in [Site -> Value]
    /\ IsInjective(s_f) /\ DOMAIN s_f = 1..N
    /\ IsInjective(s_m) /\ DOMAIN s_m = 1..N
    /\ pc \in {"merge", "neighbours", "canonize", "update", "return"}
    /\ p_f \in 0..N
    /\ p_m \in 0..N
    /\ ext \in ExtSite \cup {Unset}
    /\ nth \in Nat
    /\ parent \in [AllSites -> AllSites \cup {Unset}]
    /\ zpar \in [AllSites -> AllSites \cup {Unset}]
    /\ deja_vu \in [AllSites -> BOOLEAN]
    /\ pos \in 1..(N + 1)
    /\ Range(calls) \subseteq AllSites
    /\ Range(s) \subseteq AllSites

\* Between two sites of the first loop, the union-find holds the components of
\* the part of the mask that was browsed; a site of the domain is in that of its
\* copy as soon as both were, and the uncompressed parents of the two are in it.
MergesTheMask ==
    pc = "merge" =>
      LET seen == [q \in Site |-> deja_vu[Extend(q)]]
          browsed == {q \in Site : seen[q]}
      IN /\ \A q \in browsed :
              {r \in browsed : Root(Extend(r)) = Root(Extend(q))} = FlatZone(seen, q)
         /\ \A q \in browsed : deja_vu[q] =>
              /\ Root(q) = Root(Extend(q))
              /\ \A r \in {q, Extend(q)} :
                   parent[r] # Unset /\ Root(parent[r]) = Root(r)

\* The tree returned.
Finished == pc = "canonize" /\ pos > N

\* It is canonized, has one root, and its sites are sorted from it.
ReturnsTree == Finished => Canonized /\ SingleRoot /\ SitesFromRoots

\* Its components are those of the image under the connectivity of the mask.
ReturnsMaskTree == Finished => MaskConnected
=============================================================================
