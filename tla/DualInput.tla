----------------------------- MODULE DualInput ------------------------------
(***************************************************************************)
(* What the two implementations of dual_input_max_tree share               *)
(* (milena/mln/morpho/tree/dual_input_tree.hh): the two input images on one *)
(* domain, the domain extended by a translated copy of itself, where the    *)
(* mask provides the values, and the result, a parent image and a site      *)
(* array s on the extended domain; and what that result should be.          *)
(*                                                                         *)
(* The two sites p and p + dp of the code are p and Extend(p) here.         *)
(***************************************************************************)
EXTENDS Regions, SequencesExt

CONSTANT Value     \* values of the images

ASSUME ValueAssumption == Value \subseteq Nat

VARIABLES
    f, m,          \* input: the original image, the connectivity mask
    parent, s      \* output: the parent image, the site array of the tree

\* The content of an image that was initialized but not filled.
Unset == 0

Extend(p) == p + N
ExtSite == {Extend(p) : p \in Site}
AllSites == Site \cup ExtSite

\* The image on the extended domain.
fext == [q \in AllSites |-> IF q \in Site THEN f[q] ELSE m[q - N]]

IsRoot(q) == parent[q] = q
IsNode(q) == IsRoot(q) \/ fext[parent[q]] # fext[q]

-----------------------------------------------------------------------------
(* What a max-tree of f with the connectivity of m is.  At a level h, the    *)
(* sites of f reaching h are connected through the sites of m reaching h;    *)
(* a site that the mask leaves under h stays alone.                          *)

\* The last ancestor of q that reaches h.
Peak(h, q) ==
    LET up[r \in AllSites] ==
          IF IsRoot(r) \/ fext[parent[r]] < h THEN r ELSE up[parent[r]]
    IN up[q]

\* A site of the tree precedes what it is an ancestor of: that is what makes
\* the backward iteration on s go from the leaves to the roots.
SitesFromRoots == \A j \in DOMAIN s : \E k \in 1..j : s[k] = parent[s[j]]

\* Exactly one site is its own parent.
SingleRoot == Cardinality({j \in DOMAIN s : IsRoot(s[j])}) = 1

\* The tree has all the sites of the domain, none twice, and of the extension
\* only nodes; the parent of each is a node, of a value that is not higher.
Canonized ==
    /\ IsInjective(s)
    /\ Site \subseteq Range(s)
    /\ \A q \in Range(s) \ Site : IsNode(q)
    /\ \A q \in Range(s) : IsNode(parent[q]) /\ fext[parent[q]] <= fext[q]

\* At each level, two sites are in the same component of the tree exactly when
\* the mask connects them.
MaskConnected ==
    \A h \in Value :
      LET reach == {p \in Site : f[p] >= h}
          closed == Closed([q \in Site |-> m[q] >= h])
          Component(p) == {p} \cup IF m[p] >= h THEN reach \cap ZoneIn(closed, p) ELSE {}
      IN \A p \in reach : {q \in reach : Peak(h, q) = Peak(h, p)} = Component(p)
=============================================================================
