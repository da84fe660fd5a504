---------------------------- MODULE ComponentTree ----------------------------
(***************************************************************************)
(* The parent image of a component tree:                                   *)
(* milena/mln/morpho/tree/compute_parent.hh, called by min_tree and        *)
(* max_tree in milena/mln/morpho/tree/component_tree.hh.                    *)
(*                                                                         *)
(* Sites are numbered in the order of the forward scan.  The image f and   *)
(* the sorted site array s are inputs, chosen once.  A first loop browses  *)
(* s backward and merges each site with its processed neighbours by        *)
(* union-find (zpar is the compressed copy of parent, zfind_root recurses  *)
(* and compresses on the way back); a second loop browses s forward and    *)
(* redirects each parent to a node of the tree.                            *)
(***************************************************************************)
EXTENDS Integers, Sequences

CONSTANTS
    N,         \* number of sites of the image domain
    Value,     \* values of the image
    Nbh        \* Nbh[p]: what the neighborhood yields at p, outside points too

Site == 1..N

ASSUME NAssumption == N \in Nat \ {0}
ASSUME ValueAssumption == Value \subseteq Int
ASSUME NbhAssumption ==
    /\ Nbh \in [Site -> SUBSET Int]
    /\ \A p, q \in Site : q \in Nbh[p] <=> p \in Nbh[q]

\* The content of an image that was initialized but not filled.
Unset == 0

VARIABLES
    f,         \* input: the image
    s,         \* input: the site array, a sorted enumeration of the domain
    pc,        \* which statement comes next
    i,         \* index in s of the site piter p
    todo,      \* what the niter n has yet to yield at p
    n,         \* the niter: the neighbour being looked at
    x,         \* argument, then result, of zfind_root
    path,      \* the pending calls of zfind_root, outermost first
    parent, zpar, deja_vu

inputs == <<f, s>>
vars == <<f, s, pc, i, todo, n, x, path, parent, zpar, deja_vu>>

-----------------------------------------------------------------------------
(* What the routine relies on: s enumerates the domain, and the callers     *)
(* sorted it with data::sort_psites_increasing or _decreasing.              *)

Enumerates(o) ==
    /\ o \in [1..N -> Site]
    /\ \A j, k \in 1..N : o[j] = o[k] => j = k
    /\ \A p \in Site : \E j \in 1..N : o[j] = p

Increasing(g, o) == \A j, k \in 1..N : j < k => g[o[j]] <= g[o[k]]
Decreasing(g, o) == \A j, k \in 1..N : j < k => g[o[j]] >= g[o[k]]

Sorted(g, o) == Increasing(g, o) \/ Decreasing(g, o)

p == s[i]

Start ==
    /\ pc = "make_set"
    /\ i = N
    /\ todo = {}
    /\ n = Unset
    /\ x = Unset
    /\ path = <<>>
    /\ parent = [q \in Site |-> Unset]
    /\ zpar = [q \in Site |-> Unset]
    /\ deja_vu = [q \in Site |-> FALSE]

Init ==
    /\ f \in [Site -> Value]
    /\ s \in [1..N -> Site]
    /\ Enumerates(s)
    /\ Sorted(f, s)
    /\ Start

-----------------------------------------------------------------------------
(* First loop: s backward.                                                  *)

MakeSet ==
    /\ pc = "make_set"
    /\ parent' = [parent EXCEPT ![p] = p]
    /\ zpar' = [zpar EXCEPT ![p] = p]
    /\ todo' = Nbh[p]
    /\ pc' = "neighbours"
    /\ UNCHANGED <<inputs, i, n, x, path, deja_vu>>

\* The condition on a neighbour; the domain is asked first.
Seen(m) == m \in Site /\ deja_vu[m]

SkipNeighbour ==
    /\ pc = "neighbours"
    /\ \E m \in todo :
         /\ ~ Seen(m)
         /\ n' = m
         /\ todo' = todo \ {m}
    /\ UNCHANGED <<inputs, pc, i, x, path, parent, zpar, deja_vu>>

VisitNeighbour ==
    /\ pc = "neighbours"
    /\ \E m \in todo :
         /\ Seen(m)
         /\ n' = m
         /\ x' = m
         /\ todo' = todo \ {m}
    /\ path' = <<>>
    /\ pc' = "find_root"
    /\ UNCHANGED <<inputs, i, parent, zpar, deja_vu>>

\* zfind_root(zpar, x) calls itself on zpar(x) ...
FindRootCall ==
    /\ pc = "find_root"
    /\ zpar[x] # x
    /\ path' = Append(path, x)
    /\ x' = zpar[x]
    /\ UNCHANGED <<inputs, pc, i, todo, n, parent, zpar, deja_vu>>

\* Mutant: the representative of a neighbour is its link, root or not.
FindRootBaseShallow ==
    /\ pc = "find_root"
    /\ pc' = "compress"
    /\ UNCHANGED <<inputs, i, todo, n, x, path, parent, zpar, deja_vu>>

\* ... until it meets a root, its result.
FindRootBase ==
    /\ pc = "find_root"
    /\ zpar[x] = x
    /\ pc' = "compress"
    /\ UNCHANGED <<inputs, i, todo, n, x, path, parent, zpar, deja_vu>>

\* Each pending call stores the result in zpar and returns it.
FindRootReturn ==
    /\ pc = "compress"
    /\ path # <<>>
    /\ zpar' = [zpar EXCEPT ![path[Len(path)]] = x]
    /\ path' = SubSeq(path, 1, Len(path) - 1)
    /\ UNCHANGED <<inputs, pc, i, todo, n, x, parent, deja_vu>>

\* Mutants: the root of the neighbour adopts p; the union is left out of zpar.
DoUnionSwapped ==
    /\ pc = "compress"
    /\ path = <<>>
    /\ parent' = [parent EXCEPT ![p] = x]
    /\ zpar' = [zpar EXCEPT ![p] = x]
    /\ pc' = "neighbours"
    /\ UNCHANGED <<inputs, i, todo, n, x, path, deja_vu>>

DoUnionParentOnly ==
    /\ pc = "compress"
    /\ path = <<>>
    /\ parent' = [parent EXCEPT ![x] = p]
    /\ pc' = "neighbours"
    /\ UNCHANGED <<inputs, i, todo, n, x, path, zpar, deja_vu>>

DoUnion ==
    /\ pc = "compress"
    /\ path = <<>>
    /\ IF x # p
         THEN /\ parent' = [parent EXCEPT ![x] = p]
              /\ zpar' = [zpar EXCEPT ![x] = p]
         ELSE UNCHANGED <<parent, zpar>>
    /\ pc' = "neighbours"
    /\ UNCHANGED <<inputs, i, todo, n, x, path, deja_vu>>

\* Mutant: the backward piter runs past the first site.
NextSiteOffByOne ==
    /\ pc = "neighbours"
    /\ todo = {}
    /\ deja_vu' = [deja_vu EXCEPT ![p] = TRUE]
    /\ i' = i - 1 /\ pc' = "make_set"
    /\ UNCHANGED <<inputs, todo, n, x, path, parent, zpar>>

NextSite ==
    /\ pc = "neighbours"
    /\ todo = {}
    /\ deja_vu' = [deja_vu EXCEPT ![p] = TRUE]
    /\ IF i > 1 THEN i' = i - 1 /\ pc' = "make_set"
                ELSE i' = 1 /\ pc' = "canonize"
    /\ UNCHANGED <<inputs, todo, n, x, path, parent, zpar>>

-----------------------------------------------------------------------------
(* Second loop: s forward.                                                  *)

\* Mutants: the levels are not compared; s is browsed backward again.
CanonizeAcrossLevels ==
    /\ pc = "canonize"
    /\ parent' = [parent EXCEPT ![p] = parent[parent[p]]]
    /\ IF i < N THEN i' = i + 1 /\ pc' = "canonize"
                ELSE i' = i /\ pc' = "done"
    /\ UNCHANGED <<inputs, todo, n, x, path, zpar, deja_vu>>

CanonizeBackward ==
    /\ pc = "canonize"
    /\ LET r == s[N + 1 - i]
           q == parent[r] IN
         parent' = IF f[parent[q]] = f[q]
                     THEN [parent EXCEPT ![r] = parent[q]]
                     ELSE parent
    /\ IF i < N THEN i' = i + 1 /\ pc' = "canonize"
                ELSE i' = i /\ pc' = "done"
    /\ UNCHANGED <<inputs, todo, n, x, path, zpar, deja_vu>>

Canonize ==
    /\ pc = "canonize"
    /\ LET q == parent[p] IN
         parent' = IF f[parent[q]] = f[q]
                     THEN [parent EXCEPT ![p] = parent[q]]
                     ELSE parent
    /\ IF i < N THEN i' = i + 1 /\ pc' = "canonize"
                ELSE i' = i /\ pc' = "done"
    /\ UNCHANGED <<inputs, todo, n, x, path, zpar, deja_vu>>

\* The parent image is returned: nothing happens any more.
Returned == pc = "done" /\ UNCHANGED vars

Next ==
    \/ MakeSet
    \/ SkipNeighbour \/ VisitNeighbour
    \/ FindRootCall \/ FindRootBase \/ FindRootReturn
    \/ DoUnion
    \/ NextSite
    \/ Canonize
    \/ Returned

Spec == Init /\ [][Next]_vars

-----------------------------------------------------------------------------
(* Properties.                                                              *)

PC == {"make_set", "neighbours", "find_root", "compress", "canonize", "done"}

\* Types of the state: the images keep their domain, the piter stays in s.
TypeOK ==
    /\ f \in [Site -> Value]
    /\ s \in [1..N -> Site]
    /\ pc \in PC
    /\ i \in 1..N
    /\ todo \in SUBSET Int
    /\ n \in Int
    /\ x \in Site \cup {Unset}
    /\ path \in Seq(Site)
    /\ parent \in [Site -> Site \cup {Unset}]
    /\ zpar \in [Site -> Site \cup {Unset}]
    /\ deja_vu \in [Site -> BOOLEAN]

\* Rank of a site in the order o.
Rank(o, q) == CHOOSE j \in 1..N : o[j] = q

\* The sites of s from index k on.
LevelFrom(k) == {s[j] : j \in k..N}

\* The sites that have been through Make-Set.
Searching == pc \in {"find_root", "compress"}
Merging == pc = "neighbours" \/ Searching
First == IF pc = "make_set" THEN i + 1 ELSE IF Merging THEN i ELSE 1
Made == LevelFrom(First)

\* "s means childhood": at any time both links of a site lead to a site of
\* the forest that comes no later in s, so following parent from a site ends
\* at a root and no site is its own ancestor.  Unions, path compression and
\* canonization all rewrite these links.
LinksFollowS ==
    \A q \in Made :
       /\ parent[q] \in Made /\ Rank(s, parent[q]) <= Rank(s, q)
       /\ zpar[q] \in Made /\ Rank(s, zpar[q]) <= Rank(s, q)

\* A set of sites that a link function, or the neighborhood, does not leave
\* or enter inside D.  Two relations have the same connected components in D
\* iff they have the same closed sets.
LinkClosed(link, D, C) ==
    \A q \in D : link[q] \in D => (q \in C <=> link[q] \in C)
NbhClosed(D, C) ==
    \A q, r \in D : r \in Nbh[q] => (q \in C <=> r \in C)

SameComponents(link, D) ==
    \A C \in SUBSET D : LinkClosed(link, D, C) <=> NbhClosed(D, C)

\* Between two sites of the first loop the trees of zpar, whatever paths were
\* compressed, are exactly the connected components of the processed sites.
UnionFindComponents ==
    pc = "make_set" => SameComponents(zpar, Made)

\* The first index of a run of equal values in s: the sites from there on are
\* a level set of f (an upper one when s is increasing).
IsCut(k) == k = 1 \/ f[s[k]] # f[s[k - 1]]

\* What makes the result a component tree: once returned, the parent links
\* that stay inside a level set link exactly its connected components.
LevelComponents ==
    pc = "done" =>
       \A k \in 1..N : IsCut(k) => SameComponents(parent, LevelFrom(k))

\* "p is root iff parent(p) == p; p is a node iff either p is root or
\* f(parent(p)) != f(p)" (compute_parent.hh, lines 67-69).
IsRoot(q) == parent[q] = q
IsNode(q) == IsRoot(q) \/ f[parent[q]] # f[q]

\* After canonization every parent is a node: the level component of a site
\* is reached in one step, which is what morpho::tree::data and the filters
\* assume of the image ("mln_invariant(is_a_node(...))").
ParentIsNode == pc = "done" => \A q \in Site : IsNode(parent[q])

\* In the first loop a site that has a parent keeps it: unions only ever link
\* a current root, however many times the site is met again.
ParentBoundOnce ==
    [][\A q \in Made : pc # "canonize" /\ parent[q] # q
                         => parent'[q] = parent[q]]_vars
=============================================================================
