---------------------------- MODULE Topological -----------------------------
(***************************************************************************)
(* The topological watershed, milena/mln/morpho/watershed/topological.hh:   *)
(* topo_wst builds the component tree of the lower level sets, drops its    *)
(* nodes with one child and prepares the search of lowest common ancestors; *)
(* topological() then lowers the sites it can, lowest first, from the       *)
(* neighbours of the minima.  Images share their data with their copies:    *)
(* the image lowered is the one that tree.ima refers to.                    *)
(***************************************************************************)
EXTENDS Regions, PPriority, SequencesExt

CONSTANT MaxValue  \* mln_max(V); the values are 0..MaxValue

VARIABLES
    input,     \* the image as it is given
    ima,       \* its data
    tree,      \* the topo_wst
    cmax,
    enqueued,
    l,         \* the p_priority of p_queue_fast
    pc,
    i          \* the site of S that the tree takes

vars == <<input, ima, tree, cmax, enqueued, l, pc, i>>

Sorted(f) ==
    SortSeq([j \in Site |-> j], LAMBDA a, b : f[a] < f[b] \/ (f[a] = f[b] /\ a < b))

Flags == [q \in Site |-> FALSE]

\* The counts of a node that nobody reads, area but for the -1 of a node that
\* is deleted, and highest, are left out.
MakeNode(level) == [level |-> level, children |-> <<>>, deleted |-> FALSE]

MakeSets(f) ==
    [S |-> Sorted(f),
     Par_tree |-> [q \in Site |-> q], Rnk_tree |-> [q \in Site |-> 0],
     Par_node |-> [q \in Site |-> q], Rnk_node |-> [q \in Site |-> 0],
     subtreeRoot |-> [q \in Site |-> q],
     nodes |-> [q \in Site |-> MakeNode(f[q])],
     isproc |-> Flags,
     Root |-> Outside]

Start ==
    /\ ima = input
    /\ tree = MakeSets(input)
    /\ cmax = Flags /\ enqueued = Flags /\ l = EmptyPriority
    /\ pc = "build"
    /\ i = 1

Init == input \in [Site -> 0..MaxValue] /\ Start

-----------------------------------------------------------------------------
(* BuildComponentTree: two union-finds, of the sites and of the nodes.       *)

Find(Par, x) ==
    LET root[q \in Site] == IF Par[q] = q THEN q ELSE root[Par[q]] IN root[x]

\* What Find_tree and Find_node leave of the path from x.
Shortened(Par, x) ==
    LET onpath[q \in Site] == {q} \cup IF Par[q] = q THEN {} ELSE onpath[Par[q]]
    IN [q \in Site |-> IF q \in onpath[x] THEN Find(Par, x) ELSE Par[q]]

\* Link_tree and Link_node: the one kept, of lesser or equal rank first.
Kept(Rnk, x, y) == IF Rnk[x] > Rnk[y] THEN x ELSE y
Linked(Par, Rnk, x, y) == [Par EXCEPT ![IF Kept(Rnk, x, y) = y THEN x ELSE y] = Kept(Rnk, x, y)]
Ranked(Rnk, x, y) == IF Rnk[x] = Rnk[y] THEN [Rnk EXCEPT ![y] = @ + 1] ELSE Rnk

FindTree(t, x) == [t EXCEPT !.Par_tree = Shortened(@, x)]
FindNode(t, x) == [t EXCEPT !.Par_node = Shortened(@, x)]

CanonicalElt(t, q) == Find(t.Par_tree, q)
NodeOf(t, q) == Find(t.Par_node, t.subtreeRoot[CanonicalElt(t, q)])

\* The tree once the node and the canonical element of q are found.
Sought(t, q) == FindNode(FindTree(t, q), t.subtreeRoot[CanonicalElt(t, q)])

MergeNode(t, node1, node2) ==
    LET kept == Kept(t.Rnk_node, node1, node2)
        lost == IF kept = node2 THEN node1 ELSE node2
    IN [t EXCEPT !.Par_node = Linked(@, t.Rnk_node, node1, node2),
                 !.Rnk_node = Ranked(@, node1, node2),
                 !.nodes[kept].children = @ \o t.nodes[lost].children]

\* One neighbour q of the site whose tree and node are b.elt and b.node.
Join(b, q) ==
    LET t == Sought(b.t, q)
        adjElt == CanonicalElt(b.t, q)
        adjNode == NodeOf(b.t, q)
        merges == b.node # adjNode /\ t.nodes[b.node].level = t.nodes[adjNode].level
        node == IF merges THEN Kept(t.Rnk_node, adjNode, b.node) ELSE b.node
        grown ==
          IF merges THEN MergeNode(t, adjNode, b.node)
          ELSE IF b.node # adjNode THEN [t EXCEPT !.nodes[b.node].children = Append(@, adjNode)]
          ELSE t
        elt == Kept(t.Rnk_tree, adjElt, b.elt)
    IN [t |-> [grown EXCEPT !.Par_tree = Linked(@, t.Rnk_tree, adjElt, b.elt),
                            !.Rnk_tree = Ranked(@, adjElt, b.elt),
                            !.subtreeRoot[elt] = node],
        elt |-> elt,
        node |-> node]

Build ==
    /\ pc = "build"
    /\ LET p == tree.S[i]
           seen == SelectSeq(Nbh[p], LAMBDA q : q # Outside /\ tree.isproc[q] /\ ima[q] <= ima[p])
           start == [t |-> Sought(tree, p), elt |-> CanonicalElt(tree, p), node |-> NodeOf(tree, p)]
       IN tree' = [FoldLeft(Join, start, seen).t EXCEPT !.isproc[p] = TRUE]
    /\ IF i = N THEN pc' = "root" /\ i' = i ELSE pc' = pc /\ i' = i + 1
    /\ UNCHANGED <<input, ima, cmax, enqueued, l>>

\* Each site is given its node, and the tree its root.
FindRoot ==
    /\ pc = "root"
    /\ LET t == [tree EXCEPT !.Par_node = [q \in Site |-> Find(@, q)]]
           first == t.Par_node[1]
       IN tree' = [FindTree(t, first) EXCEPT !.Root = t.subtreeRoot[CanonicalElt(t, first)]]
    /\ pc' = "compress"
    /\ UNCHANGED <<input, ima, cmax, enqueued, l, i>>

-----------------------------------------------------------------------------
(* compressTree, then the tables of the search of common ancestors.          *)

OneSon(t, n) == Len(t.nodes[n].children) = 1

\* Where the chain of nodes with one son that starts at n ends.
Below(t, n) ==
    LET down[m \in Site] == IF OneSon(t, m) THEN down[t.nodes[m].children[1]] ELSE m IN down[n]

\* The nodes of the tree: a merged one is the child of none.
InTree(t) ==
    LET under[n \in Site] ==
          {n} \cup UNION {under[t.nodes[n].children[j]] : j \in DOMAIN t.nodes[n].children}
    IN under[t.Root]

CompressTree ==
    /\ pc = "compress"
    /\ LET live == InTree(tree)
       IN tree' = [tree EXCEPT
             !.nodes = [n \in Site |->
                IF n \notin live THEN @[n]
                ELSE IF OneSon(tree, n) THEN [@[n] EXCEPT !.deleted = TRUE]
                ELSE [@[n] EXCEPT !.children =
                        [j \in DOMAIN @ |-> Below(tree, @[j])]]],
             !.Par_node = [q \in Site |-> Below(tree, @[q])],
             !.Root = Below(tree, @)]
    /\ pc' = "ancestors"
    /\ UNCHANGED <<input, ima, cmax, enqueued, l, i>>

\* The nodes as build_euler_tour_rec meets them, with their depths.
EulerTour(t) ==
    LET tour[n \in Site, d \in 0..N] ==
          FoldLeft(LAMBDA s, c : s \o tour[c, d + 1] \o <<[node |-> n, depth |-> d]>>,
                   <<[node |-> n, depth |-> d]>>, t.nodes[n].children)
    IN tour[t.Root, 0]

\* (int)(log(x) / log(2)) and (int)(ceil(log(x) / log(2))).
FloorLog(x) == CHOOSE k \in 0..x : 2 ^ k <= x /\ x < 2 ^ (k + 1)
CeilLog(x) == CHOOSE k \in 0..x : x <= 2 ^ k /\ (k = 0 \/ 2 ^ (k - 1) < x)

\* Mutant: the deeper of two positions.
ShallowerDeeper(depth, a, b) == IF depth[a] > depth[b] THEN a ELSE b

Shallower(depth, a, b) == IF depth[a] < depth[b] THEN a ELSE b

\* Minim[j][q], the position of the least depth from q to q + 2^j, where the
\* tour is long enough.  (For one node the table has no row, and the pointer
\* to its first one is stored in an array of none: nothing reads it.)
BuildMinim(depth, size) ==
    LET row[j \in 0..CeilLog(size) - 1] ==
          [q \in 0..(size - 1 - 2 ^ j) |->
             IF j = 0 THEN Shallower(depth, q, q + 1)
             ELSE LET a == row[j - 1][q]
                      b == row[j - 1][q + 2 ^ (j - 1)]
                  IN IF depth[a] = depth[b] THEN a ELSE Shallower(depth, a, b)]
    IN row

\* euler, which sends a position to the first one of its node, is folded in
\* depth: a node is at one depth.
BuildAncestors ==
    /\ pc = "ancestors"
    /\ LET tour == EulerTour(tree)
           depth == [q \in 0..(Len(tour) - 1) |-> tour[q + 1].depth]
           repr == [q \in DOMAIN depth |-> tour[q + 1].node]
           first == [n \in {repr[q] : q \in DOMAIN repr} |->
                       Min({q \in DOMAIN repr : repr[q] = n})]
       IN tree' = tree @@ [depth |-> depth, repr |-> repr, pos |-> first,
                           Minim |-> BuildMinim(depth, Len(tour))]
    /\ pc' = "minima"
    /\ UNCHANGED <<input, ima, cmax, enqueued, l, i>>

Lca(a, b) ==
    LET m == Min({tree.pos[a], tree.pos[b]})
        n == Max({tree.pos[a], tree.pos[b]})
        k == FloorLog(n - m)
    IN IF m = n THEN tree.repr[m]
       ELSE tree.repr[Shallower(tree.depth, tree.Minim[k][m], tree.Minim[k][n - 2 ^ k])]

-----------------------------------------------------------------------------
(* topological().                                                            *)

\* The sites q are pushed in their order, once each.
Enqueue(queue, T) ==
    FoldLeft(LAMBDA Q, q : PriorityPush(Q, MaxValue - ima[q], q), queue, T)

\* The neighbours of p that are in no minimum, leaving out those that wait.
Fresh(p, minimum, waiting) ==
    SelectSeq(Nbh[p], LAMBDA q : q # Outside /\ ~ minimum[q] /\ ~ waiting[q])

IsLeaf(n) == tree.nodes[n].children = <<>>

\* The sites of the leaves, from the first to the last, push their neighbours.
FlagMinima ==
    /\ pc = "minima"
    /\ LET minimum == [q \in Site |-> IsLeaf(tree.Par_node[q])]
           m == SelectSeq([j \in Site |-> j], LAMBDA q : minimum[q])
           order == FoldLeft(LAMBDA T, p :
                        T \o Fresh(p, minimum, [q \in Site |-> Contains(T, q)]), <<>>, m)
       IN /\ cmax' = minimum
          /\ enqueued' = [q \in Site |-> Contains(order, q)]
          /\ l' = Enqueue(l, order)
    /\ pc' = "main"
    /\ UNCHANGED <<input, ima, tree, i>>

\* min: of the sites that stand for the nodes, the first of least value now.
LowestSite(v) ==
    CHOOSE c \in v : \A r \in v : ima[c] < ima[r] \/ (ima[c] = ima[r] /\ c <= r)

\* The highest fork of the nodes v: that of the lowest one with each other.
Fork(v) ==
    LET cmin == LowestSite(v)
    IN FoldLeft(LAMBDA c, r : IF Lca(c, r) # r THEN Lca(c, r) ELSE c,
                cmin, SetToSortSeq(v \ {cmin}, <))

\* w_constructible: the node to which p may be lowered, if there is one.
WConstructible(p) ==
    LET v == {tree.Par_node[q] : q \in {r \in Neighbours[p] : ima[r] < ima[p]}}
    IN IF Cardinality(v) <= 1 THEN v
       ELSE {c \in {Fork(v)} : tree.nodes[c].level < ima[p]}

\* The site served takes the node c, and its neighbours wait.
Lower(x, c) ==
    LET minimum == [cmax EXCEPT ![x] = @ \/ IsLeaf(c)]
        fresh == Fresh(x, minimum, [enqueued EXCEPT ![x] = FALSE])
    IN /\ ima' = [ima EXCEPT ![x] = tree.nodes[c].level]
       /\ tree' = [tree EXCEPT !.Par_node[x] = c]
       /\ cmax' = minimum
       /\ enqueued' = [q \in Site |-> (enqueued[q] /\ q # x) \/ Contains(fresh, q)]
       /\ l' = Enqueue(PriorityPop(l), fresh)

Keep(x) ==
    /\ enqueued' = [enqueued EXCEPT ![x] = FALSE]
    /\ l' = PriorityPop(l)
    /\ UNCHANGED <<ima, tree, cmax>>

Serve ==
    /\ pc = "main"
    /\ ~ PriorityIsEmpty(l)
    /\ LET x == PriorityFront(l)
       IN \/ \E c \in WConstructible(x) : Lower(x, c)
          \/ WConstructible(x) = {} /\ Keep(x)
    /\ UNCHANGED <<input, pc, i>>

Return ==
    /\ pc = "main"
    /\ PriorityIsEmpty(l)
    /\ ima' = [q \in Site |-> tree.nodes[tree.Par_node[q]].level]
    /\ pc' = "done"
    /\ UNCHANGED <<input, tree, cmax, enqueued, l, i>>

Next == Build \/ FindRoot \/ CompressTree \/ BuildAncestors \/ FlagMinima \/ Serve \/ Return

Spec == Init /\ [][Next]_vars

-----------------------------------------------------------------------------

TypeOK ==
    /\ input \in [Site -> 0..MaxValue]
    /\ \A q \in Site : ima[q] \in 0..input[q]
    /\ tree.Par_node \in [Site -> Site] /\ tree.Root \in Site \cup {Outside}
    /\ l.p \subseteq 0..MaxValue /\ l.n \in 0..N
    /\ cmax \in [Site -> BOOLEAN] /\ enqueued \in [Site -> BOOLEAN]
    /\ pc \in {"build", "root", "compress", "ancestors", "minima", "main", "done"}
    /\ i \in Site

\* A site waits once, at its present value, flagged, and in no minimum: what
\* it is given when it is served is decided on the order of the levels.
QueueIsFlagged ==
    LET waiting == {q \in Site : enqueued[q]}
    IN /\ l.n = Cardinality(waiting)
       /\ \A q \in waiting :
            /\ ~ cmax[q]
            /\ MaxValue - ima[q] \in l.p
            /\ Contains(QueueSites(l.q[MaxValue - ima[q]]), q)

\* The result is a thinning of the image: at each level, each component of the
\* sites below holds one of those of the image, so that the minima are as many
\* and the values at which they meet are the same.
ThinsImage ==
    pc = "done" =>
       \A k \in 0..MaxValue : \A C \in Components({q \in Site : ima[q] <= k}) :
          \E B \in Components({q \in Site : input[q] <= k}) :
             /\ B \subseteq C
             /\ \A q \in C \ B : input[q] > k

\* "Compute a toological watershed transform" (line 211): no site can be
\* lowered any more, and so none that is above a minimum, all of whose lower
\* neighbours are in that one.
NoSiteAboveOneMinimum ==
    pc = "done" =>
       \A Z \in Minima(ima) : \A p \in Site \ Z :
          LET lower == {q \in Neighbours[p] : ima[q] < ima[p]}
          IN lower # {} => ~ lower \subseteq Z
=============================================================================
