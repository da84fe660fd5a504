------------------------------ MODULE TreeData -------------------------------
(***************************************************************************)
(* The tree that the filters browse: milena/mln/morpho/tree/data.hh.        *)
(*                                                                         *)
(* Its constructor calls compute_parent (ComponentTree), then               *)
(* compute_children_ browses s backward and stores the nodes, from the      *)
(* leaves to the roots, the children of each and the leaves.  The iterators *)
(* on nodes and leaves only read these arrays forward (up) or backward.     *)
(***************************************************************************)
EXTENDS ComponentTree, FiniteSets, SequencesExt

VARIABLES
    loop,      \* which loop is running, once the parent image is there
    k,         \* its index in s or in nodes
    children,  \* children[n]: the children of the node n, in the order met
    nodes, leaves, nroots

data_vars == <<loop, k, children, nodes, leaves, nroots>>

StartData ==
    /\ loop = "children"
    /\ k = N
    /\ children = [q \in Site |-> <<>>]
    /\ nodes = <<>> /\ leaves = <<>>
    /\ nroots = 0

IsLeaf(q) == children[q] = <<>>
Nodes == ToSet(nodes)

\* The end of an iteration of a loop that decreases or increases k; a loop
\* leaves k where a loop in the other direction starts.
DownTo(next) ==
    IF k > 1 THEN k' = k - 1 /\ loop' = loop ELSE k' = 1 /\ loop' = next
UpTo(next) ==
    IF k < Len(nodes) THEN k' = k + 1 /\ loop' = loop ELSE k' = k /\ loop' = next

-----------------------------------------------------------------------------
(* compute_children_: one iteration for each site of s, backward.           *)

Browsing == pc = "done" /\ loop = "children"

StoreNode(q) ==
    /\ nodes' = Append(nodes, q)
    /\ leaves' = IF IsLeaf(q) THEN Append(leaves, q) ELSE leaves

\* Mutant: s is browsed from the roots to the leaves.
AddNodeForward ==
    LET q == s[N + 1 - k] IN
    /\ Browsing
    /\ f[parent[q]] # f[q]
    /\ StoreNode(q)
    /\ children' = [children EXCEPT ![parent[q]] = Append(@, q)]
    /\ DownTo("call")
    /\ UNCHANGED <<vars, nroots>>

AddNode ==
    LET q == s[k] IN
    /\ Browsing
    /\ f[parent[q]] # f[q]
    /\ StoreNode(q)
    /\ children' = [children EXCEPT ![parent[q]] = Append(@, q)]
    /\ DownTo("call")
    /\ UNCHANGED <<vars, nroots>>

AddRoot ==
    LET q == s[k] IN
    /\ Browsing
    /\ parent[q] = q
    /\ StoreNode(q)
    /\ nroots' = nroots + 1
    /\ DownTo("call")
    /\ UNCHANGED <<vars, children>>

SkipSite ==
    LET q == s[k] IN
    /\ Browsing
    /\ ~ IsNode(q)
    /\ DownTo("call")
    /\ UNCHANGED <<vars, children, nodes, leaves, nroots>>

DataNext == AddNode \/ AddRoot \/ SkipSite

-----------------------------------------------------------------------------
(* Properties.                                                              *)

\* The sites of the level set of q that are connected to q in it.
ComponentOf(q) ==
    LET cut == CHOOSE j \in 1..N : f[s[j]] = f[q] /\ IsCut(j)
        D == LevelFrom(cut)
        around == {C \in SUBSET D : q \in C /\ NbhClosed(D, C)}
    IN {r \in D : \A C \in around : r \in C}

\* Of the sites qs, with the part that each stands for: those whose part is
\* strictly inside that of q, and the largest of them.
Inside(part, qs, q) == {r \in qs : part[r] # part[q] /\ part[r] \subseteq part[q]}
JustInside(part, qs, q) ==
    LET inside == Inside(part, qs, q)
    IN {r \in inside : \A m \in inside : r \notin Inside(part, qs, m)}

\* What a user of the tree relies on: the nodes are, once each, the components
\* of all the level sets; the children of a node are the largest components
\* strictly inside it, the leaves have none, the roots are inside no other.
NodesAreComponents ==
    loop = "call" =>
      \E part \in {[q \in Site |-> ComponentOf(q)]} :
        /\ \A q \in Site : Cardinality({j \in DOMAIN nodes : part[nodes[j]] = part[q]}) = 1
        /\ \A q \in Nodes :
             /\ IsInjective(children[q])
             /\ ToSet(children[q]) = JustInside(part, Nodes, q)
        /\ IsInjective(leaves)
        /\ ToSet(leaves) = {q \in Nodes : Inside(part, Nodes, q) = {}}
        /\ nroots = Cardinality(Nodes \ UNION {Inside(part, Nodes, q) : q \in Nodes})
=============================================================================
