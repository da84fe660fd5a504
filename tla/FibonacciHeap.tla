---------------------------- MODULE FibonacciHeap ----------------------------
(***************************************************************************)
(* The Fibonacci heap of milena/mln/util/fibonacci_heap.hh: circular lists  *)
(* of nodes, under any calls on a few heaps whose nodes share one memory.   *)
(* decrease_key() and remove() are private and never called, so no node is  *)
(* ever marked; num_trees and num_marked_nodes are read by nobody and left  *)
(* out.  clear() and the destructor pop until the heap is empty.            *)
(***************************************************************************)
EXTENDS Integers, FiniteSets

CONSTANTS
    Heap,      \* the heaps
    MaxNodes,  \* bound on the nodes pushed, over all heaps
    Key        \* pairs (priority, value), by their rank in the order of nodes

null == 0

VARIABLES
    node,      \* the nodes alive
    heap,      \* heap[h]: min_root and num_nodes
    pc,        \* where consolidate() is
    this,      \* the heap whose front is being popped
    a,         \* a[d]: the tree of degree d met so far
    x, w, d,   \* the locals of consolidate()
    bag,       \* bag[h][v]: how many times v was pushed in h and not popped
    pushed     \* how many nodes were pushed

locals == <<pc, this, a, x, w, d>>
vars == <<node, heap, locals, bag, pushed>>

EmptyHeap == [min_root |-> null, num_nodes |-> 0]
NoKey == [v \in Key |-> 0]
NoTree == [k \in {} |-> null]

Init ==
    /\ node = NoTree
    /\ heap = [h \in Heap |-> EmptyHeap]
    /\ pc = "rest"
    /\ this = null /\ a = NoTree /\ x = null /\ w = null /\ d = 0
    /\ bag = [h \in Heap |-> NoKey]
    /\ pushed = 0

-----------------------------------------------------------------------------

\* The nodes met from n by right(), until the list ends or closes.
List(n) ==
    LET at[k \in 0..MaxNodes] ==
          IF k = 0 THEN n ELSE LET m == at[k - 1] IN IF m = null THEN null ELSE node[m].right
    IN {at[k] : k \in 0..MaxNodes} \ {null}

\* The nodes of the trees whose roots are given.
Trees(roots) ==
    LET at[k \in 0..MaxNodes] ==
          IF k = 0 THEN roots
          ELSE LET up == at[k - 1] IN up \cup UNION {List(node[n].child) : n \in up}
    IN at[MaxNodes]

Less(p, q) == node[p].key < node[q].key

\* insert() of n next to min, in the list of roots.
Inserted(nodes, n, min) ==
    IF min = null THEN [nodes EXCEPT ![n].left = n, ![n].right = n, ![n].parent = null]
    ELSE [nodes EXCEPT ![n].right = nodes[min].right, ![n].left = min,
                       ![n].parent = null,
                       ![nodes[min].right].left = n, ![min].right = n]

NewMin(nodes, n, min) == IF min = null \/ nodes[n].key < nodes[min].key THEN n ELSE min

\* A new node at a free address.
Push(h, v) ==
    /\ pc = "rest"
    /\ pushed < MaxNodes /\ pushed' = pushed + 1
    /\ \E n \in 1..MaxNodes :
         /\ n \notin DOMAIN node /\ 1..(n - 1) \subseteq DOMAIN node
         /\ LET new == [left |-> null, right |-> null, parent |-> null, child |-> null,
                        degree |-> 0, key |-> v]
                nodes == [m \in DOMAIN node \cup {n} |-> IF m = n THEN new ELSE node[m]]
                min == heap[h].min_root
            IN /\ node' = Inserted(nodes, n, min)
               /\ heap' = [heap EXCEPT ![h] = [min_root |-> NewMin(nodes, n, min),
                                               num_nodes |-> @.num_nodes + 1]]
    /\ bag' = [bag EXCEPT ![h][v] = @ + 1]
    /\ UNCHANGED locals

\* Mutant: one list keeps its former next node.
JoinedHalf(nodes, min1, min2) ==
    LET next2 == nodes[min2].right
    IN [nodes EXCEPT ![min1].right = next2, ![next2].left = min1]

\* Two circular lists cut after their minimum nodes and joined.
Joined(nodes, min1, min2) ==
    LET next1 == nodes[min1].right
        next2 == nodes[min2].right
    IN [nodes EXCEPT ![min1].right = next2, ![next2].left = min1,
                     ![min2].right = next1, ![next1].left = min2]

\* push() of another heap, which is emptied.
PushHeap(h, other) ==
    /\ pc = "rest"
    /\ other # h /\ heap[other].min_root # null
    /\ LET min1 == heap[h].min_root
           min2 == heap[other].min_root
       IN /\ node' = IF min1 = null THEN node ELSE Joined(node, min1, min2)
          /\ heap' = [heap EXCEPT ![other] = EmptyHeap,
                        ![h] = [min_root |-> NewMin(node, min2, min1),
                                num_nodes |-> @.num_nodes + heap[other].num_nodes]]
    /\ bag' = [bag EXCEPT ![h] = [v \in Key |-> @[v] + bag[other][v]], ![other] = NoKey]
    /\ UNCHANGED <<locals, pushed>>

\* operator= and, on a new heap, the copy constructor take the nodes of rhs;
\* those of h, if any, are not deleted, and nothing leads to them any more.
Assign(h, rhs) ==
    /\ pc = "rest"
    /\ rhs # h
    /\ node' = [n \in DOMAIN node \ Trees(List(heap[h].min_root)) |-> node[n]]
    /\ heap' = [heap EXCEPT ![h] = heap[rhs], ![rhs] = EmptyHeap]
    /\ bag' = [bag EXCEPT ![h] = bag[rhs], ![rhs] = NoKey]
    /\ UNCHANGED <<locals, pushed>>

-----------------------------------------------------------------------------

\* The node is taken out of the roots, its children become roots, and, unless
\* nothing is left, consolidate() opens the circle at min_root.
PopFront(h) ==
    /\ pc = "rest"
    /\ heap[h].min_root # null
    /\ LET result == heap[h].min_root
           r == node[result]
           alone == r.right = result
           out == [node EXCEPT ![r.right].left = r.left, ![r.left].right = r.right]
           all == IF ~ alone /\ r.child # null THEN Joined(out, r.right, r.child) ELSE out
           orphan == IF r.child = null THEN all ELSE [all EXCEPT ![r.child].parent = null]
           kept == [n \in DOMAIN node \ {result} |-> orphan[n]]
           min == IF ~ alone THEN IF r.child = null THEN r.right ELSE NewMin(node, r.child, r.right)
                  ELSE r.child
       IN /\ node' = IF min = null THEN kept
                     ELSE [kept EXCEPT ![kept[min].left].right = null, ![min].left = null]
          /\ heap' = [heap EXCEPT ![h] = [min_root |-> min, num_nodes |-> @.num_nodes - 1]]
          /\ w' = min
          /\ this' = IF min = null THEN null ELSE h
          /\ pc' = IF min = null THEN "rest" ELSE "visit"
    /\ LET least == CHOOSE v \in Key : bag[h][v] > 0 /\ \A u \in Key : u < v => bag[h][u] = 0
       IN bag' = [bag EXCEPT ![h][least] = @ - 1]
    /\ UNCHANGED <<a, x, d, pushed>>

\* x = w; w = w->right()
Visit ==
    /\ pc = "visit"
    /\ x' = w /\ w' = node[w].right /\ d' = node[w].degree
    /\ pc' = "link"
    /\ UNCHANGED <<node, heap, this, a, bag, pushed>>

\* Mutant: the child is put in its list on one side only.
LinkedHalf(y, z) ==
    [node EXCEPT ![y].parent = z, ![y].left = y, ![y].right = y, ![z].child = y, ![z].degree = @ + 1]

\* link(y, z): y leaves the roots, which are no longer a circle, and becomes a
\* child of z.
Linked(y, z) ==
    LET l == node[y].left
        r == node[y].right
        c == node[z].child
        cut1 == IF r = null THEN node ELSE [node EXCEPT ![r].left = l]
        cut2 == IF l = null THEN cut1 ELSE [cut1 EXCEPT ![l].right = r]
        down == [cut2 EXCEPT ![y].parent = z, ![z].degree = @ + 1]
    IN IF c = null THEN [down EXCEPT ![y].left = y, ![y].right = y, ![z].child = y]
       ELSE [down EXCEPT ![y].left = c, ![y].right = down[c].right,
                         ![down[c].right].left = y, ![c].right = y]

\* A collision of degree: the tree with the lesser root gets the other one.
Link ==
    /\ pc = "link"
    /\ d \in DOMAIN a
    /\ \E y, z \in {a[d], x} :
         /\ y # z /\ (IF Less(a[d], x) THEN z = a[d] ELSE z = x)
         /\ node' = Linked(y, z)
         /\ x' = z
         /\ w' = IF w = y THEN node[y].right ELSE w
    /\ a' = [k \in DOMAIN a \ {d} |-> a[k]]
    /\ d' = d + 1
    /\ UNCHANGED <<heap, pc, this, bag, pushed>>

\* a[d] = x; then the roots are rebuilt from nothing.
Place ==
    /\ pc = "link"
    /\ d \notin DOMAIN a
    /\ a' = [k \in DOMAIN a \cup {d} |-> IF k = d THEN x ELSE a[k]]
    /\ x' = null /\ d' = 0
    /\ pc' = IF w = null THEN "rebuild" ELSE "visit"
    /\ heap' = IF w = null THEN [heap EXCEPT ![this].min_root = null] ELSE heap
    /\ UNCHANGED <<node, this, w, bag, pushed>>

\* add_to_root_list(), by increasing degrees; num_nodes goes down and up.
AddToRootList ==
    /\ pc = "rebuild"
    /\ \E k \in DOMAIN a :
         /\ \A l \in DOMAIN a : k <= l
         /\ node' = Inserted(node, a[k], heap[this].min_root)
         /\ heap' = [heap EXCEPT ![this].min_root = NewMin(node, a[k], @)]
         /\ a' = [l \in DOMAIN a \ {k} |-> a[l]]
    /\ pc' = IF DOMAIN a' = {} THEN "rest" ELSE pc
    /\ this' = IF DOMAIN a' = {} THEN null ELSE this
    /\ UNCHANGED <<x, w, d, bag, pushed>>

Next ==
    \/ \E h \in Heap :
         \/ \E v \in Key : Push(h, v)
         \/ \E other \in Heap : PushHeap(h, other) \/ Assign(h, other)
         \/ PopFront(h)
    \/ Visit \/ Link \/ Place \/ AddToRootList

Spec == Init /\ [][Next]_vars

-----------------------------------------------------------------------------

TypeOK ==
    /\ DOMAIN node \subseteq 1..MaxNodes
    /\ \A n \in DOMAIN node :
         /\ {node[n].left, node[n].right, node[n].child} \subseteq DOMAIN node \cup {null}
         /\ node[n].degree \in Nat /\ node[n].key \in Key
    /\ \A h \in Heap : heap[h].min_root \in DOMAIN node \cup {null} /\ heap[h].num_nodes \in Nat
    /\ pc \in {"rest", "visit", "link", "rebuild"} /\ this \in Heap \cup {null}
    /\ bag \in [Heap -> [Key -> Nat]]

Placed == {a[k] : k \in DOMAIN a}

\* The roots of h, while they are being consolidated too.
Roots(h) ==
    IF h # this THEN List(heap[h].min_root)
    ELSE CASE pc = "visit"   -> List(w) \cup Placed
           [] pc = "link"    -> List(w) \cup Placed \cup {x}
           [] pc = "rebuild" -> List(heap[h].min_root) \cup Placed

\* No node is lost or shared, whatever the lists go through: at every step the
\* trees of a heap hold what was pushed and not popped, and a root that was
\* visited is not visited again.
HoldsBag ==
    LET trees == [h \in Heap |-> Trees(Roots(h))] IN
    /\ \A h \in Heap :
         /\ heap[h].num_nodes = Cardinality(trees[h])
         /\ \A v \in Key : bag[h][v] = Cardinality({n \in trees[h] : node[n].key = v})
         /\ \A g \in Heap : g # h => trees[g] \cap trees[h] = {}
    /\ List(w) \cap Placed = {} /\ (pc = "link" => x \notin List(w) \cup Placed)

\* Between calls every list is circular, its nodes have their parent right, a
\* node is never less than its parent, and a tree of degree d has 2^d nodes, so
\* that the 65 cells of the array of consolidate() are enough.
Binomial ==
    pc = "rest" =>
       \A n \in DOMAIN node :
          LET r == node[n] IN
          /\ node[r.right].left = n /\ node[r.left].right = n
          /\ Cardinality(Trees({n})) = 2 ^ r.degree
          /\ r.child # null =>
               /\ Cardinality(List(r.child)) = r.degree
               /\ \A c \in List(r.child) : node[c].parent = n /\ r.key <= node[c].key
          /\ \A h \in Heap : n \in List(heap[h].min_root) => r.parent = null

\* "Return the minimum value in the heap" (line 142).
FrontIsMinimum ==
    pc = "rest" =>
       \A h \in Heap : heap[h].min_root # null =>
          \A v \in Key : bag[h][v] > 0 => node[heap[h].min_root].key <= v
=============================================================================
