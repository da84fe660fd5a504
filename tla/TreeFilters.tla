----------------------------- MODULE TreeFilters -----------------------------
(***************************************************************************)
(* What is computed on a component tree: the filters                        *)
(* milena/mln/morpho/tree/filter/{direct,min,max,subtractive,filter}.hh,    *)
(* the propagations propagate_if.hh, propagate_node.hh and                  *)
(* propagate_representative.hh, and compute_attribute_image.hh.             *)
(*                                                                         *)
(* A behaviour builds the tree and makes one call.  The image to change, a, *)
(* starts as a copy of f.  The predicate is the set of nodes where it holds, *)
(* or "the value is w", which propagate_if_value evaluates on the image it  *)
(* is changing.  An accumulator is the bag of the sites it took.            *)
(***************************************************************************)
EXTENDS TreeData

CONSTANT NewValues     \* values to propagate, other than those of the image

ASSUME NewValuesAssumption == NewValues \subseteq Int \ {Unset}

VARIABLES
    routine,   \* the routine called
    pred, w,   \* the predicate: a set of nodes, or a value if w is not Unset
    v,         \* the value to propagate; Unset: that of the node
    target,    \* the node given to propagate_node_*
    at,        \* the node n that climbs in propagate_node_to_ancestors
    mark, a, acc,
    stack,     \* of depth1st_piter; Unset is its sentinel
    nb_leaves

args == <<routine, pred, w, v, target>>
call_vars == <<args, at, mark, a, acc, stack, nb_leaves>>
tree_vars == <<vars, children, nodes, leaves, nroots>>

StartFilters ==
    /\ StartData
    /\ routine = "none" /\ pred = {} /\ w = Unset /\ v = Unset
    /\ target = Unset /\ at = Unset
    /\ mark = <<>> /\ a = <<>> /\ acc = <<>> /\ stack = <<>>
    /\ nb_leaves = 0

-----------------------------------------------------------------------------
(* Calls.                                                                   *)

Call(r, first, from) ==
    /\ loop = "call"
    /\ routine' = r /\ loop' = first /\ k' = from
    /\ a' = f
    /\ UNCHANGED tree_vars

Marks(b) == mark' = [q \in Site |-> b]

\* The filters: max begins with an upward loop, the others go down.
CallFilter ==
    /\ \/ Call("direct", "direct", Len(nodes)) /\ Marks(FALSE) /\ v' = Unset
       \/ Call("min", "min", Len(nodes)) /\ Marks(FALSE) /\ v' = Unset
       \/ Call("max", "max_mark", 1) /\ Marks(TRUE) /\ v' = Unset
       \/ Call("subtractive", "desc", Len(nodes)) /\ Marks(FALSE) /\ v' = Unset
       \/ Call("filter", "filter", Len(nodes)) /\ Marks(FALSE) /\ v' \in NewValues
    /\ pred' \in SUBSET Nodes
    /\ UNCHANGED <<w, target, at, acc, stack, nb_leaves>>

CallPropagateIf ==
    /\ \/ Call("desc", "desc", Len(nodes)) /\ v' \in NewValues \cup {Unset}
       \/ Call("asc", "asc", 1) /\ v' \in NewValues
    /\ Marks(FALSE)
    /\ pred' \in SUBSET Nodes
    /\ UNCHANGED <<w, target, at, acc, stack, nb_leaves>>

\* propagate_if_value: the value propagated is w unless another is given.
CallPropagateIfValue ==
    /\ \E val \in Value :
         /\ w' = val
         /\ v' \in NewValues \cup {val}
    /\ \/ Call("desc", "desc", Len(nodes))
       \/ Call("asc", "asc", 1)
    /\ Marks(FALSE)
    /\ UNCHANGED <<pred, target, at, acc, stack, nb_leaves>>

\* The node that represents q.
Representative(q) == IF IsNode(q) THEN q ELSE parent[q]

\* depth1st_piter: next takes the node on top and pushes its children.
Top == Last(stack)
Next1st(st) == Front(st) \o children[Last(st)]

\* propagate_node_to_descendants starts at the node itself, which keeps its
\* value but counts as a leaf.
CallDescendants ==
    \E q \in Site :
      LET n1 == Representative(q) IN
      /\ Call("descendants", "descendants", 1)
      /\ v' \in NewValues \cup {f[q]}
      /\ target' = n1
      /\ stack' = Next1st(<<Unset, n1>>)
      /\ nb_leaves' = IF IsLeaf(n1) THEN 1 ELSE 0
      /\ UNCHANGED <<pred, w, at, mark, acc>>

CallAncestors ==
    \E q \in Site :
      /\ Call("ancestors", IF IsRoot(Representative(q)) THEN "returned" ELSE "ancestors", 1)
      /\ v' \in NewValues \cup {f[q]}
      /\ target' = Representative(q) /\ at' = target'
      /\ UNCHANGED <<pred, w, mark, acc, stack, nb_leaves>>

CallAttribute ==
    /\ Call("attribute", "attribute", N)
    /\ acc' = [q \in Site |-> [r \in Site |-> IF r = q THEN 1 ELSE 0]]
    /\ UNCHANGED <<pred, w, v, target, at, mark, stack, nb_leaves>>

\* The predicate at a node; subtractive propagates on its negation.
Checks(n1) ==
    IF routine = "subtractive" THEN n1 \notin pred
    ELSE IF w # Unset THEN a[n1] = w
    ELSE n1 \in pred

-----------------------------------------------------------------------------
(* The loops: one action for an iteration, at the node nodes[k].            *)

Node == nodes[k]
Up == parent[Node]
Same == UNCHANGED <<tree_vars, args, at, acc, stack, nb_leaves>>

\* Mutant: the nodes are browsed upward.
DirectUpward ==
    /\ loop = "direct"
    /\ LET n1 == nodes[Len(nodes) + 1 - k] IN
         a' = IF n1 \in pred THEN a ELSE [a EXCEPT ![n1] = a[parent[n1]]]
    /\ DownTo("representative")
    /\ UNCHANGED mark /\ Same

Direct ==
    /\ loop = "direct"
    /\ a' = IF Node \in pred THEN a ELSE [a EXCEPT ![Node] = a[Up]]
    /\ DownTo("representative")
    /\ UNCHANGED mark /\ Same

\* min and filter: a node falls with its parent.
Prune ==
    /\ loop \in {"min", "filter"}
    /\ IF mark[Up] \/ Node \notin pred
         THEN /\ a' = [a EXCEPT ![Node] = IF loop = "min" THEN a[Up] ELSE v]
              /\ mark' = [mark EXCEPT ![Node] = TRUE]
         ELSE UNCHANGED <<a, mark>>
    /\ DownTo("representative")
    /\ Same

\* max: a node that stays keeps its parent.
MaxMark ==
    /\ loop = "max_mark"
    /\ mark' = CASE ~ mark[Node] -> [mark EXCEPT ![Up] = FALSE]
                 [] mark[Node] /\ Node \in pred -> [mark EXCEPT ![Up] = FALSE, ![Node] = FALSE]
                 [] OTHER -> mark
    /\ UpTo("max")
    /\ UNCHANGED a /\ Same

Max1 ==
    /\ loop = "max"
    /\ a' = IF mark[Node] THEN [a EXCEPT ![Node] = a[Up]] ELSE a
    /\ DownTo("representative")
    /\ UNCHANGED mark /\ Same

\* propagate_if downward, with a value or with that of the parent.
PropagateDown ==
    /\ loop = "desc"
    /\ IF mark[Up] THEN /\ a' = [a EXCEPT ![Node] = IF v = Unset THEN a[Up] ELSE v]
                        /\ mark' = [mark EXCEPT ![Node] = TRUE]
                   ELSE /\ UNCHANGED a
                        /\ mark' = [mark EXCEPT ![Node] = Checks(Node)]
    /\ DownTo(IF routine = "subtractive" THEN "subtractive" ELSE "returned")
    /\ Same

\* subtractive goes on upward, on nodes whose parents are not changed yet.
Subtract ==
    /\ loop = "subtractive"
    /\ a' = IF Node \in pred THEN a ELSE [a EXCEPT ![Node] = a[Up]]
    /\ UpTo("representative")
    /\ UNCHANGED mark /\ Same

PropagateUp ==
    /\ loop = "asc"
    /\ a' = IF mark[Node] THEN [a EXCEPT ![Node] = v] ELSE a
    /\ mark' = IF mark[Node] \/ Checks(Node) THEN [mark EXCEPT ![Up] = TRUE] ELSE mark
    /\ UpTo("returned")
    /\ Same

\* The other sites take the value of the node they belong to: the caller of a
\* filter does it with propagate_representative.
PropagateRepresentative ==
    /\ loop = "representative"
    /\ a' = [q \in Site |-> a[Representative(q)]]
    /\ loop' = "returned"
    /\ UNCHANGED <<k, mark>> /\ Same

PropagateDescendants ==
    /\ loop = "descendants"
    /\ IF Top = Unset
         THEN loop' = "returned" /\ UNCHANGED <<a, stack, nb_leaves>>
         ELSE /\ a' = [a EXCEPT ![Top] = v]
              /\ stack' = Next1st(stack)
              /\ nb_leaves' = nb_leaves + IF IsLeaf(Top) THEN 1 ELSE 0
              /\ UNCHANGED loop
    /\ UNCHANGED <<tree_vars, args, at, k, mark, acc>>

PropagateAncestors ==
    /\ loop = "ancestors"
    /\ at' = parent[at]
    /\ a' = [a EXCEPT ![at'] = v]
    /\ loop' = IF IsRoot(at') THEN "returned" ELSE loop
    /\ UNCHANGED <<tree_vars, args, k, mark, acc, stack, nb_leaves>>

\* Mutant: the sites are browsed from the roots.
TakeForward ==
    LET q == s[N + 1 - k] IN
    /\ loop = "attribute"
    /\ acc' = IF IsRoot(q) THEN acc
              ELSE [acc EXCEPT ![parent[q]] = [r \in Site |-> @[r] + acc[q][r]]]
    /\ DownTo("back")
    /\ UNCHANGED <<tree_vars, args, at, mark, a, stack, nb_leaves>>

\* compute_attribute_image: each site gives what it has to its parent, ...
Take ==
    LET q == s[k] IN
    /\ loop = "attribute"
    /\ acc' = IF IsRoot(q) THEN acc
              ELSE [acc EXCEPT ![parent[q]] = [r \in Site |-> @[r] + acc[q][r]]]
    /\ DownTo("back")
    /\ UNCHANGED <<tree_vars, args, at, mark, a, stack, nb_leaves>>

\* ... then gets the total of its node.
TakeBack ==
    /\ loop = "back"
    /\ acc' = [q \in Site |-> acc[Representative(q)]]
    /\ loop' = "returned"
    /\ UNCHANGED <<tree_vars, args, at, k, mark, a, stack, nb_leaves>>

Calls ==
    \/ CallFilter \/ CallPropagateIf \/ CallPropagateIfValue
    \/ CallDescendants \/ CallAncestors \/ CallAttribute

Loops ==
    \/ Direct \/ Prune \/ MaxMark \/ Max1
    \/ PropagateDown \/ Subtract \/ PropagateUp
    \/ PropagateRepresentative
    \/ PropagateDescendants \/ PropagateAncestors
    \/ Take \/ TakeBack

FiltersNext ==
    \/ Next /\ UNCHANGED <<data_vars, call_vars>>
    \/ DataNext /\ UNCHANGED call_vars
    \/ Calls
    \/ Loops

-----------------------------------------------------------------------------
(* Properties.                                                              *)

\* The nodes that hold q, from its own to the root.
Way(q) ==
    LET up[r \in Site] == IF IsRoot(r) THEN {r} ELSE {r} \cup up[parent[r]]
    IN up[Representative(q)]
Above(q) == Way(q) \ {Representative(q)}

\* Among nodes of one way, the one nearest to the leaves, or to the root.
Lowest(S) == CHOOSE q \in S : \A r \in S : Rank(s, r) <= Rank(s, q)
Highest(S) == CHOOSE q \in S : \A r \in S : Rank(s, q) <= Rank(s, r)

\* Where the predicate holds in the image given.
Chosen == IF w = Unset THEN pred ELSE {q \in Nodes : f[q] = w}
Rejected == Nodes \ pred

\* The nodes that each strategy removes: those that fail the predicate; for min
\* and filter, those under one of them too.
Removed ==
    IF routine \in {"min", "filter"} THEN {q \in Nodes : Way(q) \cap Rejected # {}}
                                     ELSE Rejected

\* What a node gets from the topmost of the nodes S strictly above it.
FromTop(S, q) ==
    LET over == Above(q) \cap S IN
    IF over = {} THEN f[q] ELSE IF v = Unset THEN f[Highest(over)] ELSE v

\* f, but for the sites S, which have what val gives.
Changed(S, val(_)) == [q \in Site |-> IF q \in S THEN val(q) ELSE f[q]]

\* The sites at which the strategies are documented without contradiction.
\* filter/max.hh, lines 53-55, removes a node that fails the predicate, which max
\* does not do above a node that stays.  filter/subtractive.hh gives what is under
\* a removed node "the value of the removed component", which names one value
\* under one such node only; under two, subtractive has not "the same result" as
\* the others with an increasing predicate (filter/all.hh, lines 33-36).
Settled(q) ==
    /\ routine = "max" =>
         \A r \in pred : \A t \in Way(q) \cap Way(r) \cap Rejected : IsRoot(t)
    /\ routine = "subtractive" =>
         \A r, t \in Way(q) \cap Rejected : r = t

\* direct, min and max give a site the value of the lowest node that holds it and
\* stays (the root always does); filter gives v to the sites of the nodes that go;
\* under subtractive the site of a removed node takes the value of the parent, and
\* a site under a removed node has the value of that node.  The propagations
\* change the nodes strictly below, or above, a node of the predicate or the node
\* given, and nothing else; the leaves counted are those of the component.
FilteredAsDefined ==
    loop = "returned" =>
      LET NewValue(q) == v
          stay == (Nodes \ Removed) \cup {q \in Nodes : IsRoot(q)}
          Subtracts(q, over) ==
            IF over = {} THEN f[q]
            ELSE IF Representative(q) \in over THEN f[parent[Representative(q)]]
            ELSE f[Highest(over)]
      IN CASE routine \in {"direct", "min", "max"} ->
                \A q \in Site : Settled(q) => a[q] = f[Lowest(Way(q) \cap stay)]
           [] routine = "filter" ->
                a = Changed({q \in Site : Representative(q) \in Removed}, NewValue)
           [] routine = "subtractive" ->
                \A q \in Site : Settled(q) => a[q] = Subtracts(q, Way(q) \cap Rejected)
           [] routine = "desc" -> a = Changed(Nodes, LAMBDA q : FromTop(Chosen, q))
           [] routine = "asc" -> a = Changed(UNION {Above(q) : q \in Chosen}, NewValue)
           [] routine = "descendants" ->
                /\ a = Changed({q \in Nodes : target \in Above(q)}, NewValue)
                /\ nb_leaves = Cardinality({q \in ToSet(leaves) : target \in Way(q)})
           [] routine = "ancestors" -> a = Changed(Above(target), NewValue)
           [] routine = "attribute" -> TRUE

\* compute_attribute_image: at every site, the accumulator has taken each site
\* of the component that the site stands for, once, and no other.
AttributesAreComponents ==
    loop = "returned" /\ routine = "attribute" =>
      \A q \in Site : acc[q] = [r \in Site |-> IF r \in ComponentOf(q) THEN 1 ELSE 0]

\* check_propagate_if, the postcondition of propagate_if (propagate_if.hh,
\* lines 190, 219 and 251).
PropagationIsChecked ==
    loop = "returned" =>
      /\ routine = "desc" =>
           \A q \in Nodes :
             a[q] # (IF v = Unset THEN a[parent[q]] ELSE v) => ~ Checks(parent[q])
      /\ routine = "asc" =>
           \A q \in Nodes : Checks(q) => a[parent[q]] = v
=============================================================================
