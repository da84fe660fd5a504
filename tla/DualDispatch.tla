---------------------------- MODULE DualDispatch -----------------------------
(***************************************************************************)
(* dual_input_max_tree: the dispatch of dual_input_tree.hh on the           *)
(* quantization of the image, to dual_hqueue for a low one, else to         *)
(* dual_union_find.  What the two have a name in common for (the images,    *)
(* the parents, the site arrays, deja_vu...) is one variable here; what     *)
(* only the other one has keeps its initial content.                        *)
(***************************************************************************)
EXTENDS DualHqueue

VARIABLES
    quant,                    \* "low" or "any"
    s_m, p_f, p_m, ext, zpar  \* dual_union_find's

hqueue_vars == <<hqueues, nodes, h_idx, p, mn, x>>
union_find_vars == <<s_m, p_f, p_m, ext, zpar>>

UnionFind == INSTANCE DualUnionFind

NextLow ==
    /\ quant = "low"
    /\ Next
    /\ UNCHANGED <<quant, union_find_vars>>

NextAny ==
    /\ quant = "any"
    /\ UnionFind!Next
    /\ UNCHANGED <<quant, hqueue_vars>>

DispatchNext == NextLow \/ NextAny

-----------------------------------------------------------------------------

Low == quant = "low"

DispatchTypeOK == IF Low THEN TypeOK ELSE UnionFind!TypeOK

\* On the way: dual_hqueue floods the levels from the highest down, and the
\* union-find of dual_union_find is that of the mask.
DispatchFollowsLevels ==
    IF Low THEN HighestLevelFirst ELSE UnionFind!MergesTheMask

\* Both return a canonized tree with one root, that of the image under the
\* connectivity of the mask at every level, whichever built it; dual_union_find
\* also sorts its sites from the root.
DispatchReturnsMaskTree ==
    IF Low THEN ReturnsCanonized /\ ReturnsRoot /\ ReturnsMaskTree
           ELSE UnionFind!ReturnsTree /\ UnionFind!ReturnsMaskTree
=============================================================================
