----------------------------- MODULE MCDualInput -----------------------------
(* Every pair of images on a small grid in the 4-connectivity.  Both        *)
(* versions of sort_psites_increasing keep equal values in the order of the *)
(* scan, the counting sort and the comparison of sites.                     *)
EXTENDS DualDispatch

CONSTANTS Rows, Cols, Quants
G == INSTANCE Grid

MCNbh == G!C4

Order(g) == G!SortedBy(LAMBDA a, b : g[a] < g[b] \/ (g[a] = g[b] /\ a < b))

IdleHqueue ==
    /\ hqueues = <<>>
    /\ is_node_at_level = <<>> /\ node_at_level = <<>>
    /\ h_idx = 0 /\ p = 0 /\ mn = 0 /\ x = 0

IdleUnionFind == s_m = <<>> /\ p_f = 0 /\ p_m = 0 /\ ext = 0 /\ zpar = <<>>

MCInit ==
    /\ quant \in Quants
    /\ f \in [Site -> Value]
    /\ m \in [Site -> Value]
    /\ s_f = Order(f)
    /\ IF Low THEN Start /\ IdleUnionFind
              ELSE /\ s_m = Order(m)
                   /\ UnionFind!Start
                   /\ IdleHqueue

MCSpec == MCInit /\ [][DispatchNext]_<<vars, quant, union_find_vars>>

\* The site arrays enumerated here are those Init allows.
ASSUME \A g \in [Site -> Value] : UnionFind!Sorts(Order(g), g)
=============================================================================
