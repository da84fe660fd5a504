-------------------------- MODULE MCComponentTree --------------------------
(* The component tree of every image of a small grid in the 4-connectivity, *)
(* with s as data::sort_psites yields it: increasing or decreasing values,  *)
(* and equal values in either order of the scan.  Some of these trees       *)
(* become a tree::data, and of them some undergo every filter, propagation  *)
(* and attribute.                                                           *)
EXTENDS TreeFilters, Grid

MCInit ==
    /\ f \in [Site -> Value]
    /\ s \in Orders(f, {1, -1})
    /\ Start
    /\ StartFilters

\* The trees that become a tree::data: max-trees of the images with a given
\* last value, equal values in the order of the scan, ...
Built ==
    /\ f[6] = 1
    /\ s = SortedBy(LAMBDA q, r : f[q] < f[r] \/ (f[q] = f[r] /\ q < r))

\* ... and those on which calls are made, with a peak next to this value.
Filtered == f[3] = 3 /\ f[4] = f[5]

MCNext ==
    \/ Next /\ UNCHANGED <<data_vars, call_vars>>
    \/ Built /\ DataNext /\ UNCHANGED call_vars
    \/ Filtered /\ Calls
    \/ Loops

MCSpec == MCInit /\ [][MCNext]_<<vars, data_vars, call_vars>>

\* The site arrays enumerated here are those Init allows.
ASSUME \A g \in [Site -> Value] : \A o \in Orders(g, {1, -1}) :
          Enumerates(o) /\ Sorted(g, o)
=============================================================================
