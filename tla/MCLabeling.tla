----------------------------- MODULE MCLabeling -----------------------------
(* Labeling on every image of a small grid in the 4-connectivity, for each   *)
(* functor and each canvas it may run in; sites of equal value are sorted in *)
(* either order of the scan.                                                 *)
EXTENDS Labeling, Grid

CONSTANT Functors   \* the functors to run

MCInit ==
    /\ canvas \in Canvas /\ functor \in Functors
    /\ input \in [Site -> Value]
    /\ s \in {Scan} \cup Orders(input, {1, -1})
    /\ LegalCall
    /\ Start

MCSpec == MCInit /\ [][Next]_vars
=============================================================================
